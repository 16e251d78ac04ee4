--------------------------- MODULE Registry_proofs ---------------------------
(* Machine-checked proofs about module Registry, for all constants.        *)
EXTENDS Registry, TLAPS

\* Sets of await points: those of a start, and those of a stop or shutdown.
InStart == {"starting", "seeding", "settling", "connecting", "hidraw",
            "undo_seed", "undo_bridge"}
InStop  == {"bridge_down", "emu_down"}

\* What the registry task holds at each await.
TaskHolds ==
    /\ pc = "recv" => /\ cur = None /\ curId = None /\ curProc = None
                      /\ victims = {}
    /\ pc # "recv" => cur \in Callers /\ curId \in Ids /\ curProc \in Procs
    /\ pc \in InStart => victims = {}

TypeInv == TypeOK /\ TaskHolds

USE DEF callVars, taskVars, physVars

-----------------------------------------------------------------------------

LEMMA RequestFields ==
    ASSUME TypeOK, NEW c \in Callers
    PROVE  /\ req[c] \in Request
           /\ req[c].id \in Ids \cup {None}
           /\ req[c].op \in Ops
           /\ req[c].ready \in BOOLEAN
  BY RegistryAssumption DEF TypeOK, Request

LEMMA ReplyTypes ==
    /\ NoReply \in Reply
    /\ \A tag \in Tags, ids \in SUBSET Ids : Ok(tag, ids) \in Reply
    /\ \A code \in Codes : Err(code) \in Reply
  BY DEF NoReply, Reply, Ok, Err, Tags, Codes

LEMMA AnswerTypes ==
    ASSUME TypeOK, NEW c \in Callers, NEW r \in Reply, Answer(c, r)
    PROVE  reply' \in [Callers -> Reply]
  BY DEF TypeOK, Answer

LEMMA TypeInit == RegInit => TypeInv
  <1> SUFFICES ASSUME RegInit PROVE TypeInv
    OBVIOUS
  <1>1. Blank \in Requests
    BY RegistryAssumption DEF Blank
  <1>2. TypeOK
    BY <1>1, ReplyTypes, RegistryAssumption DEF RegInit, TypeOK
  <1>3. TaskHolds
    BY DEF RegInit, TaskHolds, InStart
  <1> QED BY <1>2, <1>3 DEF TypeInv

\* The command at the head of the channel: its caller leaves the channel.
LEMMA Received ==
    ASSUME TypeOK, NEW c, NEW op, Recv(c, op)
    PROVE  /\ c \in Callers
           /\ pc = "recv"
           /\ queue' \in Seq(Callers) /\ Len(queue') <= QueueCap
           /\ Len(queue') = Len(queue) - 1
           /\ c = queue[1] /\ 1 \in 1..Len(queue)
           /\ \A k \in 1..Len(queue') : queue'[k] = queue[k + 1]
  BY RegistryAssumption DEF TypeOK, Recv

-----------------------------------------------------------------------------
(* Type correctness, together with the shape of the task's own variables.  *)

LEMMA FinishTypes ==
    ASSUME TypeInv, NEW c \in Callers, NEW r \in Reply, Finish(c, r)
    PROVE  /\ reply' \in [Callers -> Reply]
           /\ pc' = "recv" /\ cur' = None /\ curId' = None
           /\ curProc' = None /\ victims' = {}
  BY AnswerTypes DEF Finish, Suspend, TypeInv

LEMMA TakeDownTypes ==
    ASSUME TypeOK, NEW c \in Callers, NEW i \in Registered, TakeDown(c, i)
    PROVE  /\ pc' = "bridge_down" /\ cur' = c /\ curId' = i
           /\ i \in Ids /\ curProc' = instances[i] /\ instances[i] \in Procs
           /\ instances' \in [Ids -> Procs \cup {None}]
           /\ dev' \in [Procs -> {"none", "open", "closing"}]
  BY DEF TypeOK, TakeDown, Suspend, Registered, Closed

LEMMA InsertTypes ==
    ASSUME TypeInv, pc # "recv", Insert
    PROVE  /\ reply' \in [Callers -> Reply]
           /\ pc' = "recv" /\ cur' = None /\ curId' = None
           /\ curProc' = None /\ victims' = {}
           /\ instances' \in [Ids -> Procs \cup {None}]
           /\ emu' \in [Procs -> {"none", "up", "hung", "dead"}]
           /\ dev' \in [Procs -> {"none", "open", "closing"}]
  <1>1. cur \in Callers /\ curId \in Ids /\ curProc \in Procs
    BY DEF TypeInv, TaskHolds
  <1>2. Ok("started", {curId}) \in Reply
    BY <1>1, ReplyTypes DEF Tags
  <1>3. Finish(cur, Ok("started", {curId}))
    BY DEF Insert
  <1>4. /\ reply' \in [Callers -> Reply]
        /\ pc' = "recv" /\ cur' = None /\ curId' = None
        /\ curProc' = None /\ victims' = {}
    BY <1>1, <1>2, <1>3, FinishTypes
  <1>5. /\ instances' \in [Ids -> Procs \cup {None}]
        /\ emu' \in [Procs -> {"none", "up", "hung", "dead"}]
        /\ dev' \in [Procs -> {"none", "open", "closing"}]
    BY <1>1 DEF Insert, TypeInv, TypeOK, Closed
  <1> QED BY <1>4, <1>5

\* Answering in the step that receives the command leaves the task idle.
LEMMA AnswerNowTypes ==
    ASSUME TypeInv, NEW c, NEW op, Recv(c, op), NEW r \in Reply, Answer(c, r),
           UNCHANGED <<callVars, taskVars, physVars>>
    PROVE  TypeInv'
  <1>1. c \in Callers /\ queue' \in Seq(Callers) /\ Len(queue') <= QueueCap
    BY Received DEF TypeInv
  <1>2. reply' \in [Callers -> Reply]
    BY <1>1, AnswerTypes DEF TypeInv
  <1> QED BY <1>1, <1>2 DEF TypeInv, TypeOK, TaskHolds

LEMMA TypeStep == TypeInv /\ [RegNext]_regVars => TypeInv'
  <1> SUFFICES ASSUME TypeInv, [RegNext]_regVars PROVE TypeInv'
    OBVIOUS
  <1> USE DEF InStart, InStop
  <1>0. ASSUME UNCHANGED regVars PROVE TypeInv'
    BY <1>0 DEF regVars, TypeInv, TypeOK, TaskHolds
  <1>1. ASSUME NEW c \in Callers, NEW r \in Requests, Call(c, r)
        PROVE  TypeInv'
    BY <1>1 DEF Call, TypeInv, TypeOK, TaskHolds
  <1>2. ASSUME NEW c \in Callers, Send(c) PROVE TypeInv'
    BY <1>2, RegistryAssumption DEF Send, TypeInv, TypeOK, TaskHolds
  <1>3. ASSUME NEW c \in Callers, Return(c) PROVE TypeInv'
    <2>1. reply' \in [Callers -> Reply]
      BY <1>3, ReplyTypes, AnswerTypes DEF Return, TypeInv
    <2>2. Blank \in Requests
      BY RegistryAssumption DEF Blank
    <2> QED BY <1>3, <2>1, <2>2 DEF Return, TypeInv, TypeOK, TaskHolds
  <1>4. ASSUME NEW c \in Callers,
               NEW op \in {"status", "logs", "bridge_stats"},
               AnswerQuery(c, op)
        PROVE  TypeInv'
    <2>1. /\ Ok(op, Registered) \in Reply
          /\ \A i \in Registered : Ok(op, {i}) \in Reply
          /\ Err("InstanceNotFound") \in Reply
      BY ReplyTypes DEF Registered, Tags, Codes
    <2>2. \E r \in Reply : Answer(c, r)
      BY <1>4, <2>1 DEF AnswerQuery
    <2> QED BY <1>4, <2>2, AnswerNowTypes DEF AnswerQuery
  <1>5. ASSUME NEW c \in Callers, RefuseStart(c) PROVE TypeInv'
    <2>1. PICK code \in StartErrors : Answer(c, Err(code))
      BY <1>5 DEF RefuseStart, StartErrors
    <2>2. Err(code) \in Reply
      BY ReplyTypes DEF Codes
    <2> QED BY <1>5, <2>1, <2>2, AnswerNowTypes DEF RefuseStart
  <1>6. ASSUME NEW c \in Callers, SpawnEmulator(c) PROVE TypeInv'
    <2>1. PICK i \in Ids, p \in Procs :
              /\ emu' = [emu EXCEPT ![p] = "up"]
              /\ Suspend("starting", c, i, p)
      BY <1>6 DEF SpawnEmulator
    <2>2. queue' \in Seq(Callers) /\ Len(queue') <= QueueCap /\ pc = "recv"
      BY <1>6, Received DEF SpawnEmulator, TypeInv
    <2> QED
      BY <1>6, <2>1, <2>2 DEF SpawnEmulator, Suspend, TypeInv, TypeOK, TaskHolds
  <1>7. ASSUME DelayOver \/ Seeded \/ SeedFails \/ CreateDeviceFails
               \/ ConnectFails \/ BridgeDown
        PROVE  TypeInv'
    BY <1>7 DEF DelayOver, Seeded, SeedFails, CreateDeviceFails, ConnectFails,
                BridgeDown, Advance, TypeInv, TypeOK, TaskHolds
  <1>8. ASSUME CreateDevice PROVE TypeInv'
    BY <1>8 DEF CreateDevice, Advance, TypeInv, TypeOK, TaskHolds
  <1>9. ASSUME Connected PROVE TypeInv'
    <2>1. CASE pc' = "hidraw" /\ UNCHANGED <<reply, cur, curId, curProc,
                                            victims, physVars>>
      BY <1>9, <2>1 DEF Connected, TypeInv, TypeOK, TaskHolds
    <2>2. CASE Insert
      BY <1>9, <2>2, InsertTypes DEF Connected, TypeInv, TypeOK, TaskHolds
    <2> QED BY <1>9, <2>1, <2>2 DEF Connected
  <1>10. ASSUME HidrawSettled PROVE TypeInv'
    BY <1>10, InsertTypes DEF HidrawSettled, TypeInv, TypeOK, TaskHolds
  <1>11. ASSUME UndoStart PROVE TypeInv'
    <2>1. cur \in Callers /\ curProc \in Procs
      BY <1>11 DEF UndoStart, TypeInv, TaskHolds
    <2>2. /\ reply' \in [Callers -> Reply]
          /\ pc' = "recv" /\ cur' = None /\ curId' = None
          /\ curProc' = None /\ victims' = {}
      BY <1>11, <2>1, ReplyTypes, FinishTypes DEF UndoStart, Codes, StartErrors
    <2> QED
      BY <1>11, <2>1, <2>2 DEF UndoStart, Closed, TypeInv, TypeOK, TaskHolds
  <1>12. ASSUME NEW c \in Callers, StopUnknown(c) PROVE TypeInv'
    BY <1>12, ReplyTypes, AnswerNowTypes DEF StopUnknown, Tags
  <1>13. ASSUME NEW c \in Callers, ShutdownEmpty(c) PROVE TypeInv'
    BY <1>13, ReplyTypes, AnswerNowTypes DEF ShutdownEmpty, Tags
  <1>14. ASSUME NEW c \in Callers, BeginStop(c) PROVE TypeInv'
    <2>1. queue' \in Seq(Callers) /\ Len(queue') <= QueueCap
      BY <1>14, Received DEF BeginStop, TypeInv
    <2> QED
      BY <1>14, <2>1, TakeDownTypes
      DEF BeginStop, Registered, TypeInv, TypeOK, TaskHolds
  <1>15. ASSUME NEW c \in Callers, BeginShutdown(c) PROVE TypeInv'
    <2>1. queue' \in Seq(Callers) /\ Len(queue') <= QueueCap
      BY <1>15, Received DEF BeginShutdown, TypeInv
    <2> QED
      BY <1>15, <2>1, TakeDownTypes
      DEF BeginShutdown, Registered, TypeInv, TypeOK, TaskHolds
  <1>16. ASSUME StopNext PROVE TypeInv'
    <2>1. cur \in Callers /\ curProc \in Procs
      BY <1>16 DEF StopNext, TypeInv, TaskHolds
    <2> QED
      BY <1>16, <2>1, TakeDownTypes DEF StopNext, TypeInv, TypeOK, TaskHolds
  <1>17. ASSUME StopLast PROVE TypeInv'
    <2>1. cur \in Callers /\ curProc \in Procs
      BY <1>17 DEF StopLast, TypeInv, TaskHolds
    <2>2. /\ reply' \in [Callers -> Reply]
          /\ pc' = "recv" /\ cur' = None /\ curId' = None
          /\ curProc' = None /\ victims' = {}
      BY <1>17, <2>1, ReplyTypes, FinishTypes DEF StopLast, Tags
    <2> QED BY <1>17, <2>1, <2>2 DEF StopLast, TypeInv, TypeOK, TaskHolds
  <1>18. ASSUME NEW p \in Procs, EmuDies(p) \/ EmuHangs(p) \/ DevGone(p)
         PROVE  TypeInv'
    BY <1>18 DEF EmuDies, EmuHangs, DevGone, TypeInv, TypeOK, TaskHolds
  <1> QED
    BY <1>0, <1>1, <1>2, <1>3, <1>4, <1>5, <1>6, <1>7, <1>8, <1>9, <1>10,
       <1>11, <1>12, <1>13, <1>14, <1>15, <1>16, <1>17, <1>18
    DEF RegNext, TaskStep, SeedStep, ProcStep

\* Every variable of the registry keeps its type.
THEOREM RegistryTypes == RegSpec => []TypeOK
  <1>1. RegSpec => []TypeInv
    BY TypeInit, TypeStep, PTL DEF RegSpec
  <1>2. TypeInv => TypeOK
    BY DEF TypeInv
  <1> QED BY <1>1, <1>2, PTL
-----------------------------------------------------------------------------
(* One reply per command.  A step does one of four things to the commands  *)
(* under way: nothing, answer the one it receives, start executing it, or  *)
(* answer the one that was being executed.                                 *)

DistinctQueue == \A j, k \in 1..Len(queue) : queue[j] = queue[k] => j = k

LEMMA QueueAfterRecv ==
    ASSUME TypeInv, OneReply, NEW c, NEW op, Recv(c, op)
    PROVE  /\ c \in Callers /\ Queued(c) /\ ~Queued(c)'
           /\ \A d \in Callers \ {c} : Queued(d)' <=> Queued(d)
           /\ DistinctQueue'
  <1>1. /\ c \in Callers /\ c = queue[1] /\ 1 \in 1..Len(queue)
        /\ Len(queue) \in Nat /\ Len(queue') = Len(queue) - 1
        /\ \A k \in 1..Len(queue') : queue'[k] = queue[k + 1]
    BY Received DEF TypeInv, TypeOK
  <1>2. DistinctQueue
    BY DEF OneReply, DistinctQueue
  <1>3. Queued(c)
    BY <1>1 DEF Queued
  <1>4. ~Queued(c)'
    BY <1>1, <1>2 DEF Queued, DistinctQueue
  <1>5. ASSUME NEW d \in Callers \ {c} PROVE Queued(d)' <=> Queued(d)
    <2>1. Queued(d)' => Queued(d)
      BY <1>1 DEF Queued
    <2>2. ASSUME Queued(d) PROVE Queued(d)'
      <3>1. PICK k \in 1..Len(queue) : queue[k] = d
        BY <2>2 DEF Queued
      <3>2. k - 1 \in 1..Len(queue') /\ queue'[k - 1] = d
        BY <1>1, <3>1
      <3> QED BY <3>2 DEF Queued
    <2> QED BY <2>1, <2>2
  <1>6. DistinctQueue'
    BY <1>1, <1>2 DEF DistinctQueue
  <1> QED BY <1>1, <1>3, <1>4, <1>5, <1>6

LEMMA AnswerOnReceipt ==
    ASSUME TypeInv, OneReply, NEW c, NEW op, Recv(c, op),
           NEW r \in Reply, r.tag # "none", Answer(c, r), UNCHANGED <<stage, cur>>
    PROVE  OneReply'
  <1>1. /\ Answered(c)' /\ c \in Callers /\ ~(cur = c) /\ ~(cur' = c)
        /\ \A d \in Callers \ {c} : Answered(d)' <=> Answered(d)
    BY QueueAfterRecv DEF Answer, Answered, TypeInv, TypeOK, OneReply
  <1>2. \A d \in Callers : (cur' = d <=> cur = d) /\ stage'[d] = stage[d]
    OBVIOUS
  <1> QED
    BY <1>1, <1>2, QueueAfterRecv DEF OneReply, DistinctQueue

LEMMA ExecuteOnReceipt ==
    ASSUME TypeInv, OneReply, NEW c, NEW op, Recv(c, op),
           cur' = c, UNCHANGED <<stage, reply>>
    PROVE  OneReply'
  <1>1. \A d \in Callers : cur # d
    BY RegistryAssumption DEF Recv, TypeInv, TaskHolds
  <1>2. \A d \in Callers : (Answered(d)' <=> Answered(d)) /\ stage'[d] = stage[d]
    BY DEF Answered
  <1> QED
    BY <1>1, <1>2, QueueAfterRecv DEF OneReply, DistinctQueue

LEMMA AnswerExecuted ==
    ASSUME TypeInv, OneReply, cur \in Callers, NEW r \in Reply, r.tag # "none",
           Finish(cur, r), UNCHANGED <<stage, queue>>
    PROVE  OneReply'
  <1>1. /\ reply'[cur].tag # "none" /\ \A d \in Callers : cur' # d
        /\ \A d \in Callers \ {cur} : Answered(d)' <=> Answered(d)
    BY RegistryAssumption
    DEF Finish, Suspend, Answer, Answered, TypeInv, TypeOK
  <1>2. \A d \in Callers : (Queued(d)' <=> Queued(d)) /\ stage'[d] = stage[d]
    BY DEF Queued
  <1>3. \A d \in Callers : Answered(d)' <=> reply'[d].tag # "none"
    BY DEF Answered
  <1> QED BY <1>1, <1>2, <1>3 DEF OneReply

LEMMA NothingAnswered ==
    ASSUME OneReply, UNCHANGED <<stage, queue, cur, reply>>
    PROVE  OneReply'
  BY DEF OneReply, Queued, Answered

LEMMA InsertAnswers ==
    ASSUME TypeInv, OneReply, pc # "recv", Insert, UNCHANGED <<stage, queue>>
    PROVE  OneReply'
  <1>1. cur \in Callers /\ curId \in Ids
    BY DEF TypeInv, TaskHolds
  <1>2. Ok("started", {curId}) \in Reply /\ Ok("started", {curId}).tag # "none"
    BY <1>1, ReplyTypes DEF Tags, Ok
  <1> QED BY <1>1, <1>2, AnswerExecuted DEF Insert

LEMMA OneReplyInit == RegInit => OneReply
  BY RegistryAssumption DEF RegInit, OneReply, Queued, Answered, NoReply, Ok

LEMMA OneReplyStep == TypeInv /\ OneReply /\ [RegNext]_regVars => OneReply'
  <1> SUFFICES ASSUME TypeInv, OneReply, [RegNext]_regVars PROVE OneReply'
    OBVIOUS
  <1>0. ASSUME UNCHANGED regVars PROVE OneReply'
    BY <1>0, NothingAnswered DEF regVars
  <1>1. ASSUME NEW c \in Callers, NEW r \in Requests, Call(c, r)
        PROVE  OneReply'
    BY <1>1 DEF Call, OneReply, Queued, Answered, TypeInv, TypeOK
  <1>2. ASSUME NEW c \in Callers, Send(c) PROVE OneReply'
    <2>1. /\ queue \in Seq(Callers) /\ queue' = Append(queue, c)
          /\ stage[c] = "sending" /\ stage'[c] = "waiting"
          /\ \A d \in Callers \ {c} : stage'[d] = stage[d]
          /\ \A d \in Callers : (Answered(d)' <=> Answered(d)) /\ cur' = cur
      BY <1>2 DEF Send, TypeInv, TypeOK, Answered
    <2>2. ~Queued(c) /\ cur # c /\ ~Answered(c) /\ DistinctQueue
      BY <2>1 DEF OneReply, DistinctQueue
    <2>3. /\ Len(queue) \in Nat /\ Len(queue') = Len(queue) + 1
          /\ queue'[Len(queue) + 1] = c
          /\ \A k \in 1..Len(queue) : queue'[k] = queue[k]
      BY <2>1
    <2>4. Queued(c)' /\ \A d \in Callers \ {c} : Queued(d)' <=> Queued(d)
      BY <2>3 DEF Queued
    <2>5. DistinctQueue'
      BY <2>2, <2>3 DEF Queued, DistinctQueue
    <2> QED BY <2>1, <2>2, <2>4, <2>5 DEF OneReply, DistinctQueue
  <1>3. ASSUME NEW c \in Callers, Return(c) PROVE OneReply'
    <2>1. /\ stage'[c] = "idle" /\ ~Answered(c)' /\ Answered(c)
          /\ \A d \in Callers \ {c} : /\ stage'[d] = stage[d]
                                      /\ Answered(d)' <=> Answered(d)
          /\ \A d \in Callers : Queued(d)' <=> Queued(d)
          /\ cur' = cur /\ queue' = queue
      BY <1>3
      DEF Return, Answer, Answered, NoReply, Ok, Queued, TypeInv, TypeOK
    <2> QED BY <2>1 DEF OneReply
  <1>4. ASSUME NEW c \in Callers,
               NEW op \in {"status", "logs", "bridge_stats"},
               AnswerQuery(c, op)
        PROVE  OneReply'
    <2>1. \A ids \in SUBSET Ids :
              Ok(op, ids) \in Reply /\ Ok(op, ids).tag # "none"
      BY ReplyTypes DEF Ok, Tags
    <2>2. Err("InstanceNotFound") \in Reply
          /\ Err("InstanceNotFound").tag # "none"
      BY ReplyTypes DEF Err, Codes
    <2>3. \E r \in Reply : r.tag # "none" /\ Answer(c, r)
      BY <1>4, <2>1, <2>2 DEF AnswerQuery, Registered
    <2> QED BY <1>4, <2>3, AnswerOnReceipt DEF AnswerQuery
  <1>5. ASSUME NEW c \in Callers, RefuseStart(c) PROVE OneReply'
    <2>1. PICK code \in StartErrors : Answer(c, Err(code))
      BY <1>5 DEF RefuseStart, StartErrors
    <2>2. Err(code) \in Reply /\ Err(code).tag # "none"
      BY ReplyTypes DEF Codes, Err
    <2> QED BY <1>5, <2>1, <2>2, AnswerOnReceipt DEF RefuseStart
  <1>6. ASSUME NEW c \in Callers, SpawnEmulator(c) PROVE OneReply'
    BY <1>6, ExecuteOnReceipt DEF SpawnEmulator, Suspend
  <1>7. ASSUME DelayOver \/ Seeded \/ SeedFails \/ CreateDeviceFails
               \/ ConnectFails \/ BridgeDown \/ CreateDevice
        PROVE  OneReply'
    BY <1>7, NothingAnswered
    DEF DelayOver, Seeded, SeedFails, CreateDeviceFails, ConnectFails,
        BridgeDown, CreateDevice, Advance
  <1>8. ASSUME Connected PROVE OneReply'
    BY <1>8, NothingAnswered, InsertAnswers DEF Connected
  <1>9. ASSUME HidrawSettled PROVE OneReply'
    BY <1>9, InsertAnswers DEF HidrawSettled
  <1>10. ASSUME UndoStart PROVE OneReply'
    <2>1. cur \in Callers
      BY <1>10 DEF UndoStart, TypeInv, TaskHolds
    <2>2. \A code \in StartErrors : Err(code) \in Reply
                                    /\ Err(code).tag # "none"
      BY ReplyTypes DEF Codes, Err
    <2> QED
      BY <1>10, <2>1, <2>2, AnswerExecuted DEF UndoStart, StartErrors
  <1>11. ASSUME NEW c \in Callers, StopUnknown(c) PROVE OneReply'
    <2>1. Ok("stopped", {}) \in Reply /\ Ok("stopped", {}).tag # "none"
      BY ReplyTypes DEF Ok, Tags
    <2> QED BY <1>11, <2>1, AnswerOnReceipt DEF StopUnknown
  <1>12. ASSUME NEW c \in Callers, ShutdownEmpty(c) PROVE OneReply'
    <2>1. /\ Ok("shutting_down", {}) \in Reply
          /\ Ok("shutting_down", {}).tag # "none"
      BY ReplyTypes DEF Ok, Tags
    <2> QED BY <1>12, <2>1, AnswerOnReceipt DEF ShutdownEmpty
  <1>13. ASSUME NEW c \in Callers, BeginStop(c) \/ BeginShutdown(c)
         PROVE  OneReply'
    BY <1>13, ExecuteOnReceipt DEF BeginStop, BeginShutdown, TakeDown, Suspend
  <1>14. ASSUME StopNext PROVE OneReply'
    BY <1>14, NothingAnswered DEF StopNext, TakeDown, Suspend
  <1>15. ASSUME StopLast PROVE OneReply'
    <2>1. cur \in Callers
      BY <1>15 DEF StopLast, TypeInv, TaskHolds
    <2>2. \A tag \in {"stopped", "shutting_down"} :
              Ok(tag, {}) \in Reply /\ Ok(tag, {}).tag # "none"
      BY ReplyTypes DEF Ok, Tags
    <2> QED BY <1>15, <2>1, <2>2, AnswerExecuted DEF StopLast
  <1>16. ASSUME NEW p \in Procs, EmuDies(p) \/ EmuHangs(p) \/ DevGone(p)
         PROVE  OneReply'
    BY <1>16, NothingAnswered DEF EmuDies, EmuHangs, DevGone
  <1> QED
    BY <1>0, <1>1, <1>2, <1>3, <1>4, <1>5, <1>6, <1>7, <1>8, <1>9, <1>10,
       <1>11, <1>12, <1>13, <1>14, <1>15, <1>16
    DEF RegNext, TaskStep, SeedStep, ProcStep

\* The command of every waiting caller is in exactly one place.
THEOREM RepliesOnce == RegSpec => []OneReply
  <1>1. TypeInv /\ OneReply /\ [RegNext]_regVars => (TypeInv /\ OneReply)'
    BY TypeStep, OneReplyStep
  <1> QED BY TypeInit, OneReplyInit, <1>1, PTL DEF RegSpec
-----------------------------------------------------------------------------
(* Ownership of simulators and devices.                                    *)

\* The device of an instance being stopped was told to go before its
\* simulator is: without this conjunct the invariant is not inductive.
DeviceFirst == pc \in InStop => dev[curProc] # "open"

Ownership == NoLeak /\ SoleOwner /\ DeviceFirst

LEMMA OwnershipInit == RegInit => Ownership
  BY RegistryAssumption
  DEF RegInit, Ownership, NoLeak, SoleOwner, Owned, DeviceFirst, InStop

\* Steps that leave map, processes and the owner in the task alone.
LEMMA OwnershipKept ==
    ASSUME Ownership, UNCHANGED <<curProc, physVars>>,
           pc' \in InStop => pc \in InStop
    PROVE  Ownership'
  BY DEF Ownership, NoLeak, SoleOwner, Owned, DeviceFirst

LEMMA InsertOwnership ==
    ASSUME TypeInv, Ownership, pc # "recv", Insert PROVE Ownership'
  <1> DEFINE old == instances[curId]
  <1>1. /\ curId \in Ids /\ curProc \in Procs /\ curProc' = None
        /\ instances' = [instances EXCEPT ![curId] = curProc]
        /\ old \in Procs \cup {None} /\ None \notin Procs
    BY RegistryAssumption
    DEF Insert, Finish, Suspend, TypeInv, TypeOK, TaskHolds
  <1>2. /\ \A i \in Ids : instances[i] # curProc
        /\ \A i \in Ids : i # curId /\ old # None => instances[i] # old
    BY <1>1 DEF Ownership, SoleOwner
  <1>3. SoleOwner'
    BY <1>1, <1>2 DEF Ownership, SoleOwner, TypeInv, TypeOK
  <1>4. ASSUME NEW p \in Procs
        PROVE Owned(p)' <=> Owned(p) /\ p # old
    BY <1>1, <1>2 DEF Owned, TypeInv, TypeOK
  <1>5. ASSUME NEW p \in Procs
        PROVE  /\ emu'[p] # "none" <=> emu[p] # "none" /\ p # old
               /\ dev'[p] = "open" => dev[p] = "open" /\ p # old
    BY <1>1 DEF Insert, Closed, TypeInv, TypeOK
  <1>6. NoLeak'
    BY <1>4, <1>5 DEF Ownership, NoLeak
  <1>7. DeviceFirst'
    BY DEF Insert, Finish, Suspend, DeviceFirst, InStop
  <1> QED BY <1>3, <1>6, <1>7 DEF Ownership

\* Handing instance i from the map to the task; the same step reaps the
\* simulator the task had, if any.
LEMMA TakeDownOwnership ==
    ASSUME TypeInv, Ownership, NEW c \in Callers \cup {None},
           NEW i \in Registered, TakeDown(c, i),
           \/ pc = "recv" /\ emu' = emu
           \/ pc \in InStop /\ emu' = [emu EXCEPT ![curProc] = "none"]
    PROVE  Ownership'
  <1>1. /\ i \in Ids /\ instances[i] \in Procs /\ curProc' = instances[i]
        /\ instances' = [instances EXCEPT ![i] = None]
        /\ curProc # instances[i] /\ None \notin Procs
        /\ pc = "recv" => curProc = None
        /\ pc \in InStop => curProc \in Procs
    BY RegistryAssumption
    DEF TakeDown, Suspend, Registered, TypeInv, TypeOK, TaskHolds, Ownership,
        SoleOwner, InStop
  <1>2. \A j \in Ids : j # i => instances[j] # instances[i]
    BY <1>1 DEF Ownership, SoleOwner
  <1>3. \A j \in Ids : curProc # None => instances[j] # curProc
    BY DEF Ownership, SoleOwner
  <1>4. SoleOwner'
    BY <1>1, <1>2 DEF Ownership, SoleOwner, TypeInv, TypeOK
  <1>5. ASSUME NEW p \in Procs
        PROVE Owned(p)' <=> Owned(p) /\ p # curProc
    BY <1>1, <1>2, <1>3 DEF Owned, TypeInv, TypeOK
  <1>6. ASSUME NEW p \in Procs
        PROVE  /\ emu'[p] # "none" <=> emu[p] # "none" /\ p # curProc
               /\ dev'[p] = "open" => dev[p] = "open"
    BY <1>1 DEF TakeDown, Closed, TypeInv, TypeOK
  <1>7. NoLeak'
    <2>1. ASSUME NEW p \in Procs PROVE dev'[p] = "open" => Owned(p)'
      <3> SUFFICES ASSUME dev'[p] = "open" PROVE p # curProc /\ Owned(p)
        BY <1>5
      <3>1. dev[p] = "open"
        BY <1>6
      <3>2. p # curProc
        BY <1>1, <3>1 DEF Ownership, DeviceFirst
      <3> QED BY <3>1, <3>2 DEF Ownership, NoLeak
    <2> QED BY <1>5, <1>6, <2>1 DEF Ownership, NoLeak
  <1>8. DeviceFirst'
    BY <1>1 DEF TakeDown, Closed, Suspend, DeviceFirst, TypeInv, TypeOK
  <1> QED BY <1>4, <1>7, <1>8 DEF Ownership

LEMMA OwnershipStep == TypeInv /\ Ownership /\ [RegNext]_regVars => Ownership'
  <1> SUFFICES ASSUME TypeInv, Ownership, [RegNext]_regVars PROVE Ownership'
    OBVIOUS
  <1>0. ASSUME UNCHANGED regVars PROVE Ownership'
    BY <1>0, OwnershipKept DEF regVars
  <1>1. ASSUME NEW c \in Callers,
               \/ \E r \in Requests : Call(c, r)
               \/ Send(c) \/ Return(c)
               \/ \E op \in {"status", "logs", "bridge_stats"} :
                     AnswerQuery(c, op)
               \/ RefuseStart(c) \/ StopUnknown(c) \/ ShutdownEmpty(c)
        PROVE  Ownership'
    BY <1>1, OwnershipKept
    DEF Call, Send, Return, AnswerQuery, RefuseStart, StopUnknown,
        ShutdownEmpty
  <1>2. ASSUME DelayOver \/ Seeded \/ SeedFails \/ CreateDeviceFails
               \/ ConnectFails \/ BridgeDown
        PROVE  Ownership'
    BY <1>2, OwnershipKept
    DEF DelayOver, Seeded, SeedFails, CreateDeviceFails, ConnectFails,
        BridgeDown, Advance, InStop
  <1>3. ASSUME NEW c \in Callers, SpawnEmulator(c) PROVE Ownership'
    <2>1. PICK i \in Ids, p \in Procs :
              /\ emu[p] = "none"
              /\ emu' = [emu EXCEPT ![p] = "up"]
              /\ curProc' = p /\ pc' = "starting"
      BY <1>3 DEF SpawnEmulator, Unused, Suspend
    <2>2. curProc = None /\ ~Owned(p) /\ p # None
      BY <1>3, <2>1, RegistryAssumption
      DEF SpawnEmulator, Recv, TypeInv, TaskHolds, Ownership, NoLeak
    <2>3. UNCHANGED <<instances, dev>>
      BY <1>3 DEF SpawnEmulator
    <2>4. \A q \in Procs : Owned(q)' <=> Owned(q) \/ q = p
      BY <2>1, <2>2, <2>3, RegistryAssumption DEF Owned
    <2>5. NoLeak'
      BY <2>1, <2>3, <2>4 DEF NoLeak, Ownership, TypeInv, TypeOK
    <2>6. SoleOwner' /\ DeviceFirst'
      BY <2>1, <2>2, <2>3
      DEF SoleOwner, Owned, Ownership, DeviceFirst, InStop
    <2> QED BY <2>5, <2>6 DEF Ownership
  <1>4. ASSUME CreateDevice PROVE Ownership'
    BY <1>4
    DEF CreateDevice, Advance, Ownership, NoLeak, SoleOwner, Owned,
        DeviceFirst, InStop, TypeInv, TypeOK
  <1>5. ASSUME Connected PROVE Ownership'
    BY <1>5, OwnershipKept, InsertOwnership DEF Connected, InStop
  <1>6. ASSUME HidrawSettled PROVE Ownership'
    BY <1>6, InsertOwnership DEF HidrawSettled
  <1>7. ASSUME UndoStart \/ StopLast PROVE Ownership'
    <2>1. /\ curProc \in Procs /\ curProc' = None /\ pc' = "recv"
          /\ UNCHANGED instances
          /\ emu' = [emu EXCEPT ![curProc] = "none"]
      BY <1>7
      DEF UndoStart, StopLast, Finish, Suspend, TypeInv, TaskHolds
    <2>2. /\ dev' \in [Procs -> {"none", "open", "closing"}]
          /\ \A p \in Procs :
                dev'[p] = "open" => dev[p] = "open" /\ p # curProc
      <3>1. CASE UndoStart
        BY <2>1, <3>1 DEF UndoStart, Closed, TypeInv, TypeOK
      <3>2. CASE StopLast
        BY <2>1, <3>2
        DEF StopLast, Ownership, DeviceFirst, InStop, TypeInv, TypeOK
      <3> QED BY <1>7, <3>1, <3>2
    <2>3. \A p \in Procs : Owned(p)' <=> Owned(p) /\ p # curProc
      <3>1. \A p \in Procs : Owned(p)' <=> \E i \in Ids : instances[i] = p
        BY <2>1, RegistryAssumption DEF Owned
      <3>2. \A i \in Ids : instances[i] # curProc
        BY <2>1, RegistryAssumption DEF Ownership, SoleOwner
      <3> QED BY <3>1, <3>2 DEF Owned
    <2>4. NoLeak'
      BY <2>1, <2>2, <2>3 DEF NoLeak, Ownership, TypeInv, TypeOK
    <2>5. SoleOwner' /\ DeviceFirst'
      BY <2>1 DEF SoleOwner, Ownership, DeviceFirst, InStop
    <2> QED BY <2>4, <2>5 DEF Ownership
  <1>8. ASSUME NEW c \in Callers, BeginStop(c) \/ BeginShutdown(c)
        PROVE  Ownership'
    <2>1. PICK i \in Registered : TakeDown(c, i)
      BY <1>8 DEF BeginStop, BeginShutdown
    <2>2. pc = "recv" /\ emu' = emu
      BY <1>8 DEF BeginStop, BeginShutdown, Recv
    <2> QED BY <2>1, <2>2, TakeDownOwnership
  <1>9. ASSUME StopNext PROVE Ownership'
    <2>1. PICK i \in Registered : TakeDown(cur, i)
      BY <1>9 DEF StopNext
    <2>2. /\ pc \in InStop /\ emu' = [emu EXCEPT ![curProc] = "none"]
          /\ cur \in Callers
      BY <1>9 DEF StopNext, InStop, TypeInv, TaskHolds
    <2> QED BY <2>1, <2>2, TakeDownOwnership
  <1>10. ASSUME NEW p \in Procs, EmuDies(p) \/ EmuHangs(p) \/ DevGone(p)
         PROVE  Ownership'
    <2>1. UNCHANGED <<pc, curProc, instances>>
      BY <1>10 DEF EmuDies, EmuHangs, DevGone
    <2>2. \A q \in Procs : /\ emu'[q] # "none" <=> emu[q] # "none"
                           /\ dev'[q] = "open" => dev[q] = "open"
      BY <1>10 DEF EmuDies, EmuHangs, DevGone, TypeInv, TypeOK
    <2>3. NoLeak' /\ SoleOwner'
      BY <2>1, <2>2 DEF Ownership, NoLeak, SoleOwner, Owned
    <2>4. DeviceFirst'
      BY <2>1, <2>2 DEF Ownership, DeviceFirst, InStop, TypeInv, TaskHolds
    <2> QED BY <2>3, <2>4 DEF Ownership
  <1> QED
    BY <1>0, <1>1, <1>2, <1>3, <1>4, <1>5, <1>6, <1>7, <1>8, <1>9, <1>10
    DEF RegNext, TaskStep, SeedStep, ProcStep

\* Nothing the registry starts is ever lost sight of.
THEOREM NothingLeaks == RegSpec => []NoLeak
  <1>1. TypeInv /\ Ownership /\ [RegNext]_regVars => (TypeInv /\ Ownership)'
    BY TypeStep, OwnershipStep
  <1>2. Ownership => NoLeak
    BY DEF Ownership
  <1> QED BY TypeInit, OwnershipInit, <1>1, <1>2, PTL DEF RegSpec

\* No simulator has two owners.
THEOREM OwnersAreSole == RegSpec => []SoleOwner
  <1>1. TypeInv /\ Ownership /\ [RegNext]_regVars => (TypeInv /\ Ownership)'
    BY TypeStep, OwnershipStep
  <1>2. Ownership => SoleOwner
    BY DEF Ownership
  <1> QED BY TypeInit, OwnershipInit, <1>1, <1>2, PTL DEF RegSpec

-----------------------------------------------------------------------------
(* What the command under execution was asked for.                         *)

\* A start is executed for a start request; a stop or shutdown for one, with
\* the victims that the request names.
ServesRequest ==
    /\ pc \in InStart => req[cur].op = "start"
    /\ pc \in InStop =>
          \/ req[cur].op = "stop" /\ victims = {req[cur].id}
          \/ req[cur].op = "shutdown" /\ Registered \subseteq victims

\* A reply slot that holds no answer holds nothing at all.
BlankReplies == \A c \in Callers : ~Answered(c) => reply[c] = NoReply

RegInv == /\ TypeInv
          /\ OneReply
          /\ Ownership
          /\ ServesRequest
          /\ BlankReplies

\* While a command is executed its caller waits, and keeps its request.
LEMMA CallerWaits ==
    ASSUME TypeInv, OneReply, pc # "recv"
    PROVE  cur \in Callers /\ stage[cur] = "waiting" /\ ~Answered(cur)
  BY DEF TypeInv, TaskHolds, OneReply

LEMMA QueuedWaits ==
    ASSUME TypeInv, OneReply, NEW c, NEW op, Recv(c, op)
    PROVE  c \in Callers /\ stage[c] = "waiting" /\ ~Answered(c)
  BY QueueAfterRecv DEF OneReply

LEMMA ServesInit == RegInit => ServesRequest /\ BlankReplies
  BY DEF RegInit, ServesRequest, BlankReplies, InStart, InStop

\* A step that answers one caller or blanks its slot keeps BlankReplies.
LEMMA BlankAfterAnswer ==
    ASSUME TypeInv, BlankReplies, NEW c \in Callers, NEW r \in Reply,
           r.tag # "none" \/ r = NoReply, Answer(c, r)
    PROVE  BlankReplies'
  BY DEF BlankReplies, Answer, Answered, TypeInv, TypeOK

LEMMA BlankKept ==
    ASSUME BlankReplies, UNCHANGED reply PROVE BlankReplies'
  BY DEF BlankReplies, Answered

\* What a step of the registry can answer, and to whom.
LEMMA TaskAnswers ==
    ASSUME TypeInv, OneReply, TaskStep \/ SeedStep \/ ProcStep
    PROVE  \/ UNCHANGED reply
           \/ \E c \in Callers : \E r \in Reply :
                 /\ r.tag # "none" /\ ~Answered(c) /\ stage[c] = "waiting"
                 /\ Answer(c, r)
  <1> DEFINE Goal == \/ UNCHANGED reply
                     \/ \E c \in Callers : \E r \in Reply :
                           /\ r.tag # "none" /\ ~Answered(c)
                           /\ stage[c] = "waiting" /\ Answer(c, r)
  <1>a. \A tag \in Tags \ {"none"}, ids \in SUBSET Ids :
            Ok(tag, ids) \in Reply /\ Ok(tag, ids).tag # "none"
    BY ReplyTypes DEF Ok
  <1>b. \A code \in Codes : Err(code) \in Reply /\ Err(code).tag # "none"
    BY ReplyTypes DEF Err
  <1>1. ASSUME NEW c \in Callers,
               NEW op \in {"status", "logs", "bridge_stats"},
               AnswerQuery(c, op)
        PROVE  Goal
    BY <1>1, <1>a, <1>b, QueuedWaits
    DEF AnswerQuery, Registered, Tags, Codes
  <1>2. ASSUME NEW c \in Callers, RefuseStart(c) PROVE Goal
    BY <1>2, <1>b, QueuedWaits DEF RefuseStart, Codes, StartErrors
  <1>3. ASSUME NEW c \in Callers, StopUnknown(c) \/ ShutdownEmpty(c)
        PROVE  Goal
    BY <1>3, <1>a, QueuedWaits DEF StopUnknown, ShutdownEmpty, Tags
  <1>4. ASSUME pc # "recv", Insert PROVE Goal
    BY <1>4, <1>a, CallerWaits DEF Insert, Finish, Tags, TypeInv, TaskHolds
  <1>5. ASSUME UndoStart PROVE Goal
    BY <1>5, <1>b, CallerWaits DEF UndoStart, Finish, Codes, StartErrors
  <1>6. ASSUME StopLast PROVE Goal
    BY <1>6, <1>a, CallerWaits DEF StopLast, Finish, Tags
  <1>7. ASSUME NEW c \in Callers,
               SpawnEmulator(c) \/ BeginStop(c) \/ BeginShutdown(c)
        PROVE  Goal
    BY <1>7 DEF SpawnEmulator, BeginStop, BeginShutdown
  <1>8. ASSUME DelayOver \/ Seeded \/ SeedFails \/ CreateDevice
               \/ CreateDeviceFails \/ ConnectFails \/ BridgeDown \/ StopNext
               \/ ProcStep
        PROVE  Goal
    BY <1>8
    DEF DelayOver, Seeded, SeedFails, CreateDevice, CreateDeviceFails,
        ConnectFails, BridgeDown, StopNext, Advance, ProcStep, EmuDies,
        EmuHangs, DevGone
  <1>9. ASSUME Connected \/ HidrawSettled PROVE Goal
    BY <1>9, <1>4 DEF Connected, HidrawSettled
  <1> QED
    BY <1>1, <1>2, <1>3, <1>5, <1>6, <1>7, <1>8, <1>9 DEF TaskStep, SeedStep

LEMMA BlankStep ==
    TypeInv /\ OneReply /\ BlankReplies /\ [RegNext]_regVars => BlankReplies'
  <1> SUFFICES ASSUME TypeInv, OneReply, BlankReplies, [RegNext]_regVars
               PROVE  BlankReplies'
    OBVIOUS
  <1>1. CASE UNCHANGED regVars
    BY <1>1, BlankKept DEF regVars
  <1>2. ASSUME NEW c \in Callers, \/ \E r \in Requests : Call(c, r)
                                  \/ Send(c)
        PROVE  BlankReplies'
    BY <1>2, BlankKept DEF Call, Send
  <1>3. ASSUME NEW c \in Callers, Return(c) PROVE BlankReplies'
    BY <1>3, BlankAfterAnswer, ReplyTypes DEF Return
  <1>4. CASE TaskStep \/ SeedStep \/ ProcStep
    BY <1>4, TaskAnswers, BlankKept, BlankAfterAnswer
  <1> QED BY <1>1, <1>2, <1>3, <1>4 DEF RegNext

\* The request under execution and its victims stay as they are until the
\* command ends or moves to its next victim.
LEMMA ServesKept ==
    ASSUME ServesRequest, UNCHANGED <<req, cur, victims, instances>>,
           pc' \in InStart => pc \in InStart,
           pc' \in InStop => pc \in InStop
    PROVE  ServesRequest'
  BY DEF ServesRequest, Registered

LEMMA ServesIdle == ASSUME pc' = "recv" PROVE ServesRequest'
  BY DEF ServesRequest, InStart, InStop

LEMMA ServesStep ==
    TypeInv /\ OneReply /\ ServesRequest /\ [RegNext]_regVars => ServesRequest'
  <1> SUFFICES ASSUME TypeInv, OneReply, ServesRequest, [RegNext]_regVars
               PROVE  ServesRequest'
    OBVIOUS
  <1>0. CASE UNCHANGED regVars
    BY <1>0, ServesKept DEF regVars
  <1>1. ASSUME NEW c \in Callers, NEW r \in Requests, Call(c, r)
        PROVE  ServesRequest'
    <2>1. CASE pc = "recv"
      BY <1>1, <2>1, ServesIdle DEF Call
    <2>2. CASE pc # "recv"
      <3>1. c # cur
        BY <1>1, <2>2, CallerWaits DEF Call
      <3>2. req'[cur] = req[cur]
        BY <1>1, <2>2, <3>1, CallerWaits DEF Call, TypeInv, TypeOK
      <3> QED BY <1>1, <3>2 DEF Call, ServesRequest, Registered
    <2> QED BY <2>1, <2>2
  <1>2. ASSUME NEW c \in Callers, Send(c) PROVE ServesRequest'
    BY <1>2, ServesKept DEF Send
  <1>3. ASSUME NEW c \in Callers, Return(c) PROVE ServesRequest'
    <2>1. CASE pc = "recv"
      BY <1>3, <2>1, ServesIdle DEF Return
    <2>2. CASE pc # "recv"
      <3>1. c # cur
        BY <1>3, <2>2, CallerWaits DEF Return
      <3>2. req'[cur] = req[cur]
        BY <1>3, <2>2, <3>1, CallerWaits DEF Return, TypeInv, TypeOK
      <3> QED BY <1>3, <3>2 DEF Return, ServesRequest, Registered
    <2> QED BY <2>1, <2>2
  <1>4. ASSUME NEW c \in Callers,
               \/ \E op \in {"status", "logs", "bridge_stats"} :
                     AnswerQuery(c, op)
               \/ RefuseStart(c) \/ StopUnknown(c) \/ ShutdownEmpty(c)
        PROVE  ServesRequest'
    BY <1>4, ServesIdle
    DEF AnswerQuery, RefuseStart, StopUnknown, ShutdownEmpty, Recv
  <1>5. ASSUME NEW c \in Callers, SpawnEmulator(c) PROVE ServesRequest'
    BY <1>5
    DEF SpawnEmulator, Recv, Suspend, ServesRequest, InStart, InStop
  <1>6. ASSUME DelayOver \/ Seeded \/ SeedFails \/ CreateDevice
               \/ CreateDeviceFails \/ ConnectFails \/ BridgeDown
        PROVE  ServesRequest'
    BY <1>6, ServesKept
    DEF DelayOver, Seeded, SeedFails, CreateDevice, CreateDeviceFails,
        ConnectFails, BridgeDown, Advance, InStart, InStop
  <1>7. ASSUME Connected PROVE ServesRequest'
    <2>1. CASE pc' = "hidraw" /\ UNCHANGED <<cur, victims, physVars>>
      BY <1>7, <2>1, ServesKept DEF Connected, InStart, InStop
    <2>2. CASE Insert
      BY <2>2, ServesIdle DEF Insert, Finish, Suspend
    <2> QED BY <1>7, <2>1, <2>2 DEF Connected
  <1>8. ASSUME HidrawSettled \/ UndoStart \/ StopLast PROVE ServesRequest'
    BY <1>8, ServesIdle
    DEF HidrawSettled, Insert, UndoStart, StopLast, Finish, Suspend
  <1>9. ASSUME NEW c \in Callers, BeginStop(c) PROVE ServesRequest'
    BY <1>9
    DEF BeginStop, Recv, TakeDown, Suspend, ServesRequest, InStart, InStop
  <1>10. ASSUME NEW c \in Callers, BeginShutdown(c) PROVE ServesRequest'
    <2>1. PICK i \in Registered : TakeDown(c, i)
      BY <1>10 DEF BeginShutdown
    <2>2. Registered' \subseteq Registered
      BY <2>1 DEF TakeDown, Registered, TypeInv, TypeOK
    <2> QED
      BY <1>10, <2>1, <2>2
      DEF BeginShutdown, Recv, TakeDown, Suspend, ServesRequest, InStart,
          InStop
  <1>11. ASSUME StopNext PROVE ServesRequest'
    <2>1. PICK i \in victims \cap Registered : TakeDown(cur, i)
      BY <1>11 DEF StopNext
    <2>2. Registered' \subseteq Registered
      BY <2>1 DEF TakeDown, Registered, TypeInv, TypeOK
    <2> QED
      BY <1>11, <2>1, <2>2
      DEF StopNext, TakeDown, Suspend, ServesRequest, InStart, InStop
  <1>12. ASSUME ProcStep PROVE ServesRequest'
    BY <1>12, ServesKept DEF ProcStep, EmuDies, EmuHangs, DevGone
  <1> QED
    BY <1>0, <1>1, <1>2, <1>3, <1>4, <1>5, <1>6, <1>7, <1>8, <1>9, <1>10,
       <1>11, <1>12
    DEF RegNext, TaskStep, SeedStep

\* The whole invariant, from which the action properties and the refinement
\* below are proved.
LEMMA RegInvInit == RegInit => RegInv
  BY TypeInit, OneReplyInit, OwnershipInit, ServesInit DEF RegInv

LEMMA RegInvStep == RegInv /\ [RegNext]_regVars => RegInv'
  BY TypeStep, OneReplyStep, OwnershipStep, ServesStep, BlankStep DEF RegInv

LEMMA RegInvHolds == RegSpec => []RegInv
  BY RegInvInit, RegInvStep, PTL DEF RegSpec
-----------------------------------------------------------------------------
(* What a reply means at the moment it is sent.                            *)

\* One slot changes when a reply is given.
LEMMA OneSlot ==
    ASSUME TypeInv, NEW c \in Callers, NEW r \in Reply, Answer(c, r)
    PROVE  /\ reply'[c] = r
           /\ \A d \in Callers \ {c} : reply'[d] = reply[d]
  BY DEF Answer, TypeInv, TypeOK

\* The steps that answer caller c.
AnswersNow(c) ==
    \/ \E op \in {"status", "logs", "bridge_stats"} : AnswerQuery(c, op)
    \/ RefuseStart(c)
    \/ StopUnknown(c)
    \/ ShutdownEmpty(c)
AnswersAtEnd(c) ==
    /\ c = cur /\ pc # "recv"
    /\ (pc \in InStart /\ Insert) \/ UndoStart \/ StopLast

LEMMA WhoAnswers ==
    ASSUME RegInv, [RegNext]_regVars,
           NEW c \in Callers, ~Answered(c), Answered(c)'
    PROVE  AnswersNow(c) \/ AnswersAtEnd(c)
  <1>1. reply' # reply
    BY DEF Answered
  <1>2. ASSUME NEW d \in Callers, NEW r, Answer(d, r) PROVE c = d
    BY <1>2 DEF Answer, Answered, RegInv, TypeInv, TypeOK
  <1>3. ~UNCHANGED regVars
    BY <1>1 DEF regVars
  <1>4. ASSUME NEW d \in Callers,
               \/ \E r \in Requests : Call(d, r)
               \/ Send(d)
        PROVE  FALSE
    BY <1>1, <1>4 DEF Call, Send
  <1>5. ASSUME NEW d \in Callers, Return(d) PROVE FALSE
    <2>1. c = d
      BY <1>2, <1>5 DEF Return
    <2> QED BY <1>5, <2>1 DEF Return
  <1>6. ASSUME NEW d \in Callers,
               \/ \E op \in {"status", "logs", "bridge_stats"} :
                     AnswerQuery(d, op)
               \/ RefuseStart(d) \/ StopUnknown(d) \/ ShutdownEmpty(d)
        PROVE  AnswersNow(c)
    <2>1. \E r : Answer(d, r)
      BY <1>6 DEF AnswerQuery, RefuseStart, StopUnknown, ShutdownEmpty
    <2>2. c = d
      BY <1>2, <2>1
    <2> QED BY <1>6, <2>2 DEF AnswersNow
  <1>7. ASSUME NEW d \in Callers,
               SpawnEmulator(d) \/ BeginStop(d) \/ BeginShutdown(d)
        PROVE  FALSE
    BY <1>1, <1>7 DEF SpawnEmulator, BeginStop, BeginShutdown
  <1>8. ASSUME DelayOver \/ Seeded \/ SeedFails \/ CreateDevice
               \/ CreateDeviceFails \/ ConnectFails \/ BridgeDown \/ StopNext
               \/ ProcStep
        PROVE  FALSE
    BY <1>1, <1>8
    DEF DelayOver, Seeded, SeedFails, CreateDevice, CreateDeviceFails,
        ConnectFails, BridgeDown, StopNext, Advance, ProcStep, EmuDies,
        EmuHangs, DevGone
  <1>9. ASSUME Connected \/ HidrawSettled \/ UndoStart \/ StopLast
        PROVE  AnswersAtEnd(c)
    <2>1. /\ pc # "recv"
          /\ (pc \in InStart /\ Insert) \/ UndoStart \/ StopLast
      BY <1>1, <1>9
      DEF Connected, HidrawSettled, UndoStart, StopLast, InStart
    <2>2. cur \in Callers /\ \E r : Answer(cur, r)
      BY <2>1
      DEF Insert, UndoStart, StopLast, Finish, RegInv, TypeInv, TaskHolds
    <2>3. c = cur
      BY <1>2, <2>2
    <2> QED BY <2>1, <2>3 DEF AnswersAtEnd
  <1> QED
    BY <1>3, <1>4, <1>5, <1>6, <1>7, <1>8, <1>9
    DEF RegNext, TaskStep, SeedStep

\* A "stopped" or "shutting_down" comes from three actions only.
LEMMA WhoStops ==
    ASSUME RegInv, [RegNext]_regVars, NEW c \in Callers, ~Answered(c),
           reply'[c].tag \in {"stopped", "shutting_down"}
    PROVE  \/ reply'[c].tag = "stopped" /\ StopUnknown(c)
           \/ reply'[c].tag = "shutting_down" /\ ShutdownEmpty(c)
           \/ /\ pc \in InStop /\ c = cur /\ StopLast
              /\ \/ reply'[c].tag = "stopped" /\ req[c].op = "stop"
                 \/ reply'[c].tag = "shutting_down" /\ req[c].op = "shutdown"
  <1>1. reply'[c] # NoReply /\ Answered(c)'
    BY DEF NoReply, Ok, Answered
  <1>2. AnswersNow(c) \/ AnswersAtEnd(c)
    BY <1>1, WhoAnswers
  <1>3. ASSUME NEW r, Answer(c, r) PROVE reply'[c] = r
    BY <1>3 DEF Answer, RegInv, TypeInv, TypeOK
  <1>4. ASSUME NEW op \in {"status", "logs", "bridge_stats"},
               AnswerQuery(c, op)
        PROVE  FALSE
    BY <1>3, <1>4 DEF AnswerQuery, Ok, Err
  <1>5. ASSUME RefuseStart(c) PROVE FALSE
    BY <1>3, <1>5 DEF RefuseStart, Err
  <1>6. ASSUME StopUnknown(c) PROVE reply'[c].tag = "stopped"
    BY <1>3, <1>6 DEF StopUnknown, Ok
  <1>7. ASSUME ShutdownEmpty(c) PROVE reply'[c].tag = "shutting_down"
    BY <1>3, <1>7 DEF ShutdownEmpty, Ok
  <1>8. ASSUME c = cur, Insert \/ UndoStart PROVE FALSE
    BY <1>3, <1>8 DEF Insert, UndoStart, Finish, Ok, Err
  <1>9. ASSUME c = cur, StopLast
        PROVE  /\ pc \in InStop
               /\ \/ reply'[c].tag = "stopped" /\ req[c].op = "stop"
                  \/ reply'[c].tag = "shutting_down" /\ req[c].op = "shutdown"
    <2>1. pc \in InStop
      BY <1>9 DEF StopLast, InStop
    <2>2. req[c].op \in {"stop", "shutdown"}
      BY <1>9, <2>1 DEF RegInv, ServesRequest
    <2>3. Answer(c, IF req[c].op = "stop" THEN Ok("stopped", {})
                    ELSE Ok("shutting_down", {}))
      BY <1>9 DEF StopLast, Finish
    <2> QED BY <1>3, <2>1, <2>2, <2>3 DEF Ok
  <1> QED
    BY <1>2, <1>4, <1>5, <1>6, <1>7, <1>8, <1>9 DEF AnswersNow, AnswersAtEnd

\* When the last victim of a stop or shutdown is down, what still lives is in
\* the map.
LEMMA AfterStopLast ==
    ASSUME RegInv, pc \in InStop, StopLast
    PROVE  /\ UNCHANGED <<instances, dev>>
           /\ \A p \in Procs :
                 /\ emu'[p] # "none" => \E i \in Ids : instances[i] = p
                 /\ dev[p] = "open" => \E i \in Ids : instances[i] = p
  <1>1. /\ UNCHANGED <<instances, dev>>
        /\ emu' = [emu EXCEPT ![curProc] = "none"]
        /\ curProc \in Procs
    BY DEF StopLast, InStop, RegInv, TypeInv, TaskHolds
  <1>2. ASSUME NEW p \in Procs, emu'[p] # "none"
        PROVE  \E i \in Ids : instances[i] = p
    <2>1. p # curProc /\ emu[p] # "none"
      BY <1>1, <1>2 DEF RegInv, TypeInv, TypeOK
    <2> QED BY <2>1 DEF RegInv, Ownership, NoLeak, Owned
  <1>3. ASSUME NEW p \in Procs, dev[p] = "open"
        PROVE  \E i \in Ids : instances[i] = p
    BY <1>3 DEF RegInv, Ownership, NoLeak, DeviceFirst, Owned
  <1> QED BY <1>1, <1>2, <1>3

\* Between two commands every simulator and every open device is in the map.
LEMMA IdleOwned ==
    ASSUME RegInv, pc = "recv", NEW p \in Procs, emu[p] # "none" \/ dev[p] = "open"
    PROVE  \E i \in Ids : instances[i] = p
  BY RegistryAssumption
  DEF RegInv, TypeInv, TaskHolds, Ownership, NoLeak, Owned

LEMMA DrainsStep ==
    ASSUME RegInv, [RegNext]_regVars, NEW c \in Callers, ~Answered(c),
           reply'[c].tag = "shutting_down"
    PROVE  \A p \in Procs : emu'[p] = "none" /\ dev'[p] # "open"
  <1>1. CASE ShutdownEmpty(c)
    <2>1. pc = "recv" /\ Registered = {} /\ UNCHANGED physVars
      BY <1>1 DEF ShutdownEmpty, Recv
    <2>2. \A i \in Ids, p \in Procs : instances[i] # p
      BY <2>1, RegistryAssumption DEF Registered
    <2> QED BY <2>1, <2>2, IdleOwned
  <1>2. CASE pc \in InStop /\ c = cur /\ StopLast /\ req[c].op = "shutdown"
    <2>1. Registered = {}
      BY <1>2 DEF StopLast, RegInv, ServesRequest
    <2>2. \A i \in Ids, p \in Procs : instances[i] # p
      BY <2>1, RegistryAssumption DEF Registered
    <2> QED BY <1>2, <2>2, AfterStopLast
  <1> QED BY <1>1, <1>2, WhoStops

LEMMA StoppedStep ==
    ASSUME RegInv, [RegNext]_regVars, NEW c \in Callers, ~Answered(c),
           reply'[c].tag = "stopped"
    PROVE  /\ instances'[req[c].id] = None
           /\ \A p \in Procs :
                 emu'[p] # "none" => \E i \in Ids : instances'[i] = p
  <1>0. req[c] \in Requests
    BY DEF RegInv, TypeInv, TypeOK
  <1>1. CASE StopUnknown(c)
    <2>1. /\ pc = "recv" /\ UNCHANGED physVars
          /\ req[c].op = "stop" /\ req[c].id \notin Registered
      BY <1>1 DEF StopUnknown, Recv
    <2>2. instances[req[c].id] = None
      BY <1>0, <2>1, RegistryAssumption DEF Registered
    <2> QED BY <2>1, <2>2, IdleOwned
  <1>2. CASE pc \in InStop /\ c = cur /\ StopLast /\ req[c].op = "stop"
    <2>1. req[c].id \notin Registered
      BY <1>2 DEF StopLast, RegInv, ServesRequest
    <2>2. instances[req[c].id] = None
      BY <1>0, <1>2, <2>1, RegistryAssumption DEF Registered
    <2> QED BY <1>2, <2>2, AfterStopLast
  <1> QED BY <1>1, <1>2, WhoStops

\* ShuttingDown is sent when nothing is left.
THEOREM DrainsBeforeReply == RegSpec => ShutdownDrains
  <1>1. ASSUME RegInv, [RegNext]_regVars
        PROVE  [\A c \in Callers :
                   reply'[c].tag = "shutting_down" /\ ~Answered(c)
                   => \A p \in Procs :
                         emu'[p] = "none" /\ dev'[p] # "open"]_regVars
    BY <1>1, DrainsStep
  <1> QED BY <1>1, RegInvHolds, PTL DEF RegSpec, ShutdownDrains

\* Stopped is sent when the instance is gone.
THEOREM StoppedIsTrue == RegSpec => StoppedIsGone
  <1>1. ASSUME RegInv, [RegNext]_regVars
        PROVE  [\A c \in Callers :
                   reply'[c].tag = "stopped" /\ ~Answered(c)
                   => /\ instances'[req[c].id] = None
                      /\ \A p \in Procs :
                            emu'[p] # "none"
                            => \E i \in Ids : instances'[i] = p]_regVars
    BY <1>1, StoppedStep
  <1> QED BY <1>1, RegInvHolds, PTL DEF RegSpec, StoppedIsGone

-----------------------------------------------------------------------------
(* The registry is linearizable: every step is one of the promise's, or     *)
(* none.  A command takes effect in the step that answers it.               *)

Visible == Registered \cup victims
Calling == {c \in Callers : stage[c] # "idle"}
Shown   == [c \in Callers |-> [tag |-> reply[c].tag, ids |-> reply[c].ids]]

\* The promise's Effect, the set it leaves behind apart.
Settles(c, answer) ==
    /\ c \in Calling
    /\ Shown[c] = Promise!Pending
    /\ Shown' = [Shown EXCEPT ![c] = answer]
    /\ UNCHANGED <<Calling, req>>

\* The step that answers c is the instant at which its command takes effect.
LEMMA AnswerSettles ==
    ASSUME RegInv, NEW c \in Callers, ~Answered(c), stage[c] = "waiting",
           NEW r \in Reply, Answer(c, r), UNCHANGED callVars
    PROVE  Settles(c, Promise!Result(r.tag, r.ids))
  <1>1. reply[c] = NoReply
    BY DEF RegInv, BlankReplies
  <1>2. Shown[c] = Promise!Pending
    BY <1>1 DEF Shown, NoReply, Ok, Promise!Pending, Promise!Result
  <1>3. Shown' = [Shown EXCEPT ![c] = Promise!Result(r.tag, r.ids)]
    BY DEF Shown, Answer, RegInv, TypeInv, TypeOK, Promise!Result
  <1>4. c \in Calling /\ UNCHANGED <<Calling, req>>
    BY DEF Calling
  <1> QED BY <1>2, <1>3, <1>4 DEF Settles

\* A step that no caller can see.
LEMMA Invisible ==
    ASSUME UNCHANGED <<Calling, req, reply, Visible>>
    PROVE  UNCHANGED Promise!absVars
  BY DEF Promise!absVars, Calling, Visible

LEMMA PromisedStart ==
    ASSUME NEW c \in Callers, req[c].op = "start",
           \/ \E i \in Ids : /\ Settles(c, Promise!Result("started", {i}))
                             /\ Visible' = Visible \cup {i}
           \/ Settles(c, Promise!Failed) /\ Visible' = Visible
    PROVE  Promise!AbsNext
  BY DEF Promise!AbsNext, Promise!Start, Promise!Effect, Settles, Visible,
         Calling, Shown

LEMMA PromisedStop ==
    ASSUME NEW c \in Callers, req[c].op = "stop",
           Settles(c, Promise!Result("stopped", {})),
           Visible' = Visible \ {req[c].id}
    PROVE  Promise!AbsNext
  BY DEF Promise!AbsNext, Promise!Stop, Promise!Effect, Settles, Visible,
         Calling, Shown

LEMMA PromisedShutdown ==
    ASSUME NEW c \in Callers, req[c].op = "shutdown",
           Settles(c, Promise!Result("shutting_down", {})), Visible' = {}
    PROVE  Promise!AbsNext
  BY DEF Promise!AbsNext, Promise!Shutdown, Promise!Effect, Settles, Visible,
         Calling, Shown

\* What the map shows between two commands.
LEMMA IdleVisible == ASSUME RegInv, pc = "recv" PROVE Visible = Registered
  BY DEF RegInv, TypeInv, TaskHolds, Visible

\* Registering an instance is the effect of its start.
LEMMA InsertPromised ==
    ASSUME RegInv, pc \in InStart, Insert, UNCHANGED callVars
    PROVE  Promise!AbsNext
  <1>1. /\ cur \in Callers /\ curId \in Ids /\ curProc \in Procs
        /\ victims = {} /\ victims' = {} /\ pc # "recv"
        /\ instances' = [instances EXCEPT ![curId] = curProc]
    BY DEF Insert, Finish, InStart, RegInv, TypeInv, TaskHolds
  <1>2. Visible' = Visible \cup {curId}
    BY <1>1, RegistryAssumption
    DEF Visible, Registered, RegInv, TypeInv, TypeOK
  <1>3. /\ stage[cur] = "waiting" /\ ~Answered(cur) /\ req[cur].op = "start"
    BY <1>1, CallerWaits DEF RegInv, ServesRequest
  <1>4. PICK r \in Reply : r = Ok("started", {curId})
    BY <1>1, ReplyTypes DEF Tags
  <1>5. Answer(cur, r)
    BY <1>4 DEF Insert, Finish
  <1>6. Settles(cur, Promise!Result(r.tag, r.ids))
    BY <1>1, <1>3, <1>5, AnswerSettles
  <1>7. Settles(cur, Promise!Result("started", {curId}))
    BY <1>4, <1>6 DEF Ok
  <1> QED BY <1>1, <1>2, <1>3, <1>7, PromisedStart

\* A start that fails changes nothing.
LEMMA FailurePromised ==
    ASSUME RegInv, NEW c \in Callers, req[c].op = "start",
           stage[c] = "waiting", ~Answered(c),
           NEW code \in Codes, Answer(c, Err(code)),
           UNCHANGED callVars, Visible' = Visible
    PROVE  Promise!AbsNext
  <1>1. Err(code) \in Reply
    BY ReplyTypes
  <1>2. Settles(c, Promise!Result(Err(code).tag, Err(code).ids))
    BY <1>1, AnswerSettles
  <1>3. Settles(c, Promise!Failed)
    BY <1>2 DEF Err, Promise!Failed
  <1> QED BY <1>3, PromisedStart

LEMMA QueryPromised ==
    ASSUME RegInv, NEW c \in Callers,
           NEW op \in {"status", "logs", "bridge_stats"}, AnswerQuery(c, op)
    PROVE  Promise!AbsNext
  <1> DEFINE i == req[c].id
             answer == IF op = "status" /\ i = None THEN Ok(op, Registered)
                       ELSE IF i \in Registered THEN Ok(op, {i})
                       ELSE Err("InstanceNotFound")
  <1>1. /\ pc = "recv" /\ req[c].op = op /\ Answer(c, answer)
        /\ stage[c] = "waiting" /\ ~Answered(c)
        /\ UNCHANGED <<callVars, taskVars, physVars>>
    BY QueuedWaits DEF AnswerQuery, Recv, RegInv
  <1>2. Visible = Registered /\ Visible' = Visible
    BY <1>1, IdleVisible DEF Visible, Registered
  <1>3. answer \in Reply
    BY ReplyTypes DEF Registered, Tags, Codes
  <1>4. PICK r \in Reply : r = answer
    BY <1>3
  <1>5. Settles(c, Promise!Result(r.tag, r.ids))
    BY <1>1, <1>4, AnswerSettles
  <1>6. Promise!Result(r.tag, r.ids) =
           IF op = "status" /\ i = None THEN Promise!Result(op, Registered)
           ELSE IF i \in Registered THEN Promise!Result(op, {i})
           ELSE Promise!Failed
    BY <1>4 DEF Ok, Err, Promise!Failed, Promise!Result
  <1>7. Promise!Query(c)
    BY <1>1, <1>2, <1>5, <1>6
    DEF Promise!Query, Promise!Effect, Settles, Visible, Calling, Shown
  <1> QED BY <1>7 DEF Promise!AbsNext

LEMMA StopPromised ==
    ASSUME RegInv, NEW c \in Callers, req[c].op = "stop",
           stage[c] = "waiting", ~Answered(c),
           Answer(c, Ok("stopped", {})), UNCHANGED callVars,
           Visible' = Visible \ {req[c].id}
    PROVE  Promise!AbsNext
  <1>1. PICK r \in Reply : r = Ok("stopped", {})
    BY ReplyTypes DEF Tags
  <1>2. Settles(c, Promise!Result(r.tag, r.ids))
    BY <1>1, AnswerSettles
  <1>3. Settles(c, Promise!Result("stopped", {}))
    BY <1>1, <1>2 DEF Ok
  <1> QED BY <1>3, PromisedStop

LEMMA ShutdownPromised ==
    ASSUME RegInv, NEW c \in Callers, req[c].op = "shutdown",
           stage[c] = "waiting", ~Answered(c),
           Answer(c, Ok("shutting_down", {})), UNCHANGED callVars,
           Visible' = {}
    PROVE  Promise!AbsNext
  <1>1. PICK r \in Reply : r = Ok("shutting_down", {})
    BY ReplyTypes DEF Tags
  <1>2. Settles(c, Promise!Result(r.tag, r.ids))
    BY <1>1, AnswerSettles
  <1>3. Settles(c, Promise!Result("shutting_down", {}))
    BY <1>1, <1>2 DEF Ok
  <1> QED BY <1>3, PromisedShutdown

LEMMA PromisedInit == RegInit => Promise!AbsInit
  <1> SUFFICES ASSUME RegInit PROVE Promise!AbsInit
    OBVIOUS
  <1>1. Visible = {}
    BY DEF RegInit, Visible, Registered
  <1>2. Calling = {}
    BY DEF RegInit, Calling
  <1>3. req = [c \in Callers |-> Promise!Nothing]
    BY DEF RegInit, Blank, Promise!Nothing
  <1>4. Shown = [c \in Callers |-> Promise!Pending]
    BY DEF RegInit, Shown, NoReply, Ok, Promise!Pending, Promise!Result
  <1> QED
    BY <1>1, <1>2, <1>3, <1>4 DEF Promise!AbsInit, Visible, Calling, Shown

LEMMA CallPromised ==
    ASSUME RegInv, NEW c \in Callers, NEW r \in Requests, Call(c, r)
    PROVE  Promise!AbsNext
  <1>1. /\ c \notin Calling /\ Calling' = Calling \cup {c}
        /\ req' = [req EXCEPT ![c] = r] /\ Visible' = Visible /\ Shown' = Shown
    BY DEF Call, Calling, Visible, Registered, Shown, RegInv, TypeInv, TypeOK
  <1> QED
    BY <1>1 DEF Promise!AbsNext, Promise!Invoke, Calling, Visible, Shown

LEMMA ReturnPromised ==
    ASSUME RegInv, NEW c \in Callers, Return(c)
    PROVE  Promise!AbsNext
  <1>1. /\ c \in Calling /\ Calling' = Calling \ {c}
        /\ req' = [req EXCEPT ![c] = Promise!Nothing] /\ Visible' = Visible
    BY DEF Return, Calling, Visible, Registered, Blank, Promise!Nothing,
           RegInv, TypeInv, TypeOK
  <1>2. Shown[c] # Promise!Pending
    BY DEF Return, Answered, Shown, Promise!Pending, Promise!Result
  <1>3. Shown' = [Shown EXCEPT ![c] = Promise!Pending]
    BY DEF Return, Answer, NoReply, Ok, Shown, Promise!Pending,
           Promise!Result, RegInv, TypeInv, TypeOK
  <1> QED
    BY <1>1, <1>2, <1>3
    DEF Promise!AbsNext, Promise!Respond, Calling, Visible, Shown

LEMMA LinearStep ==
    RegInv /\ [RegNext]_regVars => [Promise!AbsNext]_(Promise!absVars)
  <1> SUFFICES ASSUME RegInv, [RegNext]_regVars
               PROVE  Promise!AbsNext \/ UNCHANGED Promise!absVars
    OBVIOUS
  <1> DEFINE Goal == Promise!AbsNext \/ UNCHANGED Promise!absVars
  <1> USE DEF Promise!AbsNext
  <1>0. CASE UNCHANGED regVars
    BY <1>0, Invisible DEF regVars, Calling, Visible, Registered
  <1>1. ASSUME NEW c \in Callers, NEW r \in Requests, Call(c, r) PROVE Goal
    BY <1>1, CallPromised
  <1>2. ASSUME NEW c \in Callers, Send(c) PROVE Goal
    <2>1. Calling' = Calling
      BY <1>2 DEF Send, Calling, RegInv, TypeInv, TypeOK
    <2> QED BY <1>2, <2>1, Invisible DEF Send, Visible, Registered
  <1>3. ASSUME NEW c \in Callers, Return(c) PROVE Goal
    BY <1>3, ReturnPromised
  <1>4. ASSUME NEW c \in Callers,
               NEW op \in {"status", "logs", "bridge_stats"},
               AnswerQuery(c, op)
        PROVE  Goal
    BY <1>4, QueryPromised
  <1>5. ASSUME NEW c \in Callers, RefuseStart(c) PROVE Goal
    <2>1. PICK code \in Codes : Answer(c, Err(code))
      BY <1>5 DEF RefuseStart, Codes, StartErrors
    <2>2. /\ req[c].op = "start" /\ stage[c] = "waiting" /\ ~Answered(c)
      BY <1>5, QueuedWaits DEF RefuseStart, Recv, RegInv
    <2>3. UNCHANGED callVars /\ Visible' = Visible
      BY <1>5 DEF RefuseStart, Visible, Registered
    <2> QED BY <2>1, <2>2, <2>3, FailurePromised
  <1>6. ASSUME NEW c \in Callers, SpawnEmulator(c) PROVE Goal
    BY <1>6, Invisible DEF SpawnEmulator, Calling, Visible, Registered
  <1>7. ASSUME NEW c \in Callers, StopUnknown(c) PROVE Goal
    <2>1. /\ pc = "recv" /\ req[c].op = "stop" /\ req[c].id \notin Registered
          /\ Answer(c, Ok("stopped", {}))
          /\ UNCHANGED <<callVars, taskVars, physVars>>
      BY <1>7 DEF StopUnknown, Recv
    <2>2. c \in Callers /\ stage[c] = "waiting" /\ ~Answered(c)
      BY <1>7, QueuedWaits DEF StopUnknown, RegInv
    <2>3. Visible' = Visible \ {req[c].id}
      BY <2>1, IdleVisible DEF Visible, Registered
    <2> QED BY <2>1, <2>2, <2>3, StopPromised
  <1>8. ASSUME NEW c \in Callers, ShutdownEmpty(c) PROVE Goal
    <2>1. /\ pc = "recv" /\ req[c].op = "shutdown" /\ Registered = {}
          /\ Answer(c, Ok("shutting_down", {}))
          /\ UNCHANGED <<callVars, taskVars, physVars>>
      BY <1>8 DEF ShutdownEmpty, Recv
    <2>2. c \in Callers /\ stage[c] = "waiting" /\ ~Answered(c)
      BY <1>8, QueuedWaits DEF ShutdownEmpty, RegInv
    <2>3. Visible' = {}
      BY <2>1, IdleVisible DEF Visible, Registered
    <2> QED BY <2>1, <2>2, <2>3, ShutdownPromised
  <1>9. ASSUME NEW c \in Callers, BeginStop(c) \/ BeginShutdown(c) PROVE Goal
    <2>1. PICK i \in Registered : TakeDown(c, i) /\ i \in victims'
      BY <1>9 DEF BeginStop, BeginShutdown
    <2>2. Registered' = Registered \ {i}
      BY <2>1 DEF TakeDown, Registered, RegInv, TypeInv, TypeOK
    <2>3. victims = {} /\ victims' \subseteq Registered
      BY <1>9
      DEF BeginStop, BeginShutdown, Recv, RegInv, TypeInv, TaskHolds
    <2>4. Visible' = Visible
      BY <2>1, <2>2, <2>3 DEF Visible
    <2>5. UNCHANGED <<callVars, reply>>
      BY <1>9 DEF BeginStop, BeginShutdown
    <2> QED BY <2>4, <2>5, Invisible DEF Calling
  <1>10. CASE StopNext
    <2>1. PICK i \in victims \cap Registered : TakeDown(cur, i)
      BY <1>10 DEF StopNext
    <2>2. Registered' = Registered \ {i}
      BY <2>1 DEF TakeDown, Registered, RegInv, TypeInv, TypeOK
    <2>3. Visible' = Visible /\ UNCHANGED <<callVars, reply>>
      BY <1>10, <2>2 DEF Visible, StopNext
    <2> QED BY <2>3, Invisible DEF Calling
  <1>11. CASE \/ DelayOver \/ Seeded \/ SeedFails \/ CreateDevice
              \/ CreateDeviceFails \/ ConnectFails \/ BridgeDown \/ ProcStep
    BY <1>11, Invisible
    DEF DelayOver, Seeded, SeedFails, CreateDevice, CreateDeviceFails,
        ConnectFails, BridgeDown, Advance, ProcStep, EmuDies, EmuHangs,
        DevGone, Calling, Visible, Registered
  <1>12. CASE Connected \/ HidrawSettled
    <2>1. CASE Insert
      <3>1. pc \in InStart /\ UNCHANGED callVars
        BY <1>12 DEF Connected, HidrawSettled, InStart
      <3> QED BY <2>1, <3>1, InsertPromised
    <2>2. CASE UNCHANGED <<callVars, reply, victims, physVars>>
      BY <2>2, Invisible DEF Calling, Visible, Registered
    <2> QED BY <1>12, <2>1, <2>2 DEF Connected, HidrawSettled
  <1>13. CASE UndoStart
    <2>1. pc \in InStart /\ UNCHANGED callVars /\ pc # "recv"
      BY <1>13 DEF UndoStart, InStart
    <2>2. /\ cur \in Callers /\ stage[cur] = "waiting" /\ ~Answered(cur)
          /\ req[cur].op = "start"
      BY <2>1, CallerWaits DEF RegInv, ServesRequest
    <2>3. PICK code \in Codes : Answer(cur, Err(code))
      BY <1>13 DEF UndoStart, Finish, Codes, StartErrors
    <2>4. Visible' = Visible
      BY <1>13, <2>1
      DEF UndoStart, Finish, Visible, Registered, RegInv, TypeInv, TaskHolds
    <2> QED BY <2>1, <2>2, <2>3, <2>4, FailurePromised
  <1>14. CASE StopLast
    <2>1. /\ pc \in InStop /\ pc # "recv" /\ UNCHANGED <<callVars, instances>>
          /\ victims \cap Registered = {} /\ victims' = {}
          /\ Answer(cur, IF req[cur].op = "stop" THEN Ok("stopped", {})
                         ELSE Ok("shutting_down", {}))
      BY <1>14 DEF StopLast, Finish, InStop
    <2>2. cur \in Callers /\ stage[cur] = "waiting" /\ ~Answered(cur)
      BY <2>1, CallerWaits DEF RegInv
    <2>3. Visible' = Registered
      BY <2>1 DEF Visible, Registered
    <2>4. CASE req[cur].op = "stop" /\ victims = {req[cur].id}
      <3>1. Visible' = Visible \ {req[cur].id}
        BY <2>1, <2>3, <2>4 DEF Visible
      <3> QED BY <2>1, <2>2, <2>4, <3>1, StopPromised
    <2>5. CASE req[cur].op = "shutdown" /\ Registered \subseteq victims
      <3>1. Visible' = {}
        BY <2>1, <2>3, <2>5
      <3> QED BY <2>1, <2>2, <2>5, <3>1, ShutdownPromised
    <2> QED BY <2>1, <2>4, <2>5 DEF RegInv, ServesRequest
  <1> QED
    BY <1>0, <1>1, <1>2, <1>3, <1>4, <1>5, <1>6, <1>7, <1>8, <1>9, <1>10,
       <1>11, <1>12, <1>13, <1>14
    DEF RegNext, TaskStep, SeedStep

\* The replies are those of commands executed at one instant each.
THEOREM RegistryLinearizable == RegSpec => Linearizable
  BY PromisedInit, LinearStep, RegInvHolds, PTL
  DEF RegSpec, Linearizable, Promise!AbsSpec

-----------------------------------------------------------------------------
(* What every call is owed, step by step: the safety core of the liveness  *)
(* property EveryCallReturns.                                              *)

\* No overtaking (registry.rs:129-184): a step either leaves every queued
\* command at its place, behind nobody new, or takes the head, and then the
\* caller of the head is answered or under execution after that step.
KeepsPlaces ==
    /\ Len(queue) <= Len(queue')
    /\ \A k \in 1..Len(queue) : queue'[k] = queue[k]
ServesHead ==
    /\ pc = "recv" /\ queue # <<>>
    /\ cur' = queue[1] \/ reply'[queue[1]].tag # "none"
    /\ queue' = Tail(queue)
ServedInOrder == [][KeepsPlaces \/ ServesHead]_regVars

\* How many awaits a command may still have before it is answered, or before
\* a stop or a shutdown comes to its next victim.
Rank == [recv |-> 0, starting |-> 6, seeding |-> 5, settling |-> 4,
         connecting |-> 3, hidraw |-> 2, undo_seed |-> 1, undo_bridge |-> 1,
         bridge_down |-> 2, emu_down |-> 1]

\* The victims that still wait for their turn.
Left == victims \cap Registered

\* No command goes on for ever (spawn.rs:176-250, registry.rs:172-211): a step
\* leaves the command under execution where it is, or answers it, or brings
\* it nearer to its answer: the same victims left and fewer awaits, or fewer
\* victims left.  It never turns to another caller, nor to another victim
\* than those it began with.
Nearer ==
    \/ Left' = Left /\ Rank[pc'] < Rank[pc]
    \/ Left' \subseteq Left /\ Left' # Left
CommandsProgress ==
    [][pc # "recv" =>
          \/ UNCHANGED <<pc, cur, victims, instances>>
          \/ pc' = "recv" /\ reply'[cur].tag # "none"
          \/ cur' = cur /\ victims' = victims /\ Nearer]_regVars

LEMMA SamePlaces == ASSUME TypeInv, UNCHANGED queue PROVE KeepsPlaces
  BY DEF KeepsPlaces, TypeInv, TypeOK

LEMMA HeadServed ==
    ASSUME TypeInv, NEW c, NEW op, Recv(c, op),
           cur' = c \/ Answered(c)'
    PROVE  ServesHead
  BY Received DEF Recv, ServesHead, Answered, TypeInv

LEMMA OrderStep ==
    ASSUME RegInv, [RegNext]_regVars PROVE KeepsPlaces \/ ServesHead
  <1>0. TypeInv
    BY DEF RegInv
  <1>1. ASSUME NEW c \in Callers, Send(c) PROVE KeepsPlaces
    <2>1. queue \in Seq(Callers) /\ queue' = Append(queue, c)
      BY <1>0, <1>1 DEF Send, TypeInv, TypeOK
    <2> QED BY <2>1 DEF KeepsPlaces
  <1>2. ASSUME NEW c \in Callers,
               NEW op \in {"status", "logs", "bridge_stats"},
               AnswerQuery(c, op)
        PROVE  ServesHead
    <2>1. reply'[c].tag # "none"
      BY <1>0, <1>2 DEF AnswerQuery, Answer, TypeInv, TypeOK, Ok, Err
    <2> QED BY <1>0, <1>2, <2>1, HeadServed DEF AnswerQuery, Answered
  <1>3. ASSUME NEW c \in Callers, RefuseStart(c) PROVE ServesHead
    <2>1. reply'[c].tag # "none"
      BY <1>0, <1>3 DEF RefuseStart, Answer, TypeInv, TypeOK, Err
    <2> QED BY <1>0, <1>3, <2>1, HeadServed DEF RefuseStart, Answered
  <1>4. ASSUME NEW c \in Callers, StopUnknown(c) PROVE ServesHead
    <2>1. reply'[c].tag # "none"
      BY <1>0, <1>4 DEF StopUnknown, Answer, TypeInv, TypeOK, Ok
    <2> QED BY <1>0, <1>4, <2>1, HeadServed DEF StopUnknown, Answered
  <1>5. ASSUME NEW c \in Callers, ShutdownEmpty(c) PROVE ServesHead
    <2>1. reply'[c].tag # "none"
      BY <1>0, <1>5 DEF ShutdownEmpty, Answer, TypeInv, TypeOK, Ok
    <2> QED BY <1>0, <1>5, <2>1, HeadServed DEF ShutdownEmpty, Answered
  <1>6. ASSUME NEW c \in Callers,
               SpawnEmulator(c) \/ BeginStop(c) \/ BeginShutdown(c)
        PROVE  ServesHead
    <2>1. cur' = c /\ \E op : Recv(c, op)
      BY <1>6
      DEF SpawnEmulator, BeginStop, BeginShutdown, TakeDown, Suspend
    <2> QED BY <1>0, <2>1, HeadServed
  <1>7. ASSUME UNCHANGED queue PROVE KeepsPlaces
    BY <1>0, <1>7, SamePlaces
  <1>8. ASSUME \/ UNCHANGED regVars
               \/ \E c \in Callers :
                     (\E r \in Requests : Call(c, r)) \/ Return(c)
               \/ DelayOver \/ SeedStep \/ CreateDevice \/ CreateDeviceFails
               \/ ConnectFails \/ Connected \/ HidrawSettled \/ UndoStart
               \/ BridgeDown \/ StopNext \/ StopLast \/ ProcStep
        PROVE  UNCHANGED queue
    BY <1>8
    DEF regVars, Call, Return, DelayOver, SeedStep, Seeded, SeedFails,
        CreateDevice, CreateDeviceFails, ConnectFails, Connected,
        HidrawSettled, UndoStart, BridgeDown, StopNext, StopLast, Advance,
        ProcStep, EmuDies, EmuHangs, DevGone
  <1> QED
    BY <1>1, <1>2, <1>3, <1>4, <1>5, <1>6, <1>7, <1>8 DEF RegNext, TaskStep

\* An await of a start or a stop that hands over to a later one.
LEMMA AdvanceNearer ==
    ASSUME NEW from, NEW to, Advance(from, to), UNCHANGED instances,
           Rank[to] < Rank[from]
    PROVE  cur' = cur /\ victims' = victims /\ Nearer
  BY DEF Advance, Nearer, Left, Registered

\* The next victim leaves the map, and with it the ones that are left.
LEMMA NextVictimNearer ==
    ASSUME TypeInv, StopNext
    PROVE  cur' = cur /\ victims' = victims /\ Nearer
  <1>1. PICK i \in victims \cap Registered : TakeDown(cur, i)
    BY DEF StopNext
  <1>2. Registered' = Registered \ {i}
    BY <1>1 DEF TakeDown, Registered, TypeInv, TypeOK
  <1> QED BY <1>1, <1>2 DEF StopNext, TakeDown, Suspend, Nearer, Left

\* Finish answers the command under execution.
LEMMA FinishEnds ==
    ASSUME TypeInv, cur \in Callers, NEW r \in Reply, r.tag # "none",
           Finish(cur, r)
    PROVE  pc' = "recv" /\ reply'[cur].tag # "none"
  BY OneSlot DEF Finish, Suspend

LEMMA ProgressStep ==
    ASSUME RegInv, [RegNext]_regVars, pc # "recv"
    PROVE  \/ UNCHANGED <<pc, cur, victims, instances>>
           \/ pc' = "recv" /\ reply'[cur].tag # "none"
           \/ cur' = cur /\ victims' = victims /\ Nearer
  <1> DEFINE Stays == UNCHANGED <<pc, cur, victims, instances>>
             Ends  == pc' = "recv" /\ reply'[cur].tag # "none"
             Moves == cur' = cur /\ victims' = victims /\ Nearer
  <1>0. TypeInv /\ cur \in Callers /\ curId \in Ids
    BY DEF RegInv, TypeInv, TaskHolds
  <1>1. ASSUME Insert PROVE Ends
    <2>1. Ok("started", {curId}) \in Reply
      BY <1>0, ReplyTypes DEF Tags
    <2> QED BY <1>0, <1>1, <2>1, FinishEnds DEF Insert, Ok
  <1>2. ASSUME UndoStart PROVE Ends
    <2>1. PICK code \in StartErrors : Finish(cur, Err(code))
      BY <1>2 DEF UndoStart, StartErrors
    <2>2. Err(code) \in Reply /\ Err(code).tag = "error"
      BY ReplyTypes DEF Codes, Err
    <2> QED BY <1>0, <2>1, <2>2, FinishEnds
  <1>3. ASSUME StopLast PROVE Ends
    <2>1. PICK tag \in {"stopped", "shutting_down"} : Finish(cur, Ok(tag, {}))
      BY <1>3 DEF StopLast
    <2>2. Ok(tag, {}) \in Reply /\ Ok(tag, {}).tag = tag
      BY ReplyTypes DEF Tags, Ok
    <2> QED BY <1>0, <2>1, <2>2, FinishEnds
  <1>4. ASSUME DelayOver \/ Seeded \/ SeedFails \/ CreateDevice
               \/ CreateDeviceFails \/ ConnectFails \/ BridgeDown
        PROVE  Moves
    <2>1. PICK from \in DOMAIN Rank, to \in DOMAIN Rank :
              /\ Advance(from, to) /\ Rank[to] < Rank[from]
              /\ UNCHANGED instances
      BY <1>4
      DEF DelayOver, Seeded, SeedFails, CreateDevice, CreateDeviceFails,
          ConnectFails, BridgeDown, Rank
    <2> QED BY <2>1, AdvanceNearer
  <1>5. ASSUME Connected PROVE Ends \/ Moves
    <2>1. CASE /\ pc = "connecting" /\ pc' = "hidraw"
               /\ UNCHANGED <<cur, victims, physVars>>
      BY <2>1 DEF Nearer, Left, Registered, Rank
    <2> QED BY <1>1, <1>5, <2>1 DEF Connected
  <1>6. ASSUME HidrawSettled PROVE Ends
    BY <1>1, <1>6 DEF HidrawSettled
  <1>7. ASSUME StopNext PROVE Moves
    BY <1>0, <1>7, NextVictimNearer
  <1>8. ASSUME \/ UNCHANGED regVars
               \/ \E c \in Callers :
                     (\E r \in Requests : Call(c, r)) \/ Send(c) \/ Return(c)
               \/ ProcStep
        PROVE  Stays
    BY <1>8
    DEF regVars, Call, Send, Return, ProcStep, EmuDies, EmuHangs, DevGone
  <1>9. ASSUME NEW c \in Callers,
               \/ \E op \in {"status", "logs", "bridge_stats"} :
                     AnswerQuery(c, op)
               \/ RefuseStart(c) \/ SpawnEmulator(c) \/ StopUnknown(c)
               \/ BeginStop(c) \/ ShutdownEmpty(c) \/ BeginShutdown(c)
        PROVE  FALSE
    BY <1>9
    DEF AnswerQuery, RefuseStart, SpawnEmulator, StopUnknown, BeginStop,
        ShutdownEmpty, BeginShutdown, Recv
  <1> QED
    BY <1>2, <1>3, <1>4, <1>5, <1>6, <1>7, <1>8, <1>9
    DEF RegNext, TaskStep, SeedStep

\* Commands are taken in the order they were sent, one at a time, and each
\* takes effect on its caller's slot or on the task at once.
THEOREM NobodyOvertakes == RegSpec => ServedInOrder
  <1>1. ASSUME RegInv, [RegNext]_regVars
        PROVE  [KeepsPlaces \/ ServesHead]_regVars
    BY <1>1, OrderStep
  <1> QED BY <1>1, RegInvHolds, PTL DEF RegSpec, ServedInOrder

\* The registry serves a command to its answer before it turns to another,
\* within as many awaits as Rank and the victims left allow.
THEOREM CommandsComeToAnEnd == RegSpec => CommandsProgress
  <1>1. ASSUME RegInv, [RegNext]_regVars
        PROVE  [pc # "recv" =>
                   \/ UNCHANGED <<pc, cur, victims, instances>>
                   \/ pc' = "recv" /\ reply'[cur].tag # "none"
                   \/ cur' = cur /\ victims' = victims /\ Nearer]_regVars
    BY <1>1, ProgressStep
  <1> QED BY <1>1, RegInvHolds, PTL DEF RegSpec, CommandsProgress

-----------------------------------------------------------------------------
(* A reply is of the kind its request asks for.                            *)

\* The kinds of reply to each request (registry.rs:134-183).  A status of all
\* instances and a stop never fail.
Fitting == [start        |-> {"started", "error"},
            stop         |-> {"stopped"},
            shutdown     |-> {"shutting_down"},
            status       |-> {"status", "error"},
            logs         |-> {"logs", "error"},
            bridge_stats |-> {"bridge_stats", "error"}]

\* What a caller finds in its slot answers the request it has under way, from
\* the reply to the end of that request (registry.rs:61-109): no caller is
\* handed the reply to another command, and a stop, a shutdown and a status
\* of all instances cannot fail.  For a stop of an unknown id that is what the
\* code does and lib.rs:112 says; docs/cli.md:203 says that it fails.
AnswersFit ==
    \A c \in Callers :
        Answered(c) => /\ reply[c].tag \in Fitting[req[c].op]
                       /\ req[c].op = "status" /\ req[c].id = None
                          => reply[c].tag = "status"

\* The registry's own steps move neither a caller nor its request.
LEMMA TaskLeavesCallers ==
    TaskStep \/ SeedStep \/ ProcStep => UNCHANGED <<stage, req>>
  BY DEF TaskStep, SeedStep, ProcStep, AnswerQuery, RefuseStart, SpawnEmulator,
         StopUnknown, BeginStop, ShutdownEmpty, BeginShutdown, DelayOver,
         CreateDevice, CreateDeviceFails, ConnectFails, Connected,
         HidrawSettled, UndoStart, BridgeDown, StopNext, StopLast, Seeded,
         SeedFails, EmuDies, EmuHangs, DevGone, Advance

\* A step that fills an empty slot is the registry's own.
LEMMA AnsweringStep ==
    ASSUME TypeInv, [RegNext]_regVars,
           NEW c \in Callers, ~Answered(c), Answered(c)'
    PROVE  TaskStep \/ SeedStep \/ ProcStep
  <1>1. ~UNCHANGED reply
    BY DEF Answered
  <1>2. ASSUME NEW d \in Callers, Return(d) PROVE FALSE
    BY <1>2
    DEF Return, Answer, Answered, NoReply, Ok, TypeInv, TypeOK
  <1> QED BY <1>1, <1>2 DEF RegNext, regVars, Call, Send

\* A full slot stays as it is, and so does the request, until its caller
\* takes the reply.
LEMMA SlotKept ==
    ASSUME TypeInv, OneReply, [RegNext]_regVars,
           NEW c \in Callers, Answered(c), Answered(c)'
    PROVE  reply'[c] = reply[c] /\ req'[c] = req[c]
  <1> TypeOK /\ stage[c] = "waiting"
    BY DEF TypeInv, OneReply
  <1>1. CASE UNCHANGED regVars
    BY <1>1 DEF regVars
  <1>2. ASSUME NEW d \in Callers, (\E r \in Requests : Call(d, r)) \/ Send(d)
        PROVE  reply'[c] = reply[c] /\ req'[c] = req[c]
    BY <1>2 DEF Call, Send, TypeOK
  <1>3. ASSUME NEW d \in Callers, Return(d)
        PROVE  reply'[c] = reply[c] /\ req'[c] = req[c]
    BY <1>3 DEF Return, Answer, Answered, NoReply, Ok, TypeOK
  <1>4. CASE TaskStep \/ SeedStep \/ ProcStep
    BY <1>4, TaskLeavesCallers, TaskAnswers, OneSlot
  <1> QED BY <1>1, <1>2, <1>3, <1>4 DEF RegNext

LEMMA FitStep ==
    ASSUME RegInv, AnswersFit, [RegNext]_regVars PROVE AnswersFit'
  <1> DEFINE Fits(c, r) == /\ r.tag \in Fitting[req[c].op]
                           /\ req[c].op = "status" /\ req[c].id = None
                              => r.tag = "status"
  <1>0. TypeInv /\ OneReply /\ TypeOK
    BY DEF RegInv, TypeInv
  <1>1. ASSUME NEW c \in Callers, ~Answered(c), Answered(c)'
        PROVE  req'[c] = req[c] /\ Fits(c, reply'[c])
    <2>0. UNCHANGED req
      BY <1>0, <1>1, AnsweringStep, TaskLeavesCallers
    <2>1. ASSUME NEW r, Answer(c, r) PROVE reply'[c] = r
      BY <1>0, <2>1 DEF Answer, TypeOK
    <2>2. ASSUME NEW op \in {"status", "logs", "bridge_stats"},
                 AnswerQuery(c, op)
          PROVE  Fits(c, reply'[c])
      BY <2>1, <2>2 DEF AnswerQuery, Recv, Fitting, Ok, Err
    <2>3. CASE RefuseStart(c)
      BY <2>1, <2>3 DEF RefuseStart, Recv, Fitting, Err
    <2>4. CASE StopUnknown(c) \/ ShutdownEmpty(c)
      BY <2>1, <2>4 DEF StopUnknown, ShutdownEmpty, Recv, Fitting, Ok
    <2>5. CASE c = cur /\ pc \in InStart /\ Insert
      <3>1. req[c].op = "start"
        BY <2>5 DEF RegInv, ServesRequest
      <3>2. Answer(c, Ok("started", {curId}))
        BY <2>5 DEF Insert, Finish
      <3>3. reply'[c].tag = "started"
        BY <2>1, <3>2 DEF Ok
      <3> QED BY <2>0, <3>1, <3>3 DEF Fitting
    <2>6. CASE c = cur /\ UndoStart
      <3>1. req[c].op = "start"
        BY <2>6 DEF RegInv, ServesRequest, UndoStart, InStart
      <3> QED BY <2>0, <2>1, <2>6, <3>1 DEF UndoStart, Finish, Fitting, Err
    <2>7. CASE c = cur /\ StopLast
      <3>1. req[c].op \in {"stop", "shutdown"}
        BY <2>7 DEF RegInv, ServesRequest, StopLast, InStop
      <3> QED BY <2>0, <2>1, <2>7, <3>1 DEF StopLast, Finish, Fitting, Ok
    <2> QED
      BY <1>1, <2>0, <2>2, <2>3, <2>4, <2>5, <2>6, <2>7, WhoAnswers
      DEF AnswersNow, AnswersAtEnd
  <1>2. ASSUME NEW c \in Callers, Answered(c)'
        PROVE  req'[c] = req[c] /\ Fits(c, reply'[c])
    <2>1. CASE Answered(c)
      BY <1>0, <1>2, <2>1, SlotKept DEF AnswersFit
    <2> QED BY <1>1, <1>2, <2>1
  <1> QED BY <1>2 DEF AnswersFit

\* Every caller, in the daemon or behind a socket, gets a reply of the kind
\* it asked for, whatever else is under way.
THEOREM RepliesFit == RegSpec => []AnswersFit
  <1>1. RegInit => AnswersFit
    BY DEF RegInit, AnswersFit, Answered, NoReply, Ok
  <1>2. RegInv /\ AnswersFit /\ [RegNext]_regVars => AnswersFit'
    BY FitStep
  <1> QED BY <1>1, <1>2, RegInvHolds, PTL DEF RegSpec
=============================================================================
