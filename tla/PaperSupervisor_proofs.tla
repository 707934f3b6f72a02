------------------------ MODULE PaperSupervisor_proofs ------------------------
(***************************************************************************)
(* What PaperSupervisor guarantees for every number of sessions and of     *)
(* deaths of the API process, when requests come one at a time.            *)
(***************************************************************************)
EXTENDS PaperSupervisor, TLAPS

\* Requests come one at a time.
Serial == \A r, t \in Request : r = t

-----------------------------------------------------------------------------
(* The parts of TypeOK, one for each place the state is kept in.           *)

Statuses == {"ABSENT"} \union Blocking \union Final
MemoryType ==
    /\ current \in 0..MaxSession /\ handle \in 0..MaxSession
    /\ handle # 0 => child[handle] # "none"
RecordType == record \in [Session -> [status : Statuses, pid : BOOLEAN]]
ChildType == child \in [Session -> {"none", "live", "gone"}]
ReqType == req \in [Request -> [op : Operation \union {"none"}, pc : Step \union {"idle"},
                               gone : BOOLEAN, at : 0..MaxSession]]
ServerType == lock \in Request \union {"none"} /\ closing \in BOOLEAN /\ restarts \in 0..MaxRestarts
Typed == MemoryType /\ RecordType /\ ChildType /\ ReqType /\ ServerType

\* The parts make up TypeOK.
LEMMA TypeParts == Typed <=> TypeOK
BY DEF Typed, TypeOK, MemoryType, RecordType, ChildType, ReqType, ServerType, Statuses

-----------------------------------------------------------------------------
(* The strengthening: what holds between the records, the memory and the   *)
(* step of the request.                                                    *)

Launching(s) == \E r \in Request : At(r, "start", "launch") /\ req[r].at = s
Launched(s) == \E r \in Request : At(r, "start", "publish") /\ req[r].at = s

\* the store has every session that was launched or loaded
RecordsKnown ==
    /\ \A s, t \in Session : Known(t) /\ s < t => Known(s)
    /\ current # 0 => Known(current)
    /\ \A s \in Session : child[s] # "none" => Known(s)

\* the handle is that of the current session, which is active exactly then
HandleOfCurrent ==
    /\ handle # 0 => handle = current
    /\ CurrentIs({"UNKNOWN"}) => handle = 0

\* what was persisted after the current session was loaded or published was
\* refused, or is about to become current
LaterRefused ==
    \A s \in Session : s > current /\ Known(s) =>
        record[s].status = "REFUSED" \/ Launching(s) \/ Launched(s)

\* an earlier session that still blocks is masked
EarlierMasked == \A s \in Session : s < current /\ record[s].status \in Blocking => Masked(s)

\* a live child's session blocks the next start
LiveBlocks == \A s \in Live : record[s].status \in Blocking

\* what a start knows at its step
StartKnows ==
    \A r \in Request : req[r].op = "start" =>
        /\ req[r].pc \in {"prepare", "launch", "publish"} => ~CurrentIs(Blocking)
        /\ req[r].pc \in {"launch", "publish"} =>
             /\ req[r].at > current /\ Latest(req[r].at)
             /\ record[req[r].at].status = "STARTING"
        /\ req[r].pc = "launch" => child[req[r].at] = "none"
        /\ req[r].pc = "publish" => child[req[r].at] # "none"

\* what a refresh knows between its poll and its use
PollKnows ==
    \A r \in Request :
        /\ req[r].pc \in {"apply", "reapply"} => handle # 0 /\ (~req[r].gone => CurrentIs(Active))
        /\ req[r].pc \in {"apply", "reapply"} /\ req[r].gone => child[handle] = "gone"
        /\ req[r].pc = "reapply" => req[r].gone
        /\ req[r].pc = "repoll" => handle # 0 /\ child[handle] = "gone"
        /\ req[r].pc \in {"repoll", "reapply", "wait", "finish"} => req[r].op = "stop"

\* what a stop, a shutdown and a reconciliation know
EndKnows ==
    \A r \in Request :
        /\ req[r].pc = "mark" => req[r].op \in {"stop", "shutdown", "reconcile"}
        /\ req[r].pc = "mark" /\ req[r].op # "reconcile" => CurrentIs(Active)
        /\ req[r].pc = "mark" /\ req[r].op = "reconcile" =>
             CurrentIs({"UNKNOWN"}) /\ child[current] = "gone"
        /\ req[r].pc = "wait" => handle # 0 /\ req[r].at = handle
        /\ req[r].pc = "finish" => ~CurrentIs(Active)

IInv ==
    /\ Typed /\ RecordsKnown /\ HandleOfCurrent /\ ActiveIsHeld /\ LaterRefused /\ EarlierMasked
    /\ LiveBlocks /\ StartKnows /\ PollKnows /\ EndKnows

-----------------------------------------------------------------------------
USE BoundAssumption, RequestAssumption
USE DEF memory, server, Session, Active, Blocking, Statuses, At, CurrentIs, Known

\* A step that leaves alone what a part of the invariant speaks of keeps that part.
LEMMA Frame ==
    /\ MemoryType /\ UNCHANGED <<current, handle, child>> => MemoryType'
    /\ RecordType /\ UNCHANGED record => RecordType'
    /\ ChildType /\ UNCHANGED child => ChildType'
    /\ ReqType /\ UNCHANGED req => ReqType'
    /\ ServerType /\ UNCHANGED <<lock, closing, restarts>> => ServerType'
    /\ RecordsKnown /\ UNCHANGED <<current, record, child>> => RecordsKnown'
    /\ HandleOfCurrent /\ UNCHANGED <<current, handle, record>> => HandleOfCurrent'
    /\ ActiveIsHeld /\ UNCHANGED <<current, handle, record>> => ActiveIsHeld'
    /\ LaterRefused /\ UNCHANGED <<current, record, req>> => LaterRefused'
    /\ EarlierMasked /\ UNCHANGED <<current, record>> => EarlierMasked'
    /\ LiveBlocks /\ UNCHANGED <<record, child>> => LiveBlocks'
    /\ StartKnows /\ UNCHANGED <<current, record, child, req>> => StartKnows'
    /\ PollKnows /\ UNCHANGED <<current, handle, record, child, req>> => PollKnows'
    /\ EndKnows /\ UNCHANGED <<current, handle, record, child, req>> => EndKnows'
BY DEF MemoryType, RecordType, ChildType, ReqType, ServerType, RecordsKnown, HandleOfCurrent,
       ActiveIsHeld, LaterRefused, Launching, Launched, EarlierMasked, Masked, LiveBlocks, Live,
       StartKnows, Latest, PollKnows, EndKnows

\* What the three updates of the state do.
LEMMA SaveEffect ==
    ASSUME RecordType, NEW s \in Session, NEW status \in Statuses, Save(s, status)
    PROVE  /\ RecordType'
           /\ record'[s].status = status /\ record'[s].pid = record[s].pid
           /\ \A t \in Session : t # s => record'[t] = record[t]
BY DEF Save, RecordType, Final

LEMMA IdleEffect ==
    ASSUME Serial, ReqType, NEW r \in Request, req' = [req EXCEPT ![r] = Idle]
    PROVE  ReqType' /\ \A q \in Request : req'[q] = Idle
<1>1. \A q \in Request : req'[q] = Idle  BY DEF ReqType, Serial
<1>2. ReqType'  BY DEF ReqType, Idle, Operation, Step
<1> QED  BY <1>1, <1>2

LEMMA DoneEffect ==
    ASSUME Serial, ReqType, ServerType, NEW r \in Request, Done(r)
    PROVE  ReqType' /\ ServerType' /\ \A q \in Request : req'[q] = Idle
<1>1. req' = [req EXCEPT ![r] = Idle] /\ UNCHANGED <<closing, restarts>>  BY DEF Done
<1>2. lock' \in Request \union {"none"}  BY DEF Done, ServerType
<1> QED  BY <1>1, <1>2, IdleEffect DEF ServerType

LEMMA GotoEffect ==
    ASSUME Serial, ReqType, NEW r \in Request, NEW pc \in Step, Goto(r, pc)
    PROVE  /\ ReqType'
           /\ \A q \in Request : /\ q = r /\ req'[q].pc = pc /\ req'[q].op = req[r].op
                                 /\ req'[q].gone = req[r].gone /\ req'[q].at = req[r].at
BY DEF Goto, ReqType, Serial, Operation, Step

\* A request that has nothing to do, or has done it, knows nothing.
LEMMA IdleKnows ==
    ASSUME \A q \in Request : req'[q] = Idle
    PROVE  StartKnows' /\ PollKnows' /\ EndKnows'
BY DEF StartKnows, PollKnows, EndKnows, Idle

\* A request ends, or goes on to a step that knows nothing, and nothing else
\* changes.
LEMMA DoneKeeps ==
    ASSUME Serial, IInv, NEW r \in Request, Done(r), UNCHANGED <<memory, record, child>>,
           req[r].op # "start"
    PROVE  IInv'
<1> USE DEF IInv, Typed
<1>1. ReqType' /\ ServerType' /\ \A q \in Request : req'[q] = Idle  BY DoneEffect
<1>2. StartKnows' /\ PollKnows' /\ EndKnows'  BY <1>1, IdleKnows
<1>3. LaterRefused'  BY DEF LaterRefused, Launching, Launched, Serial
<1> QED  BY <1>1, <1>2, <1>3, Frame

LEMMA GotoKeeps ==
    ASSUME Serial, IInv, NEW r \in Request, NEW pc \in Step, Goto(r, pc), req[r].pc = "decide",
           UNCHANGED <<memory, record, child, server>>, StartKnows', PollKnows', EndKnows'
    PROVE  IInv'
<1> USE DEF IInv, Typed
<1>1. ReqType'  BY GotoEffect
<1>2. LaterRefused'  BY DEF LaterRefused, Launching, Launched, Serial
<1> QED  BY <1>1, <1>2, Frame

-----------------------------------------------------------------------------
(* One lemma for each kind of request, one step for each action, and under *)
(* it one for each part of the invariant that the action can disturb.      *)

\* The refresh: what the poll said still holds when it is applied, unless the
\* child ended in between.
LEMMA PollKeeps == ASSUME Serial, IInv, NEW r \in Request, Poll(r)  PROVE  IInv'
<1> USE DEF IInv, Typed
<1>0. \A q \in Request : q = r  BY DEF Serial
<1>1. CASE current = 0 \/ handle = 0
  <2>1. req[r].pc = "poll"  BY <1>1 DEF Poll, PollKnows, HandleOfCurrent, MemoryType
  <2>2. req' = [req EXCEPT ![r] = Idle] \/ Goto(r, "decide")
    BY <1>1, <2>1 DEF Poll, Refreshed
  <2>3. ReqType' /\ req'[r].pc \in {"idle", "decide"}
    BY <2>2, IdleEffect, GotoEffect DEF Idle, Step
  <2>4. /\ req'[r].pc \in {"idle", "decide"}
        /\ UNCHANGED <<current, handle, record, child, lock, closing, restarts>>
    BY <2>3 DEF Poll
  <2>5. StartKnows' /\ PollKnows' /\ EndKnows'
    BY <1>0, <2>4 DEF StartKnows, PollKnows, EndKnows
  <2>6. LaterRefused'  BY <1>0, <2>1, <2>4 DEF LaterRefused, Launching, Launched
  <2> QED  BY <2>3, <2>4, <2>5, <2>6, Frame
<1>2. CASE current # 0 /\ handle # 0
  <2> DEFINE next == IF req[r].pc = "poll" THEN "apply" ELSE "reapply"
             seen == child[handle] = "gone"
  <2>1. /\ req' = [req EXCEPT ![r].pc = next, ![r].gone = seen]
        /\ req[r].pc \in {"poll", "repoll"}
        /\ UNCHANGED <<current, handle, record, child, lock, closing, restarts>>
    BY <1>2 DEF Poll
  <2>2. seen \in BOOLEAN /\ next \in Step /\ next \in {"apply", "reapply"}  BY DEF Step
  <2> HIDE DEF next, seen
  <2>3. ReqType'  BY <2>1, <2>2 DEF ReqType, Operation
  <2>4. req'[r].pc = next /\ req'[r].op = req[r].op /\ (req'[r].gone <=> seen)
    BY <2>1 DEF ReqType
  <2>5. StartKnows' /\ EndKnows'
    BY <1>0, <2>1, <2>2, <2>4 DEF StartKnows, EndKnows
  <2>6. PollKnows'
    <3>1. seen <=> child[handle] = "gone"  BY DEF seen
    <3>2. ~seen => CurrentIs(Active)
      <4>1. handle = current /\ handle \in Session  BY <1>2 DEF HandleOfCurrent, MemoryType
      <4>2. ~seen => child[handle] = "live"  BY <1>2, <3>1, <4>1 DEF MemoryType, ChildType
      <4> QED  BY <1>2, <4>1, <4>2 DEF LiveBlocks, Live, HandleOfCurrent
    <3>3. next = "reapply" => seen /\ req[r].op = "stop"  BY <2>1, <3>1 DEF PollKnows, next
    <3> QED  BY <1>0, <1>2, <2>1, <2>2, <2>4, <3>1, <3>2, <3>3 DEF PollKnows
  <2>7. LaterRefused'  BY <1>0, <2>1, <2>4 DEF LaterRefused, Launching, Launched, next
  <2> QED  BY <2>1, <2>3, <2>5, <2>6, <2>7, Frame
<1> QED  BY <1>1, <1>2

LEMMA ApplyKeeps == ASSUME Serial, IInv, NEW r \in Request, Apply(r)  PROVE  IInv'
<1> USE DEF IInv, Typed
<1>0. \A q \in Request : q = r  BY DEF Serial
<1> DEFINE status == AfterPoll(record[current].status, req[r].gone)
<1>1. current \in Session /\ handle = current
  BY DEF Apply, PollKnows, HandleOfCurrent, MemoryType
<1>2. status \in Statuses /\ (req[r].gone => status \notin Active)
      /\ (~req[r].gone => status = record[current].status \/ status = "RUNNING")
      /\ (record[current].status \in Active \/ status = record[current].status)
      /\ record[current].status \notin {"ABSENT", "UNKNOWN"}
  BY <1>1 DEF Apply, AfterPoll, PollKnows, RecordType, Final, RecordsKnown, HandleOfCurrent
<1>3. Save(current, status) /\ UNCHANGED <<current, handle, child, lock, closing, restarts>>
  BY DEF Apply
<1>3a. /\ status \notin {"ABSENT", "UNKNOWN", "REFUSED"} \/ status = record[current].status
       /\ record[current].status = "REFUSED" => status = "REFUSED"
  BY <1>1 DEF Apply, AfterPoll, PollKnows
<1>3b. ~req[r].gone => status \in Active  BY <1>1 DEF Apply, AfterPoll, PollKnows
<1> HIDE DEF status
<1>4. /\ RecordType' /\ record'[current].status = status
      /\ \A t \in Session : t # current => record'[t] = record[t]
  BY <1>1, <1>2, <1>3, SaveEffect
<1>5. /\ \/ req' = [req EXCEPT ![r] = Idle]
         \/ Goto(r, "decide")
         \/ req[r].pc = "reapply" /\ Goto(r, "finish")
      /\ req[r].pc \in {"apply", "reapply"}
  BY DEF Apply, Refreshed
<1>6. ReqType'  BY <1>5, IdleEffect, GotoEffect DEF Step
<1>7. \/ req'[r].pc \in {"idle", "decide"}
      \/ req[r].pc = "reapply" /\ req'[r].pc = "finish" /\ req'[r].op = req[r].op
  BY <1>5, IdleEffect, GotoEffect DEF Idle, Step
<1>8. StartKnows'  BY <1>0, <1>7 DEF StartKnows
<1>9. PollKnows'  BY <1>0, <1>7 DEF PollKnows
<1>10. EndKnows'  BY <1>0, <1>2, <1>3, <1>4, <1>7 DEF EndKnows, PollKnows
<1>11. LaterRefused'
  BY <1>0, <1>3, <1>4, <1>5, <1>7 DEF LaterRefused, Launching, Launched, MemoryType
<1>12. RecordsKnown'  BY <1>1, <1>2, <1>3, <1>3a, <1>4 DEF RecordsKnown
<1>13. HandleOfCurrent' /\ ActiveIsHeld'
  BY <1>1, <1>2, <1>3, <1>3a, <1>4 DEF HandleOfCurrent, ActiveIsHeld
<1>14. EarlierMasked'
  BY <1>1, <1>3, <1>3a, <1>4 DEF EarlierMasked, Masked, MemoryType
<1>15. LiveBlocks'
  BY <1>1, <1>2, <1>3, <1>3b, <1>4, <1>5 DEF LiveBlocks, Live, PollKnows
<1> QED  BY <1>3, <1>4, <1>6, <1>8, <1>9, <1>10, <1>11, <1>12, <1>13, <1>14, <1>15, Frame

\* A new session is the newest, and no record but its own changes.
LEMMA FreshEffect ==
    ASSUME IInv, NEW s \in Session, Fresh(s), NEW status \in {"REFUSED", "STARTING"},
           Save(s, status), UNCHANGED <<current, handle, child>>
    PROVE  /\ s > current /\ child[s] = "none" /\ Latest(s)' /\ record'[s].status = status
           /\ \A t \in Session : t # s => record'[t] = record[t]
           /\ \A t \in Session : Known(t) <=> t < s
           /\ RecordType' /\ RecordsKnown' /\ HandleOfCurrent' /\ ActiveIsHeld' /\ EarlierMasked'
           /\ LiveBlocks'
<1> USE DEF IInv, Typed
<1>1. \A t \in Session : Known(t) <=> t < s  BY DEF Fresh
<1>2. /\ RecordType' /\ record'[s].status = status
      /\ \A t \in Session : t # s => record'[t] = record[t]
  BY SaveEffect, status \in Statuses DEF Final
<1>3. s > current  BY <1>1 DEF RecordsKnown, MemoryType
<1>4. child[s] = "none"  BY <1>1 DEF RecordsKnown, ChildType
<1>5. current # 0 => record'[current] = record[current]  BY <1>2, <1>3 DEF MemoryType
<1>6. Latest(s)'  BY <1>1, <1>2 DEF Latest
<1>7. RecordsKnown'  BY <1>1, <1>2, <1>5 DEF RecordsKnown
<1>8. HandleOfCurrent' /\ ActiveIsHeld'  BY <1>5 DEF HandleOfCurrent, ActiveIsHeld
<1>9. EarlierMasked'
  BY <1>1, <1>2, <1>3 DEF EarlierMasked, Masked, MemoryType
<1>10. LiveBlocks'  BY <1>2, <1>4 DEF LiveBlocks, Live
<1> QED  BY <1>1, <1>2, <1>3, <1>4, <1>6, <1>7, <1>8, <1>9, <1>10

\* A start.
LEMMA StartKeeps ==
    ASSUME Serial, IInv, NEW r \in Request,
           \/ StartRefuse(r) \/ StartValidate(r) \/ StartPersist(r)
           \/ StartFails(r) \/ StartLaunch(r) \/ StartPublish(r)
    PROVE  IInv'
<1> USE DEF IInv, Typed
<1>0. \A q \in Request : q = r  BY DEF Serial
<1>1. CASE StartRefuse(r)
  <2>1. PICK s \in Session : Fresh(s) /\ Save(s, "REFUSED")  BY <1>1 DEF StartRefuse
  <2>2. UNCHANGED <<current, handle, child>> /\ req[r].pc = "decide" /\ Done(r)
    BY <1>1 DEF StartRefuse
  <2>3. /\ RecordType' /\ RecordsKnown' /\ HandleOfCurrent' /\ ActiveIsHeld' /\ EarlierMasked'
        /\ LiveBlocks' /\ record'[s].status = "REFUSED"
        /\ \A t \in Session : t # s => record'[t] = record[t]
    BY <2>1, <2>2, FreshEffect
  <2>4. ReqType' /\ ServerType' /\ \A q \in Request : req'[q] = Idle  BY <2>2, DoneEffect
  <2>5. StartKnows' /\ PollKnows' /\ EndKnows'  BY <2>4, IdleKnows
  <2>6. LaterRefused'
    BY <1>0, <2>2, <2>3 DEF LaterRefused, Launching, Launched
  <2> QED  BY <2>2, <2>3, <2>4, <2>5, <2>6, Frame
<1>2. CASE StartValidate(r)
  <2>1. Goto(r, "prepare") /\ UNCHANGED <<memory, record, child, server>> /\ req[r].pc = "decide"
        /\ ~CurrentIs(Blocking)
    BY <1>2 DEF StartValidate
  <2>2. \A q \in Request : req'[q].pc = "prepare"  BY <2>1, GotoEffect DEF Step
  <2>3. StartKnows' /\ PollKnows' /\ EndKnows'
    BY <2>1, <2>2 DEF StartKnows, PollKnows, EndKnows
  <2> QED  BY <2>1, <2>3, GotoKeeps DEF Step
<1>3. CASE StartPersist(r)
  <2>1. PICK s \in Session : /\ Fresh(s) /\ Save(s, "STARTING")
                             /\ req' = [req EXCEPT ![r].pc = "launch", ![r].at = s]
    BY <1>3 DEF StartPersist
  <2>2. UNCHANGED <<memory, child, server>> /\ req[r].pc = "prepare" /\ req[r].op = "start"
    BY <1>3 DEF StartPersist
  <2>3. /\ RecordType' /\ RecordsKnown' /\ HandleOfCurrent' /\ ActiveIsHeld' /\ EarlierMasked'
        /\ LiveBlocks' /\ record'[s].status = "STARTING" /\ s > current /\ child[s] = "none"
        /\ Latest(s)' /\ \A t \in Session : t # s => record'[t] = record[t]
    BY <2>1, <2>2, FreshEffect
  <2>4. ReqType' /\ req'[r].pc = "launch" /\ req'[r].at = s /\ req'[r].op = "start"
    <3>1. s \in 0..MaxSession /\ "launch" \in Step \union {"idle"}  BY DEF Step
    <3>2. ReqType'  BY <2>1, <3>1 DEF ReqType
    <3> QED  BY <2>1, <2>2, <3>2 DEF ReqType
  <2>5. ~CurrentIs(Blocking)'
    <3>1. ~CurrentIs(Blocking)  BY <2>2 DEF StartKnows
    <3> QED  BY <2>2, <2>3, <3>1 DEF MemoryType
  <2>6. StartKnows'  BY <1>0, <2>2, <2>3, <2>4, <2>5 DEF StartKnows
  <2>7. PollKnows' /\ EndKnows'  BY <1>0, <2>4 DEF PollKnows, EndKnows
  <2>8. LaterRefused'
    BY <1>0, <2>2, <2>3, <2>4 DEF LaterRefused, Launching, Launched
  <2> QED  BY <2>2, <2>3, <2>4, <2>6, <2>7, <2>8, Frame
<1>4. CASE StartFails(r) \/ StartPublish(r)
  <2> DEFINE s == req[r].at
  <2>1. /\ req[r].op = "start" /\ req[r].pc \in {"launch", "publish"} /\ Done(r) /\ current' = s
        /\ UNCHANGED child
    BY <1>4 DEF StartFails, StartPublish
  <2>2. /\ s \in Session /\ s > current /\ Latest(s) /\ record[s].status = "STARTING"
        /\ ~CurrentIs(Blocking)
    BY <2>1 DEF StartKnows, ReqType, MemoryType
  <2>3. \/ StartFails(r) /\ handle' = 0 /\ Save(s, "ENDED") /\ child[s] = "none"
        \/ /\ StartPublish(r) /\ handle' = s /\ child[s] # "none"
           /\ record' = [record EXCEPT ![s] = [status |-> "RUNNING", pid |-> TRUE]]
    BY <1>4 DEF StartFails, StartPublish, StartKnows
  <2>4. /\ RecordType' /\ \A t \in Session : t # s => record'[t] = record[t]
        /\ \/ handle' = 0 /\ record'[s].status = "ENDED" /\ child[s] = "none"
           \/ handle' = s /\ record'[s].status = "RUNNING" /\ child[s] # "none"
    <3>1. CASE Save(s, "ENDED") /\ handle' = 0 /\ child[s] = "none"
      BY <2>2, <3>1, SaveEffect, "ENDED" \in Statuses DEF Final
    <3>2. CASE /\ record' = [record EXCEPT ![s] = [status |-> "RUNNING", pid |-> TRUE]]
               /\ handle' = s /\ child[s] # "none"
      BY <2>2, <3>2 DEF RecordType, Final
    <3> QED  BY <2>3, <3>1, <3>2
  <2> HIDE DEF s
  <2>5. ReqType' /\ ServerType' /\ \A q \in Request : req'[q] = Idle  BY <2>1, DoneEffect
  <2>6. StartKnows' /\ PollKnows' /\ EndKnows'  BY <2>5, IdleKnows
  <2>7. MemoryType'  BY <2>1, <2>2, <2>4 DEF MemoryType
  <2>8. RecordsKnown'  BY <2>1, <2>2, <2>4 DEF RecordsKnown, Latest
  <2>9. HandleOfCurrent' /\ ActiveIsHeld'
    BY <2>1, <2>2, <2>4 DEF HandleOfCurrent, ActiveIsHeld
  <2>10. LaterRefused'  BY <2>1, <2>2, <2>4 DEF LaterRefused, Latest
  <2>11. EarlierMasked'
    <3> SUFFICES ASSUME NEW t \in Session, t < s, record[t].status \in Blocking
                 PROVE  Masked(t)'
      BY <2>1, <2>2, <2>4 DEF EarlierMasked
    <3>1. t < current
      BY <2>1, <2>2, <1>0 DEF LaterRefused, Launching, Launched, MemoryType, s
    <3>2. Masked(t)  BY <3>1 DEF EarlierMasked
    <3> QED  BY <2>2, <2>4, <3>2 DEF Masked
  <2>12. LiveBlocks'  BY <2>1, <2>2, <2>4 DEF LiveBlocks, Live
  <2> QED  BY <2>1, <2>4, <2>5, <2>6, <2>7, <2>8, <2>9, <2>10, <2>11, <2>12, Frame
<1>5. CASE StartLaunch(r)
  <2> DEFINE s == req[r].at
  <2>1. /\ req[r].op = "start" /\ req[r].pc = "launch" /\ Goto(r, "publish")
        /\ UNCHANGED <<memory, record, server>> /\ child' = [child EXCEPT ![s] = "live"]
    BY <1>5 DEF StartLaunch
  <2>2. /\ s \in Session /\ s > current /\ Latest(s) /\ record[s].status = "STARTING"
        /\ ~CurrentIs(Blocking) /\ child[s] = "none"
    BY <2>1 DEF StartKnows, ReqType, MemoryType
  <2>3. ChildType' /\ child'[s] = "live" /\ \A t \in Session : t # s => child'[t] = child[t]
    BY <2>1, <2>2 DEF ChildType
  <2>4. /\ ReqType' /\ req'[r].op = "start" /\ req'[r].pc = "publish" /\ req'[r].at = s
        /\ req'[r].gone = req[r].gone
    BY <2>1, GotoEffect DEF Step
  <2> HIDE DEF s
  <2>5. MemoryType'  BY <2>1, <2>2, <2>3 DEF MemoryType
  <2>6. RecordsKnown'  BY <2>1, <2>2, <2>3 DEF RecordsKnown, Latest
  <2>7. LiveBlocks'  BY <2>1, <2>2, <2>3 DEF LiveBlocks, Live
  <2>8. StartKnows'  BY <1>0, <2>1, <2>2, <2>3, <2>4 DEF StartKnows, Latest
  <2>9. PollKnows' /\ EndKnows'  BY <1>0, <2>4 DEF PollKnows, EndKnows
  <2>10. LaterRefused'
    BY <1>0, <2>1, <2>4 DEF LaterRefused, Launching, Launched, s
  <2> QED  BY <2>1, <2>3, <2>4, <2>5, <2>6, <2>7, <2>8, <2>9, <2>10, Frame
<1> QED  BY <1>1, <1>2, <1>3, <1>4, <1>5

\* A stop works on one session from its mark to its end.
LEMMA StopKeeps ==
    ASSUME Serial, IInv, NEW r \in Request,
           \/ StopRefuse(r) \/ StopSignal(r) \/ StopMark(r)
           \/ StopTimeout(r) \/ StopExited(r) \/ StopFinish(r)
    PROVE  IInv'
<1> USE DEF IInv, Typed
<1>0. \A q \in Request : q = r  BY DEF Serial
<1>1. CASE StopRefuse(r) \/ StopTimeout(r)
  BY <1>1, DoneKeeps DEF StopRefuse, StopTimeout
<1>2. CASE StopSignal(r)
  <2>1. /\ Goto(r, "mark") /\ UNCHANGED <<memory, record, child, server>>
        /\ req[r].pc = "decide" /\ req[r].op = "stop" /\ CurrentIs(Active)
    BY <1>2 DEF StopSignal
  <2>2. \A q \in Request : req'[q].pc = "mark" /\ req'[q].op = "stop"
    BY <2>1, GotoEffect DEF Step
  <2>3. StartKnows' /\ PollKnows' /\ EndKnows'
    BY <2>1, <2>2 DEF StartKnows, PollKnows, EndKnows
  <2> QED  BY <2>1, <2>3, GotoKeeps DEF Step
<1>3. CASE StopMark(r)
  <2>1. /\ req[r].op = "stop" /\ req[r].pc = "mark" /\ Save(current, "STOP_REQUESTED")
        /\ UNCHANGED <<current, handle, child, lock, closing, restarts>>
    BY <1>3 DEF StopMark
  <2>2. /\ current \in Session /\ handle = current /\ record[current].status \in Active
    BY <2>1 DEF EndKnows, ActiveIsHeld, MemoryType
  <2>3. /\ RecordType' /\ record'[current].status = "STOP_REQUESTED"
        /\ \A t \in Session : t # current => record'[t] = record[t]
    BY <2>1, <2>2, SaveEffect
  <2>4. req' = [req EXCEPT ![r].pc = "wait", ![r].at = handle]
    BY <1>3, <2>2 DEF StopMark
  <2>5. ReqType' /\ req'[r].pc = "wait" /\ req'[r].at = handle /\ req'[r].op = "stop"
    <3>1. handle \in 0..MaxSession /\ "wait" \in Step \union {"idle"}  BY <2>2 DEF Step
    <3>2. ReqType'  BY <2>4, <3>1 DEF ReqType
    <3> QED  BY <2>1, <2>4, <3>2 DEF ReqType
  <2>6. StartKnows' /\ PollKnows' /\ EndKnows'
    BY <1>0, <2>1, <2>2, <2>5 DEF StartKnows, PollKnows, EndKnows
  <2>7. RecordsKnown'  BY <2>1, <2>2, <2>3 DEF RecordsKnown
  <2>8. HandleOfCurrent' /\ ActiveIsHeld'
    BY <2>1, <2>2, <2>3 DEF HandleOfCurrent, ActiveIsHeld
  <2>9. LaterRefused'
    BY <1>0, <2>1, <2>2, <2>3, <2>5 DEF LaterRefused, Launching, Launched
  <2>10. EarlierMasked'  BY <2>1, <2>2, <2>3 DEF EarlierMasked, Masked
  <2>11. LiveBlocks'  BY <2>1, <2>2, <2>3 DEF LiveBlocks, Live
  <2> QED  BY <2>1, <2>3, <2>5, <2>6, <2>7, <2>8, <2>9, <2>10, <2>11, Frame
<1>4. CASE StopExited(r)
  <2>1. /\ Goto(r, "repoll") /\ UNCHANGED <<memory, record, child, server>>
        /\ req[r].pc = "wait" /\ req[r].op = "stop" /\ child[req[r].at] = "gone"
    BY <1>4 DEF StopExited
  <2>2. ReqType' /\ \A q \in Request : req'[q].pc = "repoll" /\ req'[q].op = "stop"
    BY <2>1, GotoEffect DEF Step
  <2>3. StartKnows' /\ PollKnows' /\ EndKnows'
    BY <2>1, <2>2 DEF StartKnows, PollKnows, EndKnows
  <2>4. LaterRefused'  BY <1>0, <2>1, <2>2 DEF LaterRefused, Launching, Launched
  <2> QED  BY <2>1, <2>2, <2>3, <2>4, Frame
<1>5. CASE StopFinish(r)
  <2>1. /\ req[r].op = "stop" /\ req[r].pc = "finish" /\ Done(r) /\ handle' = 0
        /\ UNCHANGED <<current, record, child>> /\ ~CurrentIs(Active)
    BY <1>5 DEF StopFinish, EndKnows
  <2>2. ReqType' /\ ServerType' /\ \A q \in Request : req'[q] = Idle  BY <2>1, DoneEffect
  <2>3. StartKnows' /\ PollKnows' /\ EndKnows'  BY <2>2, IdleKnows
  <2>4. MemoryType' /\ HandleOfCurrent' /\ ActiveIsHeld'
    BY <2>1 DEF MemoryType, HandleOfCurrent, ActiveIsHeld
  <2>5. LaterRefused'  BY <1>0, <2>1 DEF LaterRefused, Launching, Launched
  <2> QED  BY <2>1, <2>2, <2>3, <2>4, <2>5, Frame
<1> QED  BY <1>1, <1>2, <1>3, <1>4, <1>5

\* A reconciliation closes the session it probed.
LEMMA ReconcileKeeps ==
    ASSUME Serial, IInv, NEW r \in Request,
           ReconcileRefuse(r) \/ ReconcileProbe(r) \/ ReconcileClose(r)
    PROVE  IInv'
<1> USE DEF IInv, Typed
<1>0. \A q \in Request : q = r  BY DEF Serial
<1>1. CASE ReconcileRefuse(r)
  BY <1>1, DoneKeeps DEF ReconcileRefuse
<1>2. CASE ReconcileProbe(r)
  <2>1. /\ Goto(r, "mark") /\ UNCHANGED <<memory, record, child, server>>
        /\ req[r].pc = "decide" /\ req[r].op = "reconcile"
        /\ CurrentIs({"UNKNOWN"}) /\ child[current] = "gone"
    BY <1>2 DEF ReconcileProbe
  <2>2. \A q \in Request : req'[q].pc = "mark" /\ req'[q].op = "reconcile"
    BY <2>1, GotoEffect DEF Step
  <2>3. StartKnows' /\ PollKnows' /\ EndKnows'
    BY <2>1, <2>2 DEF StartKnows, PollKnows, EndKnows
  <2> QED  BY <2>1, <2>3, GotoKeeps DEF Step
<1>3. CASE ReconcileClose(r)
  <2>1. /\ req[r].op = "reconcile" /\ req[r].pc = "mark" /\ Save(current, "RECONCILED")
        /\ handle' = 0 /\ Done(r) /\ UNCHANGED <<current, child>>
    BY <1>3 DEF ReconcileClose
  <2>2. current \in Session /\ child[current] = "gone" /\ record[current].status = "UNKNOWN"
    BY <2>1 DEF EndKnows, MemoryType
  <2>3. /\ RecordType' /\ record'[current].status = "RECONCILED"
        /\ \A t \in Session : t # current => record'[t] = record[t]
    BY <2>1, <2>2, SaveEffect, "RECONCILED" \in Statuses DEF Final
  <2>4. ReqType' /\ ServerType' /\ \A q \in Request : req'[q] = Idle  BY <2>1, DoneEffect
  <2>5. StartKnows' /\ PollKnows' /\ EndKnows'  BY <2>4, IdleKnows
  <2>6. MemoryType' /\ HandleOfCurrent' /\ ActiveIsHeld'
    BY <2>1, <2>2, <2>3 DEF MemoryType, HandleOfCurrent, ActiveIsHeld
  <2>7. RecordsKnown'  BY <2>1, <2>2, <2>3 DEF RecordsKnown
  <2>8. LaterRefused'  BY <1>0, <2>1, <2>2, <2>3 DEF LaterRefused, Launching, Launched
  <2>9. EarlierMasked'  BY <2>1, <2>2, <2>3 DEF EarlierMasked, Masked
  <2>10. LiveBlocks'  BY <2>1, <2>2, <2>3 DEF LiveBlocks, Live
  <2> QED  BY <2>1, <2>3, <2>4, <2>5, <2>6, <2>7, <2>8, <2>9, <2>10, Frame
<1> QED  BY <1>1, <1>2, <1>3

\* A shutdown ends the session whose child it killed.
LEMMA ShutdownKeeps ==
    ASSUME Serial, IInv, NEW r \in Request,
           ShutdownRefuse(r) \/ ShutdownKill(r) \/ ShutdownMark(r)
    PROVE  IInv'
<1> USE DEF IInv, Typed
<1>0. \A q \in Request : q = r  BY DEF Serial
<1>1. CASE ShutdownRefuse(r)
  BY <1>1, DoneKeeps DEF ShutdownRefuse
<1>2. CASE ShutdownKill(r)
  <2>1. /\ Goto(r, "mark") /\ UNCHANGED <<memory, record, child, server>>
        /\ req[r].pc = "decide" /\ req[r].op = "shutdown" /\ CurrentIs(Active)
    BY <1>2 DEF ShutdownKill
  <2>2. \A q \in Request : req'[q].pc = "mark" /\ req'[q].op = "shutdown"
    BY <2>1, GotoEffect DEF Step
  <2>3. StartKnows' /\ PollKnows' /\ EndKnows'
    BY <2>1, <2>2 DEF StartKnows, PollKnows, EndKnows
  <2> QED  BY <2>1, <2>3, GotoKeeps DEF Step
<1>3. CASE ShutdownMark(r)
  <2> DEFINE status == IF child[handle] = "live" THEN "STOP_REQUESTED" ELSE "ENDED"
  <2>1. /\ req[r].op = "shutdown" /\ req[r].pc = "mark" /\ Done(r)
        /\ UNCHANGED <<current, handle, child>>
    BY <1>3 DEF ShutdownMark
  <2>2. current \in Session /\ handle = current /\ record[current].status \in Active
    BY <2>1 DEF EndKnows, ActiveIsHeld, MemoryType
  <2>3. Save(current, status)  BY <1>3, <2>2 DEF ShutdownMark, Save
  <2>4. status \in Statuses /\ status \in {"STOP_REQUESTED", "ENDED"}
        /\ (child[current] = "live" => status = "STOP_REQUESTED")
    BY <2>2 DEF Final
  <2> HIDE DEF status
  <2>5. /\ RecordType' /\ record'[current].status = status
        /\ \A t \in Session : t # current => record'[t] = record[t]
    BY <2>2, <2>3, <2>4, SaveEffect
  <2>6. ReqType' /\ ServerType' /\ \A q \in Request : req'[q] = Idle  BY <2>1, DoneEffect
  <2>7. StartKnows' /\ PollKnows' /\ EndKnows'  BY <2>6, IdleKnows
  <2>8. HandleOfCurrent' /\ ActiveIsHeld'
    BY <2>1, <2>2, <2>4, <2>5 DEF HandleOfCurrent, ActiveIsHeld
  <2>9. RecordsKnown'  BY <2>1, <2>2, <2>4, <2>5 DEF RecordsKnown
  <2>10. LaterRefused'  BY <1>0, <2>1, <2>2, <2>5 DEF LaterRefused, Launching, Launched
  <2>11. EarlierMasked'  BY <2>1, <2>2, <2>5 DEF EarlierMasked, Masked
  <2>12. LiveBlocks'  BY <2>1, <2>2, <2>4, <2>5 DEF LiveBlocks, Live
  <2> QED  BY <2>1, <2>5, <2>6, <2>7, <2>8, <2>9, <2>10, <2>11, <2>12, Frame
<1> QED  BY <1>1, <1>2, <1>3

-----------------------------------------------------------------------------
(* Arrivals, the end of a child and the death of the API process.          *)

LEMMA ArriveKeeps ==
    ASSUME Serial, IInv, NEW r \in Request, NEW op \in Operation, Arrive(r, op)  PROVE  IInv'
<1> USE DEF IInv, Typed
<1>0. \A q \in Request : q = r  BY DEF Serial
<1>1. /\ req' = [req EXCEPT ![r] = [op |-> op, pc |-> "poll", gone |-> FALSE, at |-> 0]]
      /\ req[r].pc = "idle" /\ UNCHANGED <<current, handle, record, child, restarts>>
      /\ lock' \in {r, lock} /\ closing' = (closing \/ op = "shutdown")
  BY DEF Arrive
<1>2. ReqType' /\ req'[r].pc = "poll"
  <2>1. "poll" \in Step \union {"idle"}  BY DEF Step
  <2> QED  BY <1>1, <2>1 DEF ReqType
<1>3. ServerType'
  <2>1. closing' \in BOOLEAN  BY <1>1
  <2> QED  BY <1>1, <2>1 DEF ServerType
<1>4. StartKnows' /\ PollKnows' /\ EndKnows'
  BY <1>0, <1>1, <1>2 DEF StartKnows, PollKnows, EndKnows
<1>5. LaterRefused'  BY <1>0, <1>1, <1>2 DEF LaterRefused, Launching, Launched
<1> QED  BY <1>1, <1>2, <1>3, <1>4, <1>5, Frame

LEMMA ChildKeeps == ASSUME IInv, NEW s \in Session, ChildExits(s)  PROVE  IInv'
<1> USE DEF IInv, Typed
<1>1. /\ ChildType' /\ child'[s] = "gone" /\ child[s] = "live"
      /\ \A t \in Session : t # s => child'[t] = child[t]
      /\ UNCHANGED <<current, handle, record, req, lock, closing, restarts>>
  BY DEF ChildExits, ChildType
<1>2. MemoryType'  BY <1>1 DEF MemoryType
<1>3. RecordsKnown'  BY <1>1 DEF RecordsKnown
<1>4. LiveBlocks'  BY <1>1 DEF LiveBlocks, Live
<1>5. StartKnows'
  <2> SUFFICES ASSUME NEW r \in Request, req[r].op = "start"
               PROVE  /\ req[r].pc = "launch" => child'[req[r].at] = "none"
                      /\ req[r].pc = "publish" => child'[req[r].at] # "none"
    BY <1>1 DEF StartKnows, Latest
  <2>1. req[r].pc \in {"launch", "publish"} => req[r].at \in Session
    BY DEF StartKnows, ReqType, MemoryType
  <2> QED  BY <1>1, <2>1 DEF StartKnows
<1>6. PollKnows'  BY <1>1 DEF PollKnows, MemoryType
<1>7. EndKnows'  BY <1>1 DEF EndKnows, MemoryType
<1> QED  BY <1>1, <1>2, <1>3, <1>4, <1>5, <1>6, <1>7, Frame

\* A restart forgets every request and loads the latest session.
LEMMA RestartKeeps == ASSUME Serial, IInv, Restart  PROVE  IInv'
<1> USE DEF IInv, Typed
<1>0. /\ req' = [r \in Request |-> Idle] /\ restarts' = restarts + 1 /\ restarts < MaxRestarts
      /\ lock' = "none" /\ closing' = FALSE /\ UNCHANGED child
  BY DEF Restart
<1>1. ServerType' /\ ReqType' /\ \A r \in Request : req'[r] = Idle
  <2>1. ServerType'
    <3>1. restarts' \in 0..MaxRestarts  BY <1>0 DEF ServerType
    <3>2. closing' \in BOOLEAN  BY <1>0
    <3> QED  BY <1>0, <3>1, <3>2 DEF ServerType
  <2>2. Idle \in [op : Operation \union {"none"}, pc : Step \union {"idle"},
                  gone : BOOLEAN, at : 0..MaxSession]
    BY DEF Idle
  <2> QED  BY <1>0, <2>1, <2>2 DEF ReqType
<1>2. StartKnows' /\ PollKnows' /\ EndKnows'  BY <1>1, IdleKnows
<1>3. ASSUME NEW s \in Session, Latest(s), Load(s)  PROVE  IInv'
  <2>1. /\ current' = s
        /\ RecordType' /\ \A t \in Session : t # s => record'[t] = record[t]
        /\ \/ /\ record[s].status \in Active
              /\ \/ record'[s].status = "RUNNING" /\ handle' = s /\ child[s] = "live"
                 \/ record'[s].status = "RECONCILED" /\ handle' = 0 /\ child[s] = "gone"
                 \/ record'[s].status = "UNKNOWN" /\ handle' = 0
           \/ /\ record[s].status \notin Active /\ handle' = 0
              /\ record'[s].status = record[s].status
    <3>1. current' = s  BY <1>3 DEF Load
    <3>2. CASE record[s].status \notin Active
      BY <1>3, <3>1, <3>2 DEF Load, RecordType
    <3>3. CASE record[s].status \in Active
      <4>1. Adopt(s) \/ FindGone(s) \/ LeaveUnknown(s)  BY <1>3, <3>3 DEF Load
      <4>2. CASE Adopt(s)  BY <3>1, <3>3, <4>2, SaveEffect DEF Adopt
      <4>3. CASE FindGone(s)
        BY <3>1, <3>3, <4>3, SaveEffect, "RECONCILED" \in Statuses DEF FindGone, Final
      <4>4. CASE LeaveUnknown(s)  BY <3>1, <3>3, <4>4, SaveEffect DEF LeaveUnknown
      <4> QED  BY <4>1, <4>2, <4>3, <4>4
    <3> QED  BY <3>2, <3>3
  <2>2. Known(s) /\ \A t \in Session : Known(t) => t <= s  BY <1>3 DEF Latest
  <2>3. MemoryType'  BY <1>0, <2>1 DEF MemoryType
  <2>4. RecordsKnown'  BY <1>0, <2>1, <2>2 DEF RecordsKnown
  <2>5. HandleOfCurrent' /\ ActiveIsHeld'  BY <2>1 DEF HandleOfCurrent, ActiveIsHeld
  <2>6. LaterRefused'  BY <2>1, <2>2 DEF LaterRefused
  <2>7. EarlierMasked'
    <3> SUFFICES ASSUME NEW t \in Session, t < s, record[t].status \in Blocking
                 PROVE  Masked(t)'
      BY <2>1 DEF EarlierMasked
    <3>1. s > current \/ t < current
      BY <2>2 DEF RecordsKnown, MemoryType
    <3>2. CASE t < current
      <4>1. Masked(t)  BY <3>2 DEF EarlierMasked
      <4> QED  BY <2>1, <4>1 DEF Masked
    <3>3. CASE t >= current
      <4>1. ~\E r \in Request : req[r].op = "start" /\ req[r].pc \in {"launch", "publish"}
        <5> SUFFICES ASSUME NEW r \in Request, req[r].op = "start",
                            req[r].pc \in {"launch", "publish"}
                     PROVE  FALSE
          OBVIOUS
        <5>1. /\ Latest(req[r].at) /\ ~CurrentIs(Blocking) /\ req[r].at \in Session
          BY DEF StartKnows, ReqType, MemoryType
        <5>2. req[r].at = s  BY <2>2, <5>1 DEF Latest
        <5>3. t # current  BY <5>1
        <5>4. Launching(t) \/ Launched(t)  BY <3>3, <5>3 DEF LaterRefused, MemoryType
        <5>5. PICK q \in Request : req[q].at = t  BY <5>4 DEF Launching, Launched
        <5> QED  BY <5>2, <5>5 DEF Serial
      <4>2. t = current
        BY <3>3, <4>1 DEF LaterRefused, Launching, Launched, MemoryType
      <4>3. record[s].status = "REFUSED"
        BY <2>2, <4>1, <4>2 DEF LaterRefused, Launching, Launched
      <4> QED  BY <2>1, <4>3 DEF Masked
    <3> QED  BY <3>2, <3>3 DEF MemoryType
  <2>8. LiveBlocks'  BY <1>0, <2>1 DEF LiveBlocks, Live
  <2> QED  BY <1>0, <1>1, <1>2, <2>1, <2>3, <2>4, <2>5, <2>6, <2>7, <2>8, Frame
<1>4. ASSUME \A s \in Session : ~Known(s), UNCHANGED <<memory, record>>  PROVE  IInv'
  <2>1. LaterRefused'  BY <1>4 DEF LaterRefused
  <2> QED  BY <1>0, <1>1, <1>2, <1>4, <2>1, Frame
<1> QED  BY <1>3, <1>4 DEF Restart

-----------------------------------------------------------------------------
LEMMA InitHolds == Init => IInv
<1> SUFFICES ASSUME Init  PROVE  IInv
  OBVIOUS
<1>1. Typed
  <2>1. MemoryType /\ ChildType /\ RecordType
    BY DEF Init, MemoryType, RecordType, ChildType
  <2>2. Idle \in [op : Operation \union {"none"}, pc : Step \union {"idle"},
                  gone : BOOLEAN, at : 0..MaxSession]
    BY DEF Idle
  <2>3. req = [r \in Request |-> Idle]  BY DEF Init
  <2>4. ReqType  BY ONLY <2>2, <2>3 DEF ReqType
  <2>5. lock = "none" /\ closing = FALSE /\ restarts = 0  BY DEF Init
  <2>6. ServerType
    <3>1. closing \in BOOLEAN  BY <2>5
    <3>2. 0 \in 0..MaxRestarts  BY BoundAssumption
    <3> QED  BY <2>5, <3>1, <3>2 DEF ServerType
  <2> QED  BY <2>1, <2>4, <2>6 DEF Typed
<1>2. RecordsKnown /\ HandleOfCurrent /\ ActiveIsHeld /\ LaterRefused /\ EarlierMasked /\ LiveBlocks
  BY DEF Init, RecordsKnown, HandleOfCurrent, ActiveIsHeld, LaterRefused, EarlierMasked,
         LiveBlocks, Live
<1>3. StartKnows /\ PollKnows /\ EndKnows
  BY DEF Init, StartKnows, PollKnows, EndKnows, Idle
<1> QED  BY <1>1, <1>2, <1>3 DEF IInv

LEMMA StepKeeps == ASSUME Serial, IInv, [Next]_vars  PROVE  IInv'
<1>1. ASSUME NEW r \in Request, NEW op \in Operation, Arrive(r, op)  PROVE  IInv'
  BY <1>1, ArriveKeeps
<1>2. ASSUME NEW r \in Request, Handle(r)  PROVE  IInv'
  BY <1>2, PollKeeps, ApplyKeeps, StartKeeps, StopKeeps, ReconcileKeeps, ShutdownKeeps DEF Handle
<1>3. ASSUME NEW s \in Session, ChildExits(s)  PROVE  IInv'
  BY <1>3, ChildKeeps
<1>4. CASE Restart  BY <1>4, RestartKeeps
<1>5. CASE UNCHANGED vars
  BY <1>5, Frame DEF IInv, Typed, vars
<1> QED  BY <1>1, <1>2, <1>3, <1>4, <1>5 DEF Next

\* Requests that come one at a time keep the inductive invariant.
LEMMA InvariantHolds == ASSUME Serial  PROVE  Spec => []IInv
<1>1. Init => IInv  BY InitHolds
<1>2. IInv /\ [Next]_vars => IInv'  BY StepKeeps
<1> QED  BY <1>1, <1>2, PTL DEF Spec

-----------------------------------------------------------------------------
\* TypeOK: every variable keeps its type, and the handle is that of a child
\* that was launched.
THEOREM TypeCorrect == ASSUME Serial  PROVE  Spec => []TypeOK
<1>1. IInv => TypeOK  BY TypeParts DEF IInv
<1> QED  BY <1>1, InvariantHolds, PTL

\* ActiveIsHeld: an active session has its child's handle.
THEOREM ActiveIsHeldHolds == ASSUME Serial  PROVE  Spec => []ActiveIsHeld
<1>1. IInv => ActiveIsHeld  BY DEF IInv
<1> QED  BY <1>1, InvariantHolds, PTL

\* SecondChildIsMasked: two processes only past the record of a refused start.
THEOREM SecondChildIsMaskedHolds == ASSUME Serial  PROVE  Spec => []SecondChildIsMasked
<1>1. IInv => SecondChildIsMasked
  <2> SUFFICES ASSUME IInv, NEW s \in Live, NEW t \in Live, s < t  PROVE  Masked(s)
    BY DEF SecondChildIsMasked
  <2> USE DEF IInv, Typed
  <2>1. /\ s \in Session /\ t \in Session /\ record[s].status \in Blocking
        /\ record[t].status \in Blocking /\ Known(t) /\ Known(s)
    BY DEF LiveBlocks, Live
  <2>2. s > current => ~Known(t)
    BY <2>1 DEF LaterRefused, Launching, Launched, StartKnows, Latest
  <2>3. s # current
    BY <2>1 DEF LaterRefused, Launching, Launched, StartKnows
  <2> QED  BY <2>1, <2>2, <2>3 DEF EarlierMasked, MemoryType
<1> QED  BY <1>1, InvariantHolds, PTL

\* NoChildForgotten: every live child is held, launching, UNKNOWN or masked.
THEOREM NoChildForgottenHolds == ASSUME Serial  PROVE  Spec => []NoChildForgotten
<1>1. IInv => NoChildForgotten
  <2> SUFFICES ASSUME IInv, NEW s \in Live
               PROVE  \/ handle = s
                      \/ current = s /\ record[s].status = "UNKNOWN"
                      \/ Launched(s)
                      \/ Masked(s)
    BY DEF NoChildForgotten, Launched
  <2> USE DEF IInv, Typed
  <2>1. s \in Session /\ record[s].status \in Blocking /\ child[s] = "live"
    BY DEF LiveBlocks, Live
  <2>2. CASE s < current  BY <2>1, <2>2 DEF EarlierMasked
  <2>3. CASE s = current
    <3>1. CASE record[s].status \in Active
      <4>1. current # 0 /\ record[current].status \in Active  BY <2>1, <2>3, <3>1
      <4> QED  BY <2>3, <4>1 DEF ActiveIsHeld
    <3>2. CASE record[s].status = "UNKNOWN"  BY <2>3, <3>2
    <3> QED  BY <2>1, <3>1, <3>2
  <2>4. CASE s > current  BY <2>1, <2>4 DEF LaterRefused, Launching, StartKnows
  <2> QED  BY <2>1, <2>2, <2>3, <2>4 DEF MemoryType
<1> QED  BY <1>1, InvariantHolds, PTL
=============================================================================
