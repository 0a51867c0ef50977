--------------------------- MODULE RunManagerProofs ---------------------------
(***************************************************************************)
(* Theorems of RunManager: for any number of runs, conversations and       *)
(* clients, whatever is cancelled, cleaned up or shut down in between, a   *)
(* conversation has one execution and it is found by its conversation, the *)
(* registered status is the task's, and every stream that ends, ends on a  *)
(* verdict.                                                                *)
(***************************************************************************)
EXTENDS RunManager, TLAPS

USE ConstantsAssumption

\* How long the log of a run may be at each point of its task.
Longest(at) ==
    IF at \in {"unused", "created"} THEN 0
    ELSE IF at = "recording" THEN MaxProgress + 2
    ELSE IF at = "done" THEN MaxProgress + 3
    ELSE MaxProgress + 1

\* A run that has a live task is the registered run of its conversation and is
\* marked as running: this is what lets admission refuse a second one.
IsFound(r) ==
    /\ run[r].at = "unused" => r \notin registry /\ ~run[r].cancelling
    /\ run[r].at # "unused" => run[r].conv \in Conversations
    /\ Alive(r) => /\ r \in registry /\ byConv[run[r].conv] = r
                   /\ run[r].status = "running"
    /\ r \in cleanup => run[r].at = "done"

\* The stream ends with the task, and not before the last event is out.
IsTold(r) ==
    /\ ended[r] => run[r].at = "done" /\ Told(r, run[r].status)
    /\ run[r].at = "recording" => Told(r, run[r].outcome)
    /\ Len(log[r]) <= Longest(run[r].at)

\* A task is marked as running after its end only while the shutdown gathers the
\* tasks, since nothing but the shutdown cancels a task before its first step.
IsSettled(r) ==
    /\ run[r].at = "created" /\ run[r].cancelling => closing # "open"
    /\ r \in registry /\ run[r].at = "done" /\ run[r].status = "running" => closing = "cancelling"
    /\ closing = "closed" => ~Alive(r)

\* A client watches a run that exists, and reads only from one whose task has had
\* its first step.
Watches(conn) ==
    /\ conn.at # "idle" => conn.run \in RunIds /\ run[conn.run].at # "unused"
    /\ conn.at = "reading" => run[conn.run].at # "created"

RunInv == \A r \in RunIds : IsFound(r) /\ IsTold(r) /\ IsSettled(r)
ClientInv == \A k \in Clients : Watches(client[k])

RunRecords ==
    [conv : Conversations \union {None}, request : Requests \union {None},
     mode : {"cancel", "continue"}, status : Statuses, at : Points,
     outcome : Statuses, cancelling : BOOLEAN]
Connections ==
    [at : {"idle", "opening", "reading", "waiting"},
     run : RunIds \union {None}, object : {"none", "first", "again"},
     cursor : 0..(MaxProgress + 3), owner : BOOLEAN]

\* TypeOK, with the records named.
Typed ==
    /\ run \in [RunIds -> RunRecords]
    /\ registry \subseteq RunIds
    /\ byConv \in [Conversations -> RunIds \union {None}]
    /\ stream \in [RunIds -> {"none", "first", "again"}]
    /\ log \in [RunIds -> Seq(Kinds)]
    /\ ended \in [RunIds -> BOOLEAN]
    /\ cleanup \subseteq registry
    /\ closing \in {"open", "cancelling", "closed"}
    /\ client \in [Clients -> Connections]

LEMMA TypesNamed == TypeOK <=> Typed
  BY DEF TypeOK, Typed, RunRecords, Connections

IInv == Typed /\ RunInv /\ ClientInv

-----------------------------------------------------------------------------
(* What the helpers do *)

LEMMA Publishing ==
  ASSUME Typed, NEW r \in RunIds, NEW kind \in Kinds, log' = Published(r, kind)
  PROVE  /\ log' \in [RunIds -> Seq(Kinds)]
         /\ Len(log'[r]) = Len(log[r]) + 1
         /\ kind \in Terminal => \A status \in Verdicts[kind] : Told(r, status)'
         /\ \A q \in RunIds : q # r => log'[q] = log[q]
<1>1. log[r] \in Seq(Kinds) /\ log'[r] = Append(log[r], kind)
  BY DEF Typed, Published
<1>2. /\ Append(log[r], kind) \in Seq(Kinds)
      /\ Len(Append(log[r], kind)) = Len(log[r]) + 1
      /\ Append(log[r], kind) # <<>>
      /\ Append(log[r], kind)[Len(log[r]) + 1] = kind
  BY <1>1
<1> QED BY <1>1, <1>2 DEF Typed, Published, Told

\* What a step does that is a matter of clients only.
LEMMA Connecting ==
  ASSUME IInv, UNCHANGED clientless, NEW k \in Clients, NEW conn \in Connections,
         Watches(conn), Connect(k, conn)
  PROVE  IInv'
<1>1. Typed'
  BY DEF IInv, Typed, Connect, clientless
<1>2. RunInv'
  BY DEF IInv, RunInv, IsFound, IsTold, IsSettled, Told, Alive, clientless
<1>3. ClientInv'
  BY DEF IInv, Typed, ClientInv, Watches, Connect, clientless
<1> QED BY <1>1, <1>2, <1>3 DEF IInv

LEMMA Disconnected == NoConnection \in Connections /\ Watches(NoConnection)
  BY DEF NoConnection, Connections, Watches

LEMMA LatestRun ==
  ASSUME IInv, NEW c \in Conversations, Latest(c) # None
  PROVE  /\ Latest(c) = byConv[c] /\ Latest(c) \in registry /\ Latest(c) \in RunIds
         /\ run[Latest(c)].at # "unused"
  BY DEF IInv, Typed, RunInv, IsFound, Latest

LEMMA ActiveRun ==
  ASSUME IInv, NEW c \in Conversations, Active(c) # None
  PROVE  /\ Active(c) = byConv[c] /\ Active(c) \in registry /\ Active(c) \in RunIds
         /\ run[Active(c)].at # "unused"
  BY LatestRun DEF Active

LEMMA LongestLog == \A at \in Points : Longest(at) \in 0..(MaxProgress + 3)
  BY DEF Longest

-----------------------------------------------------------------------------
(* Watching *)

LEMMA StartAgainStep ==
  ASSUME IInv, NEW k \in Clients, NEW c \in Conversations, NEW q \in Requests,
         NEW how \in {"opening", "waiting"}, StartAgain(k, c, q, how)
  PROVE  IInv'
<1> DEFINE conn == Leading(Active(c), how, TRUE)
<1>1. Active(c) \in RunIds /\ run[Active(c)].at # "unused"
  BY ActiveRun DEF StartAgain
<1>2. conn \in Connections /\ conn.run = Active(c) /\ conn.at = how
  BY <1>1 DEF Leading, Connections
<1>4. Connect(k, conn) /\ UNCHANGED clientless
  BY DEF StartAgain
<1> HIDE DEF conn
<1>3. Watches(conn)
  BY <1>1, <1>2 DEF Watches
<1> QED BY <1>2, <1>3, <1>4, Connecting

LEMMA AttachStep ==
  ASSUME IInv, NEW k \in Clients, NEW c \in Conversations, Attach(k, c)
  PROVE  IInv'
<1> DEFINE conn == Leading(Latest(c), "opening", FALSE)
<1>1. Latest(c) \in RunIds /\ run[Latest(c)].at # "unused"
  BY LatestRun DEF Attach
<1>2. conn \in Connections /\ conn.run = Latest(c) /\ conn.at = "opening"
  BY <1>1 DEF Leading, Connections
<1>4. Connect(k, conn) /\ UNCHANGED clientless
  BY DEF Attach
<1> HIDE DEF conn
<1>3. Watches(conn)
  BY <1>1, <1>2 DEF Watches
<1> QED BY <1>2, <1>3, <1>4, Connecting

LEMMA ReceiveStep == ASSUME IInv, NEW k \in Clients, Receive(k) PROVE IInv'
<1> DEFINE conn == [client[k] EXCEPT !.cursor = @ + 1]
<1>1. client[k] \in Connections /\ Watches(client[k]) /\ client[k].run \in RunIds
  BY DEF IInv, Typed, ClientInv, Watches, Receive
<1>2. Len(log[client[k].run]) <= MaxProgress + 3 /\ Len(log[client[k].run]) \in Nat
  <2>1. run[client[k].run].at \in Points /\ log[client[k].run] \in Seq(Kinds)
    BY <1>1 DEF IInv, Typed, RunRecords
  <2>2. Len(log[client[k].run]) <= Longest(run[client[k].run].at)
    BY <1>1 DEF IInv, RunInv, IsTold
  <2> QED BY <2>1, <2>2, LongestLog
<1>3. conn \in Connections
  <2>1. client[k].cursor \in 0..(MaxProgress + 3) /\ client[k].cursor + 1 <= MaxProgress + 3
    BY <1>1, <1>2 DEF Receive, Connections
  <2> QED BY <1>1, <2>1 DEF Connections
<1>4. Watches(conn)
  BY <1>1 DEF Watches, Connections
<1>5. Connect(k, conn) /\ UNCHANGED clientless
  BY <1>1 DEF Receive, Connect
<1> QED BY <1>3, <1>4, <1>5, Connecting

LEMMA LeaveStep ==
  ASSUME IInv, NEW k \in Clients, StreamEnds(k) \/ Abandon(k) \/ ChatReturns(k)
  PROVE  IInv'
  BY Disconnected, Connecting DEF StreamEnds, Abandon, ChatReturns

LEMMA OpenStreamStep == ASSUME IInv, NEW k \in Clients, OpenStream(k) PROVE IInv'
<1>1. /\ client[k] \in Connections /\ Watches(client[k])
      /\ client[k].run \in RunIds /\ run[client[k].run].at # "unused"
  BY DEF IInv, Typed, ClientInv, Watches, OpenStream
<1>2. stream' \in [RunIds -> {"none", "first", "again"}]
  BY <1>1 DEF IInv, Typed, OpenStream
<1>3. PICK resume \in Resumes :
        Connect(k, [client[k] EXCEPT
                      !.at = "reading", !.cursor = resume,
                      !.object = IF stream[client[k].run] = "none"
                                    THEN "again" ELSE stream[client[k].run]])
  BY DEF OpenStream
<1> DEFINE conn == [client[k] EXCEPT
                      !.at = "reading", !.cursor = resume,
                      !.object = IF stream[client[k].run] = "none"
                                    THEN "again" ELSE stream[client[k].run]]
<1>4. conn \in Connections
  <2>1. resume \in 0..(MaxProgress + 3)
    BY DEF Resumes
  <2>2. stream[client[k].run] \in {"none", "first", "again"}
    BY <1>1 DEF IInv, Typed
  <2> QED BY <1>1, <2>1, <2>2 DEF Connections
<1>5. conn.at = "reading" /\ conn.run = client[k].run
  BY <1>1 DEF Connections
<1>6. client' = [client EXCEPT ![k] = conn]
  BY <1>3 DEF Connect
<1> HIDE DEF conn
<1>7. Typed'
  BY <1>2, <1>4, <1>6 DEF IInv, Typed, OpenStream
<1>8. RunInv'
  BY DEF IInv, RunInv, IsFound, IsTold, IsSettled, Told, Alive, OpenStream
<1>9. ClientInv'
  BY <1>1, <1>5, <1>6 DEF IInv, Typed, ClientInv, Watches, OpenStream
<1> QED BY <1>7, <1>8, <1>9 DEF IInv

-----------------------------------------------------------------------------
(* The task.  A step of the run r changes its point and its log; what the other *)
(* runs of the conversation rely on stays.                                      *)

LEMMA OthersStay ==
  ASSUME IInv, NEW r \in RunIds, NEW q \in RunIds, q # r,
         run'[q] = run[q], log'[q] = log[q], ended'[q] = ended[q],
         q \in registry' <=> q \in registry, q \in cleanup' <=> q \in cleanup,
         Alive(q) => byConv'[run[q].conv] = byConv[run[q].conv],
         closing' = closing
  PROVE  (IsFound(q) /\ IsTold(q) /\ IsSettled(q))'
  BY DEF IInv, RunInv, IsFound, IsTold, IsSettled, Told, Alive

\* Nobody watches a run that is not there, and a run never becomes unused or
\* unstarted again.
LEMMA WatchersStay ==
  ASSUME IInv, UNCHANGED client,
         \A q \in RunIds : /\ run'[q].at = "unused" => run[q].at = "unused"
                           /\ run'[q].at = "created" => run[q].at \in {"created", "unused"}
  PROVE  ClientInv'
  BY DEF IInv, ClientInv, Watches

\* A step of one task beyond its start.
LEMMA TaskMoves ==
  ASSUME IInv, NEW r \in RunIds, NEW rec \in RunRecords,
         rec.at \notin {"unused", "created"},
         run' = [run EXCEPT ![r] = rec],
         UNCHANGED <<registry, byConv, closing, client>>,
         stream' \in [RunIds -> {"none", "first", "again"}],
         log' \in [RunIds -> Seq(Kinds)],
         ended' \in [RunIds -> BOOLEAN],
         cleanup' \subseteq registry,
         \A q \in RunIds : q # r => /\ log'[q] = log[q] /\ ended'[q] = ended[q]
                                    /\ q \in cleanup' <=> q \in cleanup,
         (IsFound(r) /\ IsTold(r) /\ IsSettled(r))'
  PROVE  IInv'
<1>1. Typed'
  BY DEF IInv, Typed
<1>2. \A q \in RunIds : q # r => run'[q] = run[q]
  OBVIOUS
<1>3. RunInv'
  BY <1>2, OthersStay DEF RunInv
<1>4. run'[r] = rec
  BY DEF IInv, Typed
<1>5. ClientInv'
  BY <1>2, <1>4, WatchersStay
<1> QED BY <1>1, <1>3, <1>5 DEF IInv

LEMMA BeginStep == ASSUME IInv, NEW r \in RunIds, Begin(r) PROVE IInv'
<1> DEFINE rec == [run[r] EXCEPT !.at = "executing"]
<1>1. /\ log' \in [RunIds -> Seq(Kinds)]
      /\ Len(log'[r]) = Len(log[r]) + 1
      /\ \A q \in RunIds : q # r => log'[q] = log[q]
  BY Publishing DEF IInv, Begin, Kinds
<1>2. run[r] \in RunRecords /\ Len(log[r]) \in Nat /\ Len(log[r]) <= 0
  BY DEF IInv, Typed, RunInv, IsTold, Begin, Longest
<1>3. /\ rec \in RunRecords
      /\ rec.at = "executing" /\ rec.conv = run[r].conv
      /\ rec.status = run[r].status /\ ~rec.cancelling
  BY <1>2 DEF RunRecords, Points, Begin
<1>4. run' = [run EXCEPT ![r] = rec]
  BY DEF IInv, Typed, Begin
<1> HIDE DEF rec
<1>5. run'[r] = rec
  BY <1>4 DEF IInv, Typed
<1>6. (IsFound(r) /\ IsTold(r) /\ IsSettled(r))'
  BY <1>1, <1>2, <1>3, <1>5 DEF IInv, RunInv, IsFound, IsTold, IsSettled, Alive, Begin, Longest
<1>7. stream' \in [RunIds -> {"none", "first", "again"}]
  BY DEF IInv, Typed, Begin, Opened
<1> QED BY <1>1, <1>3, <1>4, <1>6, <1>7, TaskMoves DEF IInv, Typed, Begin

LEMMA ProgressStep == ASSUME IInv, NEW r \in RunIds, Progress(r) PROVE IInv'
<1>1. /\ log' \in [RunIds -> Seq(Kinds)]
      /\ Len(log'[r]) = Len(log[r]) + 1
      /\ \A q \in RunIds : q # r => log'[q] = log[q]
  BY Publishing DEF IInv, Progress, Kinds
<1>2. run[r] \in RunRecords /\ Len(log[r]) \in Nat /\ Len(log[r]) <= MaxProgress
  BY DEF IInv, Typed, Progress
<1>3. run' = [run EXCEPT ![r] = run[r]] /\ run'[r] = run[r]
  BY DEF IInv, Typed, Progress
<1>4. (IsFound(r) /\ IsTold(r) /\ IsSettled(r))'
  BY <1>1, <1>2 DEF IInv, RunInv, IsFound, IsTold, IsSettled, Alive, Progress, Longest
<1> QED BY <1>1, <1>2, <1>3, <1>4, TaskMoves DEF IInv, Typed, Progress

\* The task moves on without a word: the graph ends, fails or unwinds.
LEMMA QuietStep ==
  ASSUME IInv, NEW r \in RunIds, GraphEnds(r) \/ ExecutionFails(r) \/ CancelUnwinds(r)
  PROVE  IInv'
<1>1. run[r] \in RunRecords /\ run[r].at \in {"executing", "snapshotting", "failing"}
  BY DEF IInv, Typed, GraphEnds, ExecutionFails, CancelUnwinds
<1>2. PICK rec \in RunRecords :
        /\ run' = [run EXCEPT ![r] = rec]
        /\ rec.at \in {"snapshotting", "failing", "unwinding"}
        /\ rec.conv = run[r].conv /\ rec.status = run[r].status /\ ~rec.cancelling
  <2>1. CASE GraphEnds(r)
    <3> DEFINE rec == [run[r] EXCEPT !.at = "snapshotting"]
    <3>1. rec \in RunRecords /\ rec.at = "snapshotting" /\ ~rec.cancelling
          /\ rec.conv = run[r].conv /\ rec.status = run[r].status
      BY <1>1, <2>1 DEF GraphEnds, RunRecords, Points
    <3>2. run' = [run EXCEPT ![r] = rec]
      BY <2>1 DEF IInv, Typed, GraphEnds
    <3> QED BY <3>1, <3>2
  <2>2. CASE ExecutionFails(r)
    <3> DEFINE rec == [run[r] EXCEPT !.at = "failing"]
    <3>1. rec \in RunRecords /\ rec.at = "failing" /\ ~rec.cancelling
          /\ rec.conv = run[r].conv /\ rec.status = run[r].status
      BY <1>1, <2>2 DEF ExecutionFails, RunRecords, Points
    <3>2. run' = [run EXCEPT ![r] = rec]
      BY <2>2 DEF IInv, Typed, ExecutionFails
    <3> QED BY <3>1, <3>2
  <2>3. CASE CancelUnwinds(r)
    <3> DEFINE rec == [run[r] EXCEPT !.at = "unwinding", !.cancelling = FALSE]
    <3>1. rec \in RunRecords /\ rec.at = "unwinding" /\ ~rec.cancelling
          /\ rec.conv = run[r].conv /\ rec.status = run[r].status
      BY <1>1, <2>3 DEF CancelUnwinds, RunRecords, Points
    <3>2. run' = [run EXCEPT ![r] = rec]
      BY <2>3 DEF IInv, Typed, CancelUnwinds
    <3> QED BY <3>1, <3>2
  <2> QED BY <2>1, <2>2, <2>3
<1>3. UNCHANGED <<registry, byConv, stream, log, ended, cleanup, closing, client>>
  BY DEF GraphEnds, ExecutionFails, CancelUnwinds
<1>4. run'[r] = rec
  BY <1>2 DEF IInv, Typed
<1>5. (IsFound(r) /\ IsTold(r) /\ IsSettled(r))'
  BY <1>1, <1>2, <1>3, <1>4
  DEF IInv, RunInv, IsFound, IsTold, IsSettled, Told, Alive, Longest
<1> QED BY <1>2, <1>3, <1>5, TaskMoves DEF IInv, Typed

\* The outcome is known and goes out; the usage is still to be recorded.
LEMMA PublishStep ==
  ASSUME IInv, NEW r \in RunIds, PublishDone(r) \/ PublishError(r)
  PROVE  IInv'
<1>1. run[r] \in RunRecords /\ run[r].at \in {"snapshotting", "failing"} /\ ~run[r].cancelling
  BY DEF IInv, Typed, PublishDone, PublishError
<1>2. PICK kind \in {"done", "error"}, outcome \in Statuses :
        /\ run' = [run EXCEPT ![r].at = "recording", ![r].outcome = outcome]
        /\ log' = Published(r, kind) /\ outcome \in Verdicts[kind]
  BY DEF Statuses, PublishDone, PublishError, Verdicts
<1> DEFINE rec == [run[r] EXCEPT !.at = "recording", !.outcome = outcome]
<1>3. kind \in Terminal
  BY DEF Terminal
<1>4. /\ rec \in RunRecords /\ rec.at = "recording" /\ rec.outcome = outcome
      /\ rec.conv = run[r].conv /\ rec.status = run[r].status /\ ~rec.cancelling
  BY <1>1 DEF RunRecords, Points
<1>5. run' = [run EXCEPT ![r] = rec]
  BY <1>2 DEF IInv, Typed
<1> HIDE DEF rec
<1>6. /\ log' \in [RunIds -> Seq(Kinds)]
      /\ Len(log'[r]) = Len(log[r]) + 1
      /\ Told(r, outcome)'
      /\ \A q \in RunIds : q # r => log'[q] = log[q]
  BY <1>2, <1>3, Publishing DEF IInv, Kinds
<1>7. UNCHANGED <<registry, byConv, stream, ended, cleanup, closing, client>>
  BY DEF PublishDone, PublishError
<1>8. run'[r] = rec /\ Len(log[r]) \in Nat /\ Len(log[r]) <= MaxProgress + 1
  <2>1. run \in [RunIds -> RunRecords] /\ log[r] \in Seq(Kinds)
    BY DEF IInv, Typed
  <2>2. run'[r] = rec
    BY <1>5, <2>1
  <2>3. Len(log[r]) <= MaxProgress + 1
    BY <1>1 DEF IInv, RunInv, IsTold, Longest
  <2> QED BY <2>1, <2>2, <2>3
<1>9. (IsFound(r) /\ IsTold(r) /\ IsSettled(r))'
  <2>1. IsFound(r)'
    BY <1>1, <1>4, <1>7, <1>8 DEF IInv, RunInv, IsFound, Alive
  <2>2. IsTold(r)'
    BY <1>1, <1>4, <1>6, <1>7, <1>8 DEF IInv, RunInv, IsTold, Longest
  <2>3. IsSettled(r)'
    BY <1>1, <1>4, <1>7, <1>8 DEF IInv, RunInv, IsSettled, Alive
  <2> QED BY <2>1, <2>2, <2>3
<1> QED BY <1>4, <1>5, <1>6, <1>7, <1>9, TaskMoves DEF IInv, Typed

LEMMA FinishedStep ==
  ASSUME IInv, NEW r \in RunIds, Alive(r), NEW status \in Statuses \ {"running"},
         Finished(r, status), Told(r, status)', Len(log'[r]) <= MaxProgress + 3,
         log' \in [RunIds -> Seq(Kinds)],
         \A q \in RunIds : q # r => log'[q] = log[q],
         UNCHANGED <<registry, byConv, stream, closing, client>>
  PROVE  IInv'
<1> DEFINE rec == [run[r] EXCEPT !.at = "done", !.status = status, !.cancelling = FALSE]
<1>1. run[r] \in RunRecords /\ run[r].conv \in Conversations /\ r \in registry
  BY DEF IInv, Typed, RunInv, IsFound, Alive
<1>2. /\ rec \in RunRecords
      /\ rec.at = "done" /\ rec.conv = run[r].conv
      /\ rec.status = status /\ ~rec.cancelling
  BY <1>1 DEF RunRecords, Points
<1>3. run' = [run EXCEPT ![r] = rec]
  BY DEF IInv, Typed, Finished
<1> HIDE DEF rec
<1>4. run'[r] = rec
  BY <1>3 DEF IInv, Typed
<1>5. /\ ended' \in [RunIds -> BOOLEAN]
      /\ \A q \in RunIds : q # r => ended'[q] = ended[q]
  BY DEF IInv, Typed, Finished
<1>6. /\ cleanup' \subseteq registry
      /\ \A q \in RunIds : q # r => (q \in cleanup' <=> q \in cleanup)
  BY <1>1 DEF IInv, Typed, Finished
<1>7. (IsFound(r) /\ IsTold(r) /\ IsSettled(r))'
  <2>1. IsFound(r)'
    BY <1>1, <1>2, <1>4 DEF IsFound, Alive
  <2>2. IsTold(r)'
    BY <1>2, <1>4 DEF IsTold, Longest
  <2>3. IsSettled(r)'
    BY <1>2, <1>4 DEF IsSettled, Alive
  <2> QED BY <2>1, <2>2, <2>3
<1> QED BY <1>2, <1>3, <1>5, <1>6, <1>7, TaskMoves DEF IInv, Typed

LEMMA ReturnStatusStep == ASSUME IInv, NEW r \in RunIds, ReturnStatus(r) PROVE IInv'
<1>1. /\ Told(r, run[r].outcome)
      /\ Len(log[r]) <= MaxProgress + 2 /\ Len(log[r]) \in Nat
  BY DEF IInv, Typed, RunInv, IsTold, ReturnStatus, Longest
<1>2. run[r].outcome \in Statuses \ {"running"}
  BY <1>1 DEF Told, Terminal, Verdicts, Statuses
<1>3. \A s : Told(r, s) => Told(r, s)'
  BY DEF Told, ReturnStatus
<1>4. PICK s \in Statuses \ {"running"} : s = run[r].outcome
  BY <1>2
<1>5. /\ Finished(r, s) /\ Told(r, s)' /\ Alive(r) /\ Len(log'[r]) <= MaxProgress + 3
  BY <1>1, <1>3, <1>4 DEF Alive, ReturnStatus
<1> QED BY <1>5, FinishedStep DEF IInv, Typed, ReturnStatus

\* _supervise publishes the last event itself.
LEMMA SupervisedEndStep ==
  ASSUME IInv, NEW r \in RunIds, CancelEnds(r) \/ RunnerRaises(r)
  PROVE  IInv'
<1>1. PICK kind \in Terminal, status \in {"cancelled", "failed"} :
        log' = Published(r, kind) /\ Finished(r, status) /\ status \in Verdicts[kind]
  BY DEF CancelEnds, RunnerRaises, Terminal, Verdicts
<1>2. /\ log' \in [RunIds -> Seq(Kinds)]
      /\ Len(log'[r]) = Len(log[r]) + 1
      /\ Told(r, status)'
      /\ \A q \in RunIds : q # r => log'[q] = log[q]
  BY <1>1, Publishing DEF IInv, Kinds
<1>3. Alive(r) /\ Len(log[r]) \in Nat /\ Len(log[r]) <= MaxProgress + 2
  BY DEF IInv, Typed, RunInv, IsTold, Alive, CancelEnds, RunnerRaises, Longest
<1>4. UNCHANGED <<registry, byConv, stream, closing, client>>
  BY DEF CancelEnds, RunnerRaises
<1>5. status \in Statuses \ {"running"}
  BY <1>1 DEF Statuses
<1> QED BY <1>1, <1>2, <1>3, <1>4, <1>5, FinishedStep

LEMMA CancelUnstartedStep ==
  ASSUME IInv, NEW r \in RunIds, CancelUnstarted(r)
  PROVE  IInv'
<1> DEFINE rec == [run[r] EXCEPT !.at = "done", !.cancelling = FALSE]
<1>1. run[r] \in RunRecords
  BY DEF IInv, Typed
<1>2. /\ rec \in RunRecords
      /\ rec.at = "done" /\ rec.conv = run[r].conv
      /\ rec.status = run[r].status /\ ~rec.cancelling
  BY <1>1 DEF RunRecords, Points
<1>3. run' = [run EXCEPT ![r] = rec]
  BY DEF IInv, Typed, CancelUnstarted
<1> HIDE DEF rec
<1>4. run'[r] = rec
  BY <1>3 DEF IInv, Typed
<1>5. closing = "cancelling"
  BY DEF IInv, Typed, RunInv, IsSettled, Alive, CancelUnstarted
<1>6. ~ended[r] /\ log[r] \in Seq(Kinds) /\ Len(log[r]) <= 0 /\ Len(log[r]) \in Nat
  BY DEF IInv, Typed, RunInv, IsTold, CancelUnstarted, Longest
<1>7. (IsFound(r) /\ IsTold(r) /\ IsSettled(r))'
  <2>1. IsFound(r)'
    BY <1>2, <1>4 DEF IInv, RunInv, IsFound, Alive, CancelUnstarted
  <2>2. IsTold(r)'
    BY <1>2, <1>4, <1>6 DEF IsTold, Longest, CancelUnstarted
  <2>3. IsSettled(r)'
    BY <1>2, <1>4, <1>5 DEF IsSettled, Alive, CancelUnstarted
  <2> QED BY <2>1, <2>2, <2>3
<1> QED BY <1>2, <1>3, <1>7, TaskMoves DEF IInv, Typed, CancelUnstarted


LEMMA CleanupLaterStep == ASSUME IInv, NEW r \in RunIds, CleanupLater(r) PROVE IInv'
<1>1. run[r].at = "done"
  BY DEF IInv, RunInv, IsFound, CleanupLater
<1>2. Typed'
  BY DEF IInv, Typed, CleanupLater, Forgotten
<1>3. \A q \in RunIds : q # r /\ Alive(q) => byConv'[run[q].conv] = byConv[run[q].conv]
  <2> SUFFICES ASSUME NEW q \in RunIds, q # r, Alive(q)
               PROVE  byConv'[run[q].conv] = byConv[run[q].conv]
    OBVIOUS
  <2>1. byConv[run[q].conv] = q
    BY DEF IInv, RunInv, IsFound
  <2> QED BY <2>1 DEF IInv, Typed, CleanupLater, Forgotten
<1>4. (IsFound(r) /\ IsTold(r) /\ IsSettled(r))'
  BY <1>1 DEF IInv, RunInv, IsFound, IsTold, IsSettled, Told, Alive, CleanupLater
<1>5. RunInv'
  <2> SUFFICES ASSUME NEW q \in RunIds, q # r
               PROVE  (IsFound(q) /\ IsTold(q) /\ IsSettled(q))'
    BY <1>4 DEF RunInv
  <2> QED BY <1>3, OthersStay DEF CleanupLater
<1>6. ClientInv'
  BY WatchersStay DEF CleanupLater
<1> QED BY <1>2, <1>5, <1>6 DEF IInv

-----------------------------------------------------------------------------
(* Starting a run: the conversation has none that is marked as running, hence *)
(* none with a live task whose place the new one would take.                  *)

LEMMA StartNewStep ==
  ASSUME IInv, NEW k \in Clients, NEW c \in Conversations,
         NEW q \in Requests \union {None}, NEW mode \in {"cancel", "continue"},
         NEW how \in {"opening", "waiting"}, StartNew(k, c, q, mode, how)
  PROVE  IInv'
<1> DEFINE rec == [NoRun EXCEPT !.conv = c, !.request = q, !.mode = mode, !.at = "created"]
<1>1. PICK r \in Fresh :
        /\ run' = [run EXCEPT ![r] = rec]
        /\ registry' = registry \union {r}
        /\ byConv' = [byConv EXCEPT ![c] = r]
        /\ client' = [client EXCEPT ![k] = Leading(r, how, TRUE)]
  BY DEF StartNew, Connect
<1> DEFINE conn == Leading(r, how, TRUE)
<1>2. /\ r \in RunIds /\ run[r].at = "unused"
      /\ run' = [run EXCEPT ![r] = rec]
      /\ registry' = registry \union {r}
      /\ byConv' = [byConv EXCEPT ![c] = r]
      /\ client' = [client EXCEPT ![k] = conn]
      /\ UNCHANGED <<stream, log, ended, cleanup, closing>>
      /\ closing = "open" /\ Active(c) = None
  BY <1>1 DEF StartNew, Fresh
<1>3. /\ rec \in RunRecords
      /\ rec.at = "created" /\ rec.conv = c /\ rec.status = "running" /\ ~rec.cancelling
  BY DEF NoRun, RunRecords, Points, Statuses
<1>4. conn \in Connections /\ conn.run = r /\ conn.at = how
  BY <1>2 DEF Leading, Connections
<1> HIDE DEF rec, conn
<1>5. Typed'
  BY <1>2, <1>3, <1>4 DEF IInv, Typed
<1>6. run'[r] = rec /\ \A x \in RunIds : x # r => run'[x] = run[x]
  BY <1>2 DEF IInv, Typed
<1>7. (IsFound(r) /\ IsTold(r) /\ IsSettled(r))'
  <2>1. /\ r \notin registry /\ r \notin cleanup /\ ~ended[r]
        /\ Len(log[r]) <= 0
    BY <1>2 DEF IInv, Typed, RunInv, IsFound, IsTold, Longest
  <2>2. IsFound(r)'
    BY <1>2, <1>3, <1>6, <2>1 DEF IInv, Typed, IsFound, Alive
  <2>3. IsTold(r)'
    BY <1>2, <1>3, <1>6, <2>1 DEF IsTold, Longest
  <2>4. IsSettled(r)'
    BY <1>2, <1>3, <1>6 DEF IsSettled, Alive
  <2> QED BY <2>2, <2>3, <2>4
<1>8. \A x \in RunIds : x # r => (IsFound(x) /\ IsTold(x) /\ IsSettled(x))'
  <2> SUFFICES ASSUME NEW x \in RunIds, x # r
               PROVE  (IsFound(x) /\ IsTold(x) /\ IsSettled(x))'
    OBVIOUS
  <2>1. Alive(x) => byConv'[run[x].conv] = byConv[run[x].conv]
    <3> SUFFICES ASSUME Alive(x), run[x].conv = c PROVE FALSE
      BY <1>2 DEF IInv, Typed
    <3>1. x \in registry /\ byConv[c] = x /\ run[x].status = "running"
      BY DEF IInv, RunInv, IsFound
    <3>2. Latest(c) = x /\ x # None
      BY <3>1 DEF Latest
    <3> QED BY <1>2, <3>1, <3>2 DEF Active
  <2> QED BY <1>2, <1>6, <2>1, OthersStay
<1>9. ClientInv'
  <2> SUFFICES ASSUME NEW j \in Clients PROVE Watches(client[j])'
    BY DEF ClientInv
  <2>1. CASE j = k
    BY <1>2, <1>3, <1>4, <1>6, <2>1 DEF IInv, Typed, Watches
  <2>2. CASE j # k
    <3>1. client'[j] = client[j] /\ Watches(client[j])
      BY <1>2, <2>2 DEF IInv, Typed, ClientInv
    <3> QED BY <1>2, <1>6, <3>1 DEF Watches
  <2> QED BY <2>1, <2>2
<1> QED BY <1>5, <1>7, <1>8, <1>9 DEF IInv, RunInv

-----------------------------------------------------------------------------
(* Cancellation: request_cancel() and aclose() mark tasks, and touch nothing *)
(* else of a run.                                                            *)

Marked(q) ==
    /\ run'[q] \in RunRecords
    /\ run'[q].at = run[q].at /\ run'[q].conv = run[q].conv
    /\ run'[q].status = run[q].status /\ run'[q].outcome = run[q].outcome
    /\ run'[q].cancelling =>
          \/ run[q].cancelling
          \/ Alive(q) /\ (run[q].at = "created" => closing' # "open")

LEMMA MarkOne ==
  ASSUME Typed, NEW r \in RunIds, Alive(r), run[r].at = "created" => closing' # "open"
  PROVE  /\ [run[r] EXCEPT !.cancelling = TRUE] \in RunRecords
         /\ [run[r] EXCEPT !.cancelling = TRUE].at = run[r].at
         /\ [run[r] EXCEPT !.cancelling = TRUE].conv = run[r].conv
         /\ [run[r] EXCEPT !.cancelling = TRUE].status = run[r].status
         /\ [run[r] EXCEPT !.cancelling = TRUE].outcome = run[r].outcome
<1>1. run[r] \in RunRecords
  BY DEF Typed
<1> QED BY <1>1 DEF RunRecords

LEMMA Marking ==
  ASSUME IInv, \A q \in RunIds : Marked(q),
         UNCHANGED <<registry, byConv, stream, log, ended, cleanup>>,
         closing' = closing \/ (closing = "open" /\ closing' = "cancelling")
  PROVE  RunInv'
<1> SUFFICES ASSUME NEW q \in RunIds
             PROVE  (IsFound(q) /\ IsTold(q) /\ IsSettled(q))'
  BY DEF RunInv
<1>1. IsFound(q)'
  BY DEF Marked, IInv, RunInv, IsFound, Alive
<1>2. IsTold(q)'
  BY DEF Marked, IInv, RunInv, IsTold, Told
<1>3. IsSettled(q)'
  BY DEF Marked, IInv, Typed, RunInv, IsSettled, Alive
<1> QED BY <1>1, <1>2, <1>3

LEMMA GeneratorLeftStep ==
  ASSUME IInv, NEW k \in Clients, Disconnect(k) \/ Gap(k)
  PROVE  IInv'
<1>1. /\ client[k].at = "reading" /\ GeneratorLeft(client[k])
      /\ client' = [client EXCEPT ![k] = NoConnection]
      /\ UNCHANGED <<registry, byConv, stream, log, ended, cleanup, closing>>
  BY DEF Disconnect, Gap, Connect
<1>2. PICK r \in RunIds : r = client[k].run /\ run[r].at \notin {"unused", "created"}
  BY <1>1 DEF IInv, ClientInv, Watches
<1>3. \/ run' = run
      \/ Alive(r) /\ run' = [run EXCEPT ![r].cancelling = TRUE]
  BY <1>1, <1>2 DEF GeneratorLeft, Cancelled
<1>4. run' \in [RunIds -> RunRecords] /\ \A q \in RunIds : Marked(q)
  <2>1. CASE run' = run
    BY <2>1 DEF IInv, Typed, Marked
  <2>2. CASE Alive(r) /\ run' = [run EXCEPT ![r].cancelling = TRUE]
    <3> DEFINE rec == [run[r] EXCEPT !.cancelling = TRUE]
    <3>1. /\ rec \in RunRecords /\ rec.at = run[r].at /\ rec.conv = run[r].conv
          /\ rec.status = run[r].status /\ rec.outcome = run[r].outcome
      BY <1>2, <2>2, MarkOne DEF IInv
    <3>2. run' = [run EXCEPT ![r] = rec]
      BY <2>2 DEF IInv, Typed
    <3> HIDE DEF rec
    <3>3. run' \in [RunIds -> RunRecords] /\ run'[r] = rec
      BY <3>1, <3>2 DEF IInv, Typed
    <3>4. \A q \in RunIds : q # r => run'[q] = run[q]
      BY <3>2 DEF IInv, Typed
    <3>5. \A q \in RunIds : q # r => Marked(q)
      BY <3>3, <3>4 DEF Marked
    <3>6. Marked(r)
      BY <1>2, <2>2, <3>1, <3>3 DEF Marked
    <3> QED BY <3>3, <3>5, <3>6
  <2> QED BY <1>3, <2>1, <2>2
<1>5. Typed'
  BY <1>1, <1>4, Disconnected DEF IInv, Typed
<1>6. RunInv'
  BY <1>1, <1>4, Marking
<1>7. ClientInv'
  <2> SUFFICES ASSUME NEW j \in Clients PROVE Watches(client[j])'
    BY DEF ClientInv
  <2>1. CASE j = k
    BY <1>1, <2>1 DEF IInv, Typed, Watches, NoConnection
  <2>2. CASE j # k
    <3>1. client'[j] = client[j] /\ Watches(client[j])
      BY <1>1, <2>2 DEF IInv, Typed, ClientInv
    <3>2. \A q \in RunIds : run'[q].at = run[q].at
      BY <1>4 DEF Marked
    <3> QED BY <3>1, <3>2 DEF Watches
  <2> QED BY <2>1, <2>2
<1> QED BY <1>5, <1>6, <1>7 DEF IInv

LEMMA CloseBeginsStep == ASSUME IInv, CloseBegins PROVE IInv'
<1>1. closing = "open" /\ closing' = "cancelling"
  BY DEF CloseBegins
<1>2. \A q \in RunIds : Marked(q)
  <2> SUFFICES ASSUME NEW q \in RunIds PROVE Marked(q)
    OBVIOUS
  <2>1. CASE q \in registry /\ Alive(q)
    <3>1. run'[q] = [run[q] EXCEPT !.cancelling = TRUE]
      BY <2>1 DEF CloseBegins
    <3> QED BY <1>1, <2>1, <3>1, MarkOne DEF IInv, Marked
  <2>2. CASE ~(q \in registry /\ Alive(q))
    <3>1. run'[q] = run[q] /\ run[q] \in RunRecords
      BY <2>2 DEF IInv, Typed, CloseBegins
    <3> QED BY <3>1 DEF Marked
  <2> QED BY <2>1, <2>2
<1>3. run' \in [RunIds -> RunRecords]
  <2>1. run' = [q \in RunIds |-> run'[q]]
    BY DEF CloseBegins
  <2> QED BY <1>2, <2>1 DEF Marked
<1>4. Typed'
  BY <1>1, <1>3 DEF IInv, Typed, CloseBegins
<1>5. RunInv'
  BY <1>1, <1>2, Marking DEF CloseBegins
<1>6. ClientInv'
  BY <1>2 DEF IInv, ClientInv, Watches, Marked, CloseBegins
<1> QED BY <1>4, <1>5, <1>6 DEF IInv

\* The gather is over: no registered task is alive, hence none at all.
LEMMA CloseEndsStep == ASSUME IInv, CloseEnds PROVE IInv'
<1>1. \A q \in RunIds : ~Alive(q)
  BY DEF IInv, RunInv, IsFound, CloseEnds
<1>2. \A q \in RunIds :
        /\ run'[q] \in RunRecords
        /\ run'[q].at = run[q].at /\ run'[q].conv = run[q].conv
        /\ run'[q].cancelling = run[q].cancelling
        /\ q \in registry /\ run[q].at = "done" => run'[q].status # "running"
  <2> SUFFICES ASSUME NEW q \in RunIds
               PROVE  /\ run'[q] \in RunRecords
                      /\ run'[q].at = run[q].at /\ run'[q].conv = run[q].conv
                      /\ run'[q].cancelling = run[q].cancelling
                      /\ q \in registry /\ run[q].at = "done" => run'[q].status # "running"
    OBVIOUS
  <2>1. run[q] \in RunRecords /\ run'[q] = Settled(q)
    BY DEF IInv, Typed, CloseEnds
  <2> QED BY <2>1 DEF Settled, RunRecords, Statuses
<1>3. run' \in [RunIds -> RunRecords]
  <2>1. run' = [q \in RunIds |-> run'[q]]
    BY DEF CloseEnds
  <2> QED BY <1>2, <2>1
<1>4. Typed'
  BY <1>3 DEF IInv, Typed, CloseEnds
<1>5. RunInv'
  <2> SUFFICES ASSUME NEW q \in RunIds
               PROVE  (IsFound(q) /\ IsTold(q) /\ IsSettled(q))'
    BY DEF RunInv
  <2>1. IsFound(q)'
    BY <1>1, <1>2 DEF IInv, RunInv, IsFound, Alive, CloseEnds
  <2>2. IsTold(q)'
    <3>1. run[q].at # "recording"
      BY <1>1 DEF Alive
    <3>2. \A status : Told(q, status)' <=> Told(q, status)
      BY DEF Told, CloseEnds
    <3>3. Told(q, run[q].status) => run[q].status # "running"
      BY DEF Told, Terminal, Verdicts
    <3>4. ended[q] => run'[q].status = run[q].status
      BY <3>3 DEF IInv, RunInv, IsTold, CloseEnds, Settled
    <3>5. PICK status : status = run'[q].status
      OBVIOUS
    <3> QED BY <1>2, <3>1, <3>2, <3>4, <3>5 DEF IInv, RunInv, IsTold, CloseEnds
  <2>3. IsSettled(q)'
    BY <1>1, <1>2 DEF IInv, RunInv, IsSettled, Alive, CloseEnds
  <2> QED BY <2>1, <2>2, <2>3
<1>6. ClientInv'
  BY <1>2 DEF IInv, ClientInv, Watches, CloseEnds
<1> QED BY <1>4, <1>5, <1>6 DEF IInv


-----------------------------------------------------------------------------
LEMMA Start == Init => IInv
<1> SUFFICES ASSUME Init PROVE IInv
  OBVIOUS
<1>1. NoRun \in RunRecords
  BY DEF NoRun, RunRecords, Statuses, Points
<1>2. Typed
  BY <1>1, Disconnected DEF Init, Typed
<1>3. RunInv
  BY <1>2 DEF Init, NoRun, RunInv, IsFound, IsTold, IsSettled, Told, Alive, Longest
<1>4. ClientInv
  BY DEF Init, NoConnection, ClientInv, Watches
<1> QED BY <1>2, <1>3, <1>4 DEF IInv

LEMMA Stutter == ASSUME IInv, UNCHANGED vars PROVE IInv'
<1>1. Typed'
  BY DEF IInv, Typed, vars
<1>2. RunInv'
  BY DEF IInv, RunInv, IsFound, IsTold, IsSettled, Told, Alive, vars
<1>3. ClientInv'
  BY DEF IInv, ClientInv, Watches, vars
<1> QED BY <1>1, <1>2, <1>3 DEF IInv

LEMMA EveryStep == IInv /\ [Next]_vars => IInv'
<1> SUFFICES ASSUME IInv, [Next]_vars PROVE IInv'
  OBVIOUS
<1>1. ASSUME NEW k \in Clients, NEW c \in Conversations,
             NEW q \in Requests \union {None}, NEW mode \in {"cancel", "continue"},
             \/ StartNew(k, c, q, mode, "opening")
             \/ StartNew(k, c, q, "continue", "waiting")
      PROVE  IInv'
  BY <1>1, StartNewStep
<1>2. ASSUME NEW k \in Clients, NEW c \in Conversations, NEW q \in Requests,
             NEW how \in {"opening", "waiting"}, StartAgain(k, c, q, how)
      PROVE  IInv'
  BY <1>2, StartAgainStep
<1>3. ASSUME NEW k \in Clients, NEW c \in Conversations, Attach(k, c)
      PROVE  IInv'
  BY <1>3, AttachStep
<1>4. ASSUME NEW r \in RunIds,
             \/ Begin(r) \/ Progress(r) \/ GraphEnds(r) \/ ExecutionFails(r)
             \/ PublishDone(r) \/ PublishError(r) \/ ReturnStatus(r) \/ CancelUnwinds(r)
             \/ CancelEnds(r) \/ RunnerRaises(r) \/ CancelUnstarted(r) \/ CleanupLater(r)
      PROVE  IInv'
  BY <1>4, BeginStep, ProgressStep, QuietStep, PublishStep, ReturnStatusStep,
     SupervisedEndStep, CancelUnstartedStep, CleanupLaterStep
<1>5. ASSUME NEW k \in Clients,
             \/ OpenStream(k) \/ Receive(k) \/ StreamEnds(k) \/ Gap(k)
             \/ Disconnect(k) \/ Abandon(k) \/ ChatReturns(k)
      PROVE  IInv'
  BY <1>5, OpenStreamStep, ReceiveStep, LeaveStep, GeneratorLeftStep
<1> QED BY <1>1, <1>2, <1>3, <1>4, <1>5, CloseBeginsStep, CloseEndsStep, Stutter DEF Next

\* Everything the lemmas above need of a reachable state holds of each.
THEOREM InvariantHolds == Spec => []IInv
  BY Start, EveryStep, PTL DEF Spec

\* The variables keep their types, and a client's cursor stays within the longest
\* stream a run can publish.
THEOREM TypeCorrect == Spec => []TypeOK
<1>1. IInv => TypeOK
  BY TypesNamed DEF IInv
<1> QED BY InvariantHolds, <1>1, PTL

\* start(), the supervision, the retention timers and aclose() leave a conversation
\* at most one live task, which is the one _by_conversation leads to.
THEOREM OneExecution == Spec => []OneExecutionPerConversation
<1>1. IInv => OneExecutionPerConversation
  <2> SUFFICES ASSUME IInv, NEW r \in RunIds, Alive(r)
               PROVE  r \in registry /\ Active(run[r].conv) = r
    BY DEF OneExecutionPerConversation
  <2>1. r \in registry /\ byConv[run[r].conv] = r /\ run[r].status = "running" /\ r # None
    BY DEF IInv, RunInv, IsFound
  <2> QED BY <2>1 DEF Active, Latest
<1> QED BY InvariantHolds, <1>1, PTL

\* Outside the gather of aclose(), a registered run is marked as running exactly as
\* long as its task lives.
THEOREM RegisteredStatusIsTrue == Spec => []StatusMatchesTask
<1>1. IInv => StatusMatchesTask
  <2> SUFFICES ASSUME IInv, NEW r \in registry, closing # "cancelling"
               PROVE  (run[r].status = "running") <=> Alive(r)
    BY DEF StatusMatchesTask, Alive
  <2>1. r \in RunIds /\ run[r].at # "unused"
    BY DEF IInv, Typed, RunInv, IsFound
  <2>2. Alive(r) => run[r].status = "running"
    BY <2>1 DEF IInv, RunInv, IsFound
  <2>3. run[r].at = "done" => run[r].status # "running"
    BY <2>1 DEF IInv, RunInv, IsSettled
  <2> QED BY <2>1, <2>2, <2>3 DEF Alive
<1> QED BY InvariantHolds, <1>1, PTL

\* publish_end() never closes a stream on anything but done, error or cancelled, and
\* what that event says is the status _supervise leaves the run with.
THEOREM EveryStreamEndsWithAVerdict == Spec => []EndsWithVerdict
<1>1. IInv => EndsWithVerdict
  BY DEF IInv, RunInv, IsTold, EndsWithVerdict
<1> QED BY InvariantHolds, <1>1, PTL
=============================================================================
