-------------------------- MODULE HttpServerProofs --------------------------
(***************************************************************************)
(* That the pool is the server's as long as its task exists, and that its  *)
(* two users agree with it, for every length of a body.                    *)
(*                                                                         *)
(* Between the calls of the main loop OwnersAgree says it all; inside of   *)
(* them its second half does not hold, so the invariant (Owners) says what *)
(* each point of a start or a stop may rely on: a start has the pool and   *)
(* has told nobody yet, a stop has told nobody either, for it may time out *)
(* and leave everything as it was.                                         *)
(***************************************************************************)
EXTENDS HttpServer, TLAPS

Agree == /\ fsState = "RUNNING" <=> pool = "webdav"
         /\ lrv <=> pool = "lrv"
         /\ running <=> pool \in Users

Starting == pool \in Users /\ ~running /\ fsState # "RUNNING" /\ ~lrv

Stages == {"idle", "started", "shutdown", "wait"}

Owners ==
  /\ loop \in Stages
  /\ lrv \in BOOLEAN /\ running \in BOOLEAN
  /\ TaskOwnsPool
  /\ loop = "started" => Starting
  /\ loop # "started" => Agree
  /\ loop \in {"shutdown", "wait"} => pool \in Users

-----------------------------------------------------------------------------
\* jpp_http_server_start gets as far as the task only with the pool in hand.
LEMMA StartKeepsOwners ==
  ASSUME Owners, NEW u \in Users, StartServer(u)
  PROVE  Owners'
<1>1. loop = "idle" /\ MayStart(u) /\ UNCHANGED <<lrv, running>>
  BY DEF StartServer
<1>2. Agree /\ fsState # "RUNNING"
  BY <1>1 DEF Owners, MayStart
<1>3. CASE StartFailed(u) /\ UNCHANGED <<loop, pool, task>>
  <2>1. fsState' # "RUNNING"
    BY <1>2, <1>3 DEF StartFailed
  <2> QED BY <1>1, <1>2, <1>3, <2>1 DEF Owners, Agree, TaskOwnsPool
<1>4. CASE ~running /\ pool = "free" /\ loop' = "started" /\ pool' = u /\ UNCHANGED fsState
  BY <1>1, <1>2, <1>4 DEF Owners, Agree, Starting, TaskOwnsPool, Users, Stages
<1> QED BY <1>3, <1>4 DEF StartServer

\* The task is gone and the pool is free at once, and so is whoever ran.
LEMMA StopKeepsOwners ==
  ASSUME Owners, ServerStarted \/ StopServer \/ ShutdownClient \/ StopCompletes \/ StopTimesOut
  PROVE  Owners'
<1>1. CASE ServerStarted
  <2>1. /\ loop = "started" /\ loop' = "idle" /\ running' = TRUE /\ UNCHANGED <<pool, task>>
        /\ fsState' = (IF pool = "webdav" THEN "RUNNING" ELSE fsState)
        /\ lrv' = (lrv \/ pool = "lrv")
    BY <1>1 DEF ServerStarted
  <2>2. Starting
    BY <2>1 DEF Owners
  <2> QED BY <2>1, <2>2 DEF Owners, Starting, Agree, TaskOwnsPool, Users, Stages
<1>2. CASE StopServer
  BY <1>2 DEF StopServer, Owners, Agree, TaskOwnsPool, Users, Stages
<1>3. CASE ShutdownClient
  BY <1>3 DEF ShutdownClient, Owners, Agree, TaskOwnsPool, Users, Stages
<1>4. CASE StopCompletes
  <2>1. /\ loop = "wait" /\ loop' = "idle" /\ running' = FALSE /\ pool' = "free" /\ task' = "none"
        /\ fsState' = (IF fsState = "RUNNING" THEN "STOPPED" ELSE fsState)
        /\ lrv' = (IF fsState = "RUNNING" THEN lrv ELSE FALSE)
    BY <1>4 DEF StopCompletes
  <2>2. Agree
    BY <2>1 DEF Owners
  <2> QED BY <2>1, <2>2 DEF Owners, Agree, TaskOwnsPool, Users, Stages
<1>5. CASE StopTimesOut
  BY <1>5 DEF StopTimesOut, StateAfterTimeout, PoolAfterTimeout, Owners, Agree, TaskOwnsPool,
              Users, Stages
<1> QED BY <1>1, <1>2, <1>3, <1>4, <1>5

\* An app takes the pool only from nobody.
LEMMA AppKeepsOwners ==
  ASSUME Owners, AppAcquires \/ AppReleases
  PROVE  Owners'
<1>1. UNCHANGED <<loop, fsState, lrv, running, task>>
  BY DEF AppAcquires, AppReleases
<1>2. pool \in {"free", "app"} /\ pool' \in {"free", "app"}
  BY DEF AppAcquires, AppReleases
<1> QED BY <1>1, <1>2 DEF Owners, Agree, Starting, TaskOwnsPool, Users, Stages

\* The server task neither begins nor ends on its own.
LEMMA TaskLeavesLife ==
  ASSUME Arrivals \/ PeerCloses \/ TaskNext
  PROVE  UNCHANGED <<loop, fsState, lrv, pool, running>> /\ (task = "none" => task' = "none")
<1>1. CASE Arrivals
  BY <1>1 DEF Arrivals, Accept, Requests, ReadRequest, PutReceives, PutWriteFails, ListenerFails,
              Handling, TaskAt, life
<1>2. CASE PeerCloses
  BY <1>2 DEF PeerCloses, life
<1>3. CASE TaskNext
  BY <1>3 DEF TaskNext, SelectTimesOut, Publish, ReadFails, CloseClient, HandleAnswer,
              StartResponse, StreamWrite, StreamEnds, PutOpens, PutReceiveFails, PutCompletes,
              HandlerReturns, Handling, TaskAt, life
<1> QED BY <1>1, <1>2, <1>3

\* One case for the main loop's calls, the apps, and the server task.
LEMMA StepKeepsOwners == Owners /\ [HttpNext]_httpVars => Owners'
<1> SUFFICES ASSUME Owners, [HttpNext]_httpVars PROVE Owners'
  OBVIOUS
<1>1. CASE MainNext
  BY <1>1, StartKeepsOwners, StopKeepsOwners DEF MainNext
<1>2. CASE Arrivals \/ PeerCloses \/ TaskNext
  <2>1. UNCHANGED <<loop, fsState, lrv, pool, running>> /\ (task = "none" => task' = "none")
    BY <1>2, TaskLeavesLife
  <2> QED BY <2>1 DEF Owners, Agree, Starting, TaskOwnsPool
<1>3. CASE UNCHANGED httpVars
  BY <1>3 DEF httpVars, life, Owners, Agree, Starting, TaskOwnsPool
<1> QED BY <1>1, <1>2, <1>3, AppKeepsOwners DEF HttpNext

LEMMA OwnersInit == HttpInit => Owners
BY DEF HttpInit, Owners, Agree, Starting, TaskOwnsPool, Users, Stages

LEMMA AgreeOutside == Owners => OwnersAgree
BY DEF Owners, OwnersAgree, UsersAgree, Agree

\* The pool the server's task runs on is never free nor an app's, and the file
\* server and the LRV server are marked as running exactly while it is theirs
\* (jpp_http_server_stop leaves all of it alone when its wait times out).
THEOREM PoolIsItsOwners == HttpSpec => []OwnersAgree
BY OwnersInit, AgreeOutside, StepKeepsOwners, PTL DEF HttpSpec

-----------------------------------------------------------------------------
(***************************************************************************)
(* The body of a PUT.  What is still unread of it and what is in the file  *)
(* make up the whole, from the opening of the file to the answer.          *)
(***************************************************************************)
Tasks == {"none", "select", "accepted", "read", "handle", "stream", "body",
          "return", "close", "exited"}

Counts == unread \in 0..BodyMax /\ length \in 0..BodyMax /\ owed \in 0..BodyMax
          /\ written \in 0..BodyMax

LifeTyped == /\ loop \in Stages /\ fsState \in {"STOPPED", "RUNNING", "ERROR"} /\ lrv \in BOOLEAN
             /\ pool \in {"free", "app"} \cup Users /\ running \in BOOLEAN

ConnTyped == /\ task \in Tasks /\ stopReq \in BOOLEAN /\ exited \in BOOLEAN
             /\ socket \in {"none", "open", "shut"} /\ published \in BOOLEAN /\ peerUp \in BOOLEAN

ReplyTyped == /\ op \in {"answer", "list", "file", "put"} /\ head \in BOOLEAN
              /\ keepAlive \in BOOLEAN /\ peerGone \in BOOLEAN /\ resp \in {"none", "started", "done"}
              /\ closeFailed \in BOOLEAN

BodyCounted == /\ task = "handle" => unread = length
               /\ task = "body" => written + unread = length

BodyInv == LifeTyped /\ ConnTyped /\ ReplyTyped /\ Counts /\ BodyCounted

\* A step that leaves the numbers alone keeps the count if it reads no request.
LEMMA CountsStay ==
  ASSUME BodyInv, UNCHANGED <<unread, length, written>>, owed' \in 0..BodyMax,
         task' \in {"handle", "body"} => task' = task
  PROVE  Counts' /\ BodyCounted'
BY DEF BodyInv, Counts, BodyCounted

LEMMA MainKeepsBody ==
  ASSUME BodyInv, MainNext \/ AppAcquires \/ AppReleases
  PROVE  BodyInv'
<1>1. UNCHANGED <<unread, length, written, closeFailed, owed, op, head, keepAlive, peerGone, resp>>
  BY DEF MainNext, AppAcquires, AppReleases, StartServer, ServerStarted, StopServer, ShutdownClient,
         StopCompletes, StopTimesOut, request, response, onCard
<1>2. task' \in {task, "select", "none"}
  BY DEF MainNext, AppAcquires, AppReleases, StartServer, ServerStarted, StopServer, ShutdownClient,
         StopCompletes, StopTimesOut
<1>3. Counts' /\ BodyCounted'
  BY <1>1, <1>2, CountsStay DEF BodyInv, Counts
<1>4. ReplyTyped'
  BY <1>1 DEF BodyInv, ReplyTyped
<1>5. LifeTyped' /\ ConnTyped'
  <2> USE DEF BodyInv, LifeTyped, ConnTyped, Stages, Tasks, Users, conn, flags
  <2>1. ASSUME NEW u \in Users, StartServer(u) PROVE LifeTyped' /\ ConnTyped'
    BY <2>1 DEF StartServer, StartFailed
  <2>2. CASE ServerStarted
    BY <2>2 DEF ServerStarted
  <2>3. CASE StopServer
    BY <2>3 DEF StopServer
  <2>4. CASE ShutdownClient
    BY <2>4 DEF ShutdownClient
  <2>5. CASE StopCompletes
    BY <2>5 DEF StopCompletes
  <2>6. CASE StopTimesOut
    BY <2>6 DEF StopTimesOut, StateAfterTimeout, PoolAfterTimeout
  <2>7. CASE AppAcquires \/ AppReleases
    BY <2>7 DEF AppAcquires, AppReleases
  <2> QED BY <2>1, <2>2, <2>3, <2>4, <2>5, <2>6, <2>7 DEF MainNext
<1> QED BY <1>3, <1>4, <1>5 DEF BodyInv

\* The connection: only a request that is read brings new numbers.
LEMMA ConnectionKeepsBody ==
  ASSUME BodyInv,
         SelectTimesOut \/ ListenerFails \/ Accept \/ Publish \/ ReadFails \/ CloseClient
         \/ PeerCloses
  PROVE  BodyInv'
<1>1. UNCHANGED <<unread, length, written, closeFailed, owed, op, head, keepAlive, peerGone, resp>>
  BY DEF SelectTimesOut, ListenerFails, Accept, Publish, ReadFails, CloseClient, PeerCloses,
         TaskExits, request, response, onCard
<1>2. UNCHANGED life
  BY DEF SelectTimesOut, ListenerFails, Accept, Publish, ReadFails, CloseClient, PeerCloses, TaskAt
<1>3. task' \in Tasks /\ (task' \in {"handle", "body"} => task' = task)
  BY DEF SelectTimesOut, ListenerFails, Accept, Publish, ReadFails, CloseClient, PeerCloses,
         TaskExits, Tasks, BodyInv, ConnTyped
<1>4. Counts' /\ BodyCounted'
  BY <1>1, <1>3, CountsStay DEF BodyInv, Counts
<1>5. LifeTyped' /\ ReplyTyped'
  BY <1>1, <1>2 DEF BodyInv, LifeTyped, ReplyTyped, life
<1>6. ConnTyped'
  <2>1. socket' \in {"none", "open", "shut"} /\ stopReq' = stopReq
    BY DEF SelectTimesOut, ListenerFails, Accept, Publish, ReadFails, CloseClient, PeerCloses,
           TaskExits, TaskAt, flags, conn, BodyInv, ConnTyped
  <2>2. published' \in BOOLEAN /\ peerUp' \in BOOLEAN /\ exited' \in BOOLEAN
    BY DEF SelectTimesOut, ListenerFails, Accept, Publish, ReadFails, CloseClient, PeerCloses,
           TaskExits, flags, conn, BodyInv, ConnTyped
  <2> QED BY <1>3, <2>1, <2>2 DEF BodyInv, ConnTyped
<1> QED BY <1>4, <1>5, <1>6 DEF BodyInv

\* What is forgotten of a request is nothing more.
LEMMA ReturnKeepsBody ==
  ASSUME BodyInv, HandlerReturns
  PROVE  BodyInv'
<1>1. /\ op' = "answer" /\ head' = FALSE /\ unread' = 0 /\ length' = 0
      /\ keepAlive' = TRUE /\ peerGone' = FALSE /\ resp' = "none" /\ owed' = 0
      /\ written' = 0 /\ closeFailed' = FALSE
  BY DEF HandlerReturns, Forget
<1>2. UNCHANGED <<life, stopReq, exited, conn>> /\ task' \in {"read", "close"}
  BY DEF HandlerReturns, TaskAt
<1>3. Counts' /\ BodyCounted'
  BY <1>1, <1>2, BodyAssumption DEF Counts, BodyCounted
<1>4. ReplyTyped'
  BY <1>1 DEF ReplyTyped
<1>5. LifeTyped' /\ ConnTyped'
  BY <1>2 DEF BodyInv, LifeTyped, ConnTyped, Tasks, life, conn
<1> QED BY <1>3, <1>4, <1>5 DEF BodyInv

LEMMA RequestKeepsBody ==
  ASSUME BodyInv, NEW what \in {"answer", "list", "file", "put"}, NEW h \in BOOLEAN,
         NEW n \in 0..BodyMax, NEW ka \in BOOLEAN, ReadRequest(what, h, n, ka)
  PROVE  BodyInv'
<1>1. /\ op' = what /\ unread' = n /\ length' = n /\ resp' = "none" /\ owed' = 0
      /\ task' = "handle" /\ written' = written /\ closeFailed' = closeFailed
  BY DEF ReadRequest, onCard
<1>2. head' = h /\ keepAlive' = ka /\ peerGone' = FALSE
  BY DEF ReadRequest
<1>3. UNCHANGED <<life, stopReq, exited, conn>>
  BY DEF ReadRequest, TaskAt
<1>4. Counts' /\ BodyCounted'
  BY <1>1, BodyAssumption DEF BodyInv, Counts, BodyCounted
<1>5. ReplyTyped'
  BY <1>1, <1>2 DEF BodyInv, ReplyTyped
<1>6. LifeTyped' /\ ConnTyped'
  BY <1>1, <1>3 DEF BodyInv, LifeTyped, ConnTyped, Tasks, life, conn
<1> QED BY <1>4, <1>5, <1>6 DEF BodyInv

\* What every step of a handler leaves alone.
LEMMA HandlerKeepsTypes ==
  ASSUME BodyInv, NEW at, Handling(at), task' \in Tasks,
         keepAlive' \in BOOLEAN, peerGone' \in BOOLEAN, resp' \in {"none", "started", "done"},
         closeFailed' \in BOOLEAN
  PROVE  LifeTyped' /\ ConnTyped' /\ ReplyTyped' /\ length' = length /\ task = at
<1>1. UNCHANGED <<life, stopReq, exited, conn, op, head, length>> /\ task = at
  BY DEF Handling, TaskAt
<1>2. LifeTyped' /\ ConnTyped'
  BY <1>1 DEF BodyInv, LifeTyped, ConnTyped, life, conn
<1>3. ReplyTyped'
  BY <1>1 DEF BodyInv, ReplyTyped
<1> QED BY <1>1, <1>2, <1>3

LEMMA RespondIs ==
  ASSUME BodyInv, Respond
  PROVE  peerGone' \in BOOLEAN /\ resp' = "done" /\ owed' = 0 /\ task' = "return"
BY DEF Respond, SendOk, SendFails, BodyInv, ReplyTyped

LEMMA HandlersKeepBody ==
  ASSUME BodyInv,
         \/ HandleAnswer \/ (\E n \in 0..BodyMax : StartResponse(n)) \/ StreamWrite \/ StreamEnds
         \/ PutOpens \/ PutReceives \/ PutWriteFails \/ PutReceiveFails \/ PutCompletes
  PROVE  BodyInv'
<1>0. BodyMax \in Nat \ {0} /\ keepAlive \in BOOLEAN /\ peerGone \in BOOLEAN /\ task \in Tasks
      /\ resp \in {"none", "started", "done"} /\ closeFailed \in BOOLEAN /\ Counts /\ BodyCounted
  BY BodyAssumption DEF BodyInv, ConnTyped, ReplyTyped
<1>a. "return" \in Tasks /\ "stream" \in Tasks /\ "body" \in Tasks /\ 0 \in 0..BodyMax
  BY <1>0 DEF Tasks
<1>1. CASE HandleAnswer
  <2>1. Handling("handle") /\ Respond /\ UNCHANGED <<keepAlive, unread, written, closeFailed>>
    BY <1>1 DEF HandleAnswer, onCard
  <2>2. LifeTyped' /\ ConnTyped' /\ ReplyTyped' /\ length' = length
    BY <1>0, <1>a, <2>1, RespondIs, HandlerKeepsTypes
  <2> QED BY <1>a, <2>1, <2>2, RespondIs, CountsStay DEF BodyInv
<1>2. ASSUME NEW n \in 0..BodyMax, StartResponse(n) PROVE BodyInv'
  <2>1. Handling("handle") /\ UNCHANGED <<unread, written, closeFailed>> /\ task' \in {"stream", "return"}
        /\ owed' \in {owed, 0, 1, n} /\ resp' \in {resp, "started", "done"}
    BY <1>2 DEF StartResponse, onCard
  <2>2. keepAlive' \in BOOLEAN
    BY <1>0, <1>2 DEF StartResponse
  <2>3. peerGone' \in BOOLEAN
    BY <1>0, <1>2 DEF StartResponse, SendOk, SendFails
  <2>4. LifeTyped' /\ ConnTyped' /\ ReplyTyped' /\ length' = length
    BY <1>0, <1>a, <2>1, <2>2, <2>3, HandlerKeepsTypes
  <2>5. owed' \in 0..BodyMax
    BY <1>0, <2>1 DEF Counts
  <2> QED BY <2>1, <2>4, <2>5, CountsStay DEF BodyInv
<1>3. CASE StreamWrite
  <2>1. Handling("stream") /\ UNCHANGED <<keepAlive, unread, written, closeFailed>> /\ task' \in {task, "return"}
        /\ (owed' = owed \/ (owed > 0 /\ owed' = owed - 1)) /\ resp' \in {resp, "done"}
    BY <1>3 DEF StreamWrite, onCard
  <2>2. peerGone' \in BOOLEAN
    BY <1>0, <1>3 DEF StreamWrite, SendOk, SendFails
  <2>3. LifeTyped' /\ ConnTyped' /\ ReplyTyped' /\ length' = length
    BY <1>0, <1>a, <2>1, <2>2, HandlerKeepsTypes
  <2>4. owed' \in 0..BodyMax
    BY <1>0, <2>1 DEF Counts
  <2> QED BY <2>1, <2>3, <2>4, CountsStay DEF BodyInv
<1>4. CASE StreamEnds
  <2>1. Handling("stream") /\ UNCHANGED <<keepAlive, unread, written, closeFailed>> /\ task' = "return"
        /\ owed' \in {owed, 0} /\ resp' = "done" /\ peerGone' = peerGone
    BY <1>4 DEF StreamEnds, SendOk, onCard
  <2>2. LifeTyped' /\ ConnTyped' /\ ReplyTyped' /\ length' = length
    BY <1>0, <1>a, <2>1, HandlerKeepsTypes
  <2>3. owed' \in 0..BodyMax
    BY <1>0, <2>1 DEF Counts
  <2> QED BY <2>1, <2>2, <2>3, CountsStay DEF BodyInv
<1>5. CASE PutOpens
  <2>1. Handling("handle") /\ UNCHANGED <<keepAlive, peerGone, resp, owed, unread>>
        /\ task' = "body" /\ written' = 0 /\ closeFailed' = FALSE
    BY <1>5 DEF PutOpens
  <2>2. LifeTyped' /\ ConnTyped' /\ ReplyTyped' /\ length' = length /\ task = "handle"
    BY <1>0, <1>a, <2>1, HandlerKeepsTypes
  <2>3. Counts' /\ BodyCounted'
    BY <1>0, <2>1, <2>2 DEF Counts, BodyCounted
  <2> QED BY <2>2, <2>3 DEF BodyInv
<1>6. CASE PutReceives
  <2>1. Handling("body") /\ UNCHANGED <<closeFailed, task, keepAlive, peerGone, resp, owed>>
        /\ unread > 0 /\ unread' = unread - 1 /\ written' = written + 1
    BY <1>6 DEF PutReceives, BodyArrives, LeftAfterBuffer
  <2>2. LifeTyped' /\ ConnTyped' /\ ReplyTyped' /\ length' = length /\ task = "body"
    BY <1>0, <1>a, <2>1, HandlerKeepsTypes
  <2>3. written + unread = length /\ task' = "body"
    BY <1>0, <2>1, <2>2 DEF BodyCounted
  <2>4. Counts' /\ BodyCounted'
    BY <1>0, <2>1, <2>2, <2>3 DEF Counts, BodyCounted
  <2> QED BY <2>2, <2>4 DEF BodyInv
<1>7. CASE PutWriteFails
  <2>1. Handling("body") /\ Respond /\ UNCHANGED <<keepAlive, written, closeFailed>>
        /\ unread > 0 /\ unread' = unread - 1
    BY <1>7 DEF PutWriteFails, onCard, BodyArrives, LeftAfterBuffer, ShortWriteRefused
  <2>2. LifeTyped' /\ ConnTyped' /\ ReplyTyped' /\ length' = length
    BY <1>0, <1>a, <2>1, RespondIs, HandlerKeepsTypes
  <2>3. owed' = 0 /\ task' = "return"
    BY <2>1, RespondIs
  <2>4. Counts' /\ BodyCounted'
    BY <1>0, <2>1, <2>2, <2>3 DEF Counts, BodyCounted
  <2> QED BY <2>2, <2>4 DEF BodyInv
<1>8. CASE PutReceiveFails
  <2>1. Handling("body") /\ Respond /\ UNCHANGED <<unread, written, closeFailed>> /\ keepAlive' = FALSE
    BY <1>8 DEF PutReceiveFails, onCard
  <2>2. LifeTyped' /\ ConnTyped' /\ ReplyTyped' /\ length' = length
    BY <1>0, <1>a, <2>1, RespondIs, HandlerKeepsTypes
  <2> QED BY <1>a, <2>1, <2>2, RespondIs, CountsStay DEF BodyInv
<1>9. CASE PutCompletes
  <2>1. Handling("body") /\ Respond /\ UNCHANGED <<keepAlive, unread>> /\ CloseFile
    BY <1>9 DEF PutCompletes
  <2>2. written \in 0..BodyMax /\ written' \in 0..BodyMax /\ closeFailed' \in BOOLEAN
    <3>1. written \in 0..BodyMax /\ written \in Nat
      BY <1>0 DEF Counts
    <3>2. CASE UNCHANGED onCard
      BY <1>0, <3>1, <3>2 DEF onCard
    <3>3. CASE written' \in 0..(written - 1) /\ closeFailed' = TRUE
      BY <1>0, <3>1, <3>3
    <3> QED BY <2>1, <3>2, <3>3 DEF CloseFile
  <2>3. LifeTyped' /\ ConnTyped' /\ ReplyTyped' /\ length' = length
    BY <1>0, <1>a, <2>1, <2>2, RespondIs, HandlerKeepsTypes
  <2>4. Counts' /\ BodyCounted'
    BY <1>0, <1>a, <2>1, <2>2, <2>3, RespondIs DEF Counts, BodyCounted
  <2> QED BY <2>3, <2>4 DEF BodyInv
<1> QED BY <1>1, <1>2, <1>3, <1>4, <1>5, <1>6, <1>7, <1>8, <1>9

LEMMA StepKeepsBody == BodyInv /\ [HttpNext]_httpVars => BodyInv'
<1> SUFFICES ASSUME BodyInv, [HttpNext]_httpVars PROVE BodyInv'
  OBVIOUS
<1>1. CASE UNCHANGED httpVars
  <2>1. UNCHANGED <<life, flags, task, conn, request, response, onCard>>
    BY <1>1 DEF httpVars
  <2>2. LifeTyped' /\ ConnTyped'
    BY <2>1 DEF life, flags, conn, BodyInv, LifeTyped, ConnTyped
  <2>3. ReplyTyped' /\ Counts' /\ BodyCounted'
    BY <2>1 DEF request, response, onCard, BodyInv, ReplyTyped, Counts, BodyCounted
  <2> QED BY <2>2, <2>3 DEF BodyInv
<1>2. CASE Requests
  BY <1>2, RequestKeepsBody DEF Requests
<1> QED BY <1>1, <1>2, MainKeepsBody, ConnectionKeepsBody, ReturnKeepsBody, HandlersKeepBody
    DEF HttpNext, Arrivals, TaskNext

LEMMA BodyInit == HttpInit => BodyInv
<1> SUFFICES ASSUME HttpInit PROVE BodyInv
  OBVIOUS
<1>1. LifeTyped /\ ConnTyped
  BY DEF HttpInit, LifeTyped, ConnTyped, Stages, Tasks
<1>2. ReplyTyped
  BY DEF HttpInit, ReplyTyped
<1>3. unread = 0 /\ length = 0 /\ owed = 0 /\ written = 0 /\ task = "none"
  BY DEF HttpInit
<1>4. Counts /\ BodyCounted
  BY <1>3, BodyAssumption DEF Counts, BodyCounted
<1> QED BY <1>1, <1>2, <1>4 DEF BodyInv

LEMMA BodyAlways == HttpSpec => []BodyInv
BY BodyInit, StepKeepsBody, PTL DEF HttpSpec

LEMMA TypesOfBody == BodyInv => HttpTypeOK
BY DEF BodyInv, LifeTyped, ConnTyped, ReplyTyped, Counts, HttpTypeOK, Stages, Tasks

\* Every variable of jpp_http_server_core.c and of its two users keeps its type,
\* and no body is counted past its length.
THEOREM HttpTypeCorrect == HttpSpec => []HttpTypeOK
BY TypesOfBody, BodyAlways, PTL

\* handle_put (jpp_fileserver_core.c): a client that is told of success sent all
\* of its file and all of it was written, whatever was lost, refused or stopped on
\* the way; only the closing of the file, whose result is not looked at, may lose
\* any of it.
THEOREM CreatedFilesAreWhole == HttpSpec => CreatedIsStored
<1>1. BodyInv /\ [HttpNext]_httpVars =>
        [(task = "body" /\ unread = 0 /\ resp' = "done" /\ ~peerGone')
         => written = length /\ (written' = length \/ closeFailed')]_httpVars
  <2> SUFFICES ASSUME BodyInv, HttpNext, task = "body", unread = 0, resp' = "done", ~peerGone'
               PROVE  written = length /\ (written' = length \/ closeFailed')
    OBVIOUS
  <2>1. written = length
    BY BodyAssumption DEF BodyInv, Counts, BodyCounted
  <2>2. written' = written \/ closeFailed'
    <3>1. CASE MainNext \/ AppAcquires \/ AppReleases
      BY <3>1 DEF MainNext, AppAcquires, AppReleases, StartServer, ServerStarted, StopServer,
                  ShutdownClient, StopCompletes, StopTimesOut, onCard
    <3>2. CASE Arrivals \/ PeerCloses
      BY <2>1, <3>2 DEF Arrivals, Accept, Requests, ReadRequest, PutReceives, PutWriteFails,
                  ListenerFails, PeerCloses, BodyArrives, TaskAt, TaskExits, onCard
    <3>3. CASE TaskNext
      BY <3>3 DEF TaskNext, SelectTimesOut, Publish, ReadFails, CloseClient, HandleAnswer,
                  StartResponse, StreamWrite, StreamEnds, PutOpens, PutReceiveFails, PutCompletes,
                  CloseFile, HandlerReturns, Handling, TaskAt, onCard
    <3> QED BY <3>1, <3>2, <3>3 DEF HttpNext
  <2> QED BY <2>1, <2>2
<1> QED BY <1>1, BodyAlways, PTL DEF HttpSpec, CreatedIsStored
=============================================================================
