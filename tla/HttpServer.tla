----------------------------- MODULE HttpServer -----------------------------
(***************************************************************************)
(* The HTTP server of jpp_http_server_core.c with its two users, the       *)
(* WebDAV file server (jpp_fileserver_core.c) and the LRV page server      *)
(* (jpp_lrv_server.c).  The main loop starts and stops it; the server task *)
(* accepts one connection at a time and runs the handlers; both live on    *)
(* memory of the app pool, which an SD app may hold instead.               *)
(*                                                                         *)
(* Every step of the server task ends in a socket or card call that may    *)
(* wait, so the main loop may run between any two of them.  Bodies are     *)
(* counted in buffers, not bytes.                                          *)
(***************************************************************************)
EXTENDS Naturals

CONSTANT BodyMax   \* bound: buffers in a request body or a file

ASSUME BodyAssumption == BodyMax \in Nat \ {0}

Users == {"webdav", "lrv"}

VARIABLES loop,       \* where the main loop is in a start or a stop
          fsState,    \* s_fs.state of the file server
          lrv,        \* s_running of the LRV server
          pool,       \* who holds the app pool
          running,    \* s_srv.running
          stopReq,    \* s_srv.stop_req
          exited,     \* s_srv.task_exited
          task,       \* where the server task is
          socket,     \* the accepted socket: none, open, or shut down by stop
          published,  \* s_srv.client_sock refers to it
          peerUp,     \* the client is still connected
          op,         \* what the handler of the request does
          head,       \* conn->suppress_body
          keepAlive,  \* conn->keep_alive
          unread,     \* content_len - body_read
          peerGone,   \* conn->peer_gone
          resp,       \* the response: none, started or done
          owed,       \* what the announced response body still lacks
          length,     \* content_len of a PUT
          written,    \* buffers of it in the file
          closeFailed \* closing the file lost some of them

life == <<loop, fsState, lrv, pool, running>>
flags == <<stopReq, exited>>
conn == <<socket, published, peerUp>>
request == <<op, head, unread, length>>
response == <<keepAlive, peerGone, resp, owed>>
onCard == <<written, closeFailed>>
httpVars == <<life, flags, task, conn, request, response, onCard>>

HttpInit == /\ loop = "idle" /\ fsState = "STOPPED" /\ lrv = FALSE /\ pool = "free"
        /\ running = FALSE /\ stopReq = FALSE /\ exited = FALSE
        /\ task = "none" /\ socket = "none" /\ published = FALSE /\ peerUp = FALSE
        /\ op = "answer" /\ head = FALSE /\ unread = 0 /\ length = 0
        /\ keepAlive = TRUE /\ peerGone = FALSE /\ resp = "none" /\ owed = 0
        /\ written = 0 /\ closeFailed = FALSE

-----------------------------------------------------------------------------
(* Start and stop, called by the main loop.                                *)

\* jpp_fileserver_start, jpp_lrv_server_start: the LRV server yields to the
\* file server; a user that runs already is left alone.
MayStart(u) == fsState # "RUNNING" /\ (u = "lrv" => ~lrv)

StartFailed(u) == fsState' = IF u = "webdav" THEN "ERROR" ELSE fsState

\* jpp_http_server_start up to the creation of the task, which preempts the
\* main loop before s_srv.running is set.  Memory, socket or task may fail.
StartServer(u) ==
  /\ loop = "idle" /\ MayStart(u)
  /\ \/ /\ running \/ pool # "free"
        /\ StartFailed(u) /\ UNCHANGED <<loop, pool, task, flags>>
     \/ /\ ~running /\ pool = "free"
        /\ StartFailed(u) /\ stopReq' = FALSE /\ exited' = FALSE
        /\ UNCHANGED <<loop, pool, task>>
     \/ /\ ~running /\ pool = "free"
        /\ loop' = "started" /\ pool' = u /\ task' = "select"
        /\ stopReq' = FALSE /\ exited' = FALSE /\ UNCHANGED fsState
  /\ UNCHANGED <<lrv, running, conn, request, response, onCard>>

ServerStarted ==
  /\ loop = "started" /\ loop' = "idle" /\ running' = TRUE
  /\ fsState' = IF pool = "webdav" THEN "RUNNING" ELSE fsState
  /\ lrv' = (lrv \/ pool = "lrv")
  /\ UNCHANGED <<pool, flags, task, conn, request, response, onCard>>

\* jpp_fileserver_stop or jpp_lrv_server_stop calls jpp_http_server_stop.
StopServer ==
  /\ loop = "idle" /\ (fsState = "RUNNING" \/ lrv)
  /\ loop' = "shutdown" /\ stopReq' = TRUE
  /\ UNCHANGED <<fsState, lrv, pool, running, exited, task, conn, request, response, onCard>>

\* Under sock_mtx: a connection parked in recv or send is unblocked.
ShutdownClient ==
  /\ loop = "shutdown" /\ loop' = "wait"
  /\ socket' = IF published THEN "shut" ELSE socket
  /\ UNCHANGED <<fsState, lrv, pool, running, flags, task, published, peerUp, request, response, onCard>>

\* The task is deleted, its sockets closed and the pool released.
StopCompletes ==
  /\ loop = "wait" /\ exited
  /\ loop' = "idle" /\ running' = FALSE /\ pool' = "free"
  /\ task' = "none" /\ socket' = "none" /\ published' = FALSE
  /\ fsState' = IF fsState = "RUNNING" THEN "STOPPED" ELSE fsState
  /\ lrv' = IF fsState = "RUNNING" THEN lrv ELSE FALSE
  /\ UNCHANGED <<flags, peerUp, request, response, onCard>>

StateAfterTimeout == fsState

PoolFreed == "free"
PoolAfterTimeout == pool

\* STOP_WAIT_MS have passed: the server stays marked as running.
StopTimesOut ==
  /\ loop = "wait" /\ ~exited
  /\ loop' = "idle" /\ fsState' = StateAfterTimeout /\ pool' = PoolAfterTimeout
  /\ UNCHANGED <<lrv, running, flags, task, conn, request, response, onCard>>

\* An SD app holds the pool between jpp_app_pool_acquire and its release.
AppAcquires ==
  /\ pool = "free" /\ pool' = "app"
  /\ UNCHANGED <<loop, fsState, lrv, running, flags, task, conn, request, response, onCard>>

AppReleases ==
  /\ pool = "app" /\ pool' = "free"
  /\ UNCHANGED <<loop, fsState, lrv, running, flags, task, conn, request, response, onCard>>

-----------------------------------------------------------------------------
(* The server task: the connection.                                        *)

TaskAt(at) == task = at /\ UNCHANGED <<life, stopReq>>

\* The task suspends itself, to be deleted by the stopper.
TaskExits == task' = "exited" /\ exited' = TRUE /\ UNCHANGED <<conn, request, response, onCard>>

\* The head of the accept loop, reached again after a slice of waiting.
SelectTimesOut == TaskAt("select") /\ stopReq /\ TaskExits

\* select or accept failed: the loop is left, the server stays marked running.
ListenerFails == TaskAt("select") /\ TaskExits

Accept ==
  /\ TaskAt("select") /\ task' = "accepted" /\ socket' = "open" /\ peerUp' = TRUE
  /\ UNCHANGED <<exited, published, request, response, onCard>>

\* sock_publish, and the head of serve_conn.
Publish ==
  /\ TaskAt("accepted") /\ published' = TRUE
  /\ task' = IF stopReq THEN "close" ELSE "read"
  /\ UNCHANGED <<exited, socket, peerUp, request, response, onCard>>

\* read_request gives up: the server stops, the client closed, stayed idle or
\* sent a header block that does not fit.
ReadFails ==
  /\ TaskAt("read") /\ task' = "close"
  /\ UNCHANGED <<exited, conn, request, response, onCard>>

\* read_request and reset_response.  The handler is webdav_dispatch or
\* lrv_dispatch: a fixed answer (OPTIONS, DELETE, MOVE, MKCOL, a refusal), a
\* chunked listing or page, a file of known length, or the receipt of one.
ReadRequest(what, h, n, ka) ==
  /\ TaskAt("read")
  /\ what \in {"file", "put"} => pool = "webdav"
  /\ h => what \in {"answer", "list", "file"}
  /\ op' = what /\ head' = h /\ unread' = n /\ length' = n /\ keepAlive' = ka
  /\ peerGone' = FALSE /\ resp' = "none" /\ owed' = 0
  /\ task' = "handle"
  /\ UNCHANGED <<exited, conn, onCard>>

\* sock_close_client, and back to the accept loop.
CloseClient ==
  /\ TaskAt("close") /\ socket' = "none" /\ published' = FALSE
  /\ exited' = stopReq /\ task' = IF stopReq THEN "exited" ELSE "select"
  /\ UNCHANGED <<peerUp, request, response, onCard>>

PeerCloses ==
  /\ peerUp /\ socket # "none" /\ peerUp' = FALSE
  /\ UNCHANGED <<life, flags, task, socket, published, request, response, onCard>>

-----------------------------------------------------------------------------
(* The server task: the handlers.                                          *)

\* send_all: fails when the server stops or the client stops reading.
SendOk == ~stopReq /\ ~peerGone /\ socket = "open" /\ UNCHANGED peerGone
SendFails == peerGone' = TRUE

Handling(at) == TaskAt(at) /\ UNCHANGED <<exited, conn, op, head, length>>

\* jpp_http_resp_send: the response is over whether or not it was sent.
Respond == /\ SendOk \/ SendFails
          /\ resp' = "done" /\ owed' = 0 /\ task' = "return"

\* A fixed answer, or a refusal of any request.
HandleAnswer ==
  /\ Handling("handle") /\ Respond
  /\ UNCHANGED <<keepAlive, unread, onCard>>

\* start_response.  A chunked response to HEAD cannot be delimited; one that
\* cannot be started is over for a listing, not begun for a file.
StartResponse(n) ==
  /\ Handling("handle") /\ op \in {"list", "file"}
  /\ \/ /\ SendOk /\ resp' = "started" /\ task' = "stream"
        /\ owed' = IF head THEN 0 ELSE IF op = "list" THEN 1 ELSE n
        /\ keepAlive' = (keepAlive /\ ~(op = "list" /\ head))
     \/ /\ SendFails /\ task' = "return" /\ UNCHANGED <<keepAlive, owed>>
        /\ resp' = IF op = "list" THEN "done" ELSE resp
  /\ UNCHANGED <<unread, onCard>>

\* One chunk of a listing or one buffer of a file.
StreamWrite ==
  /\ Handling("stream") /\ UNCHANGED <<keepAlive, unread, onCard>>
  /\ \/ /\ op = "file" /\ owed > 0 /\ SendOk
        /\ owed' = owed - 1 /\ UNCHANGED <<task, resp>>
     \/ /\ SendFails /\ task' = "return" /\ UNCHANGED owed
        /\ resp' = IF op = "file" THEN "done" ELSE resp

\* The end of a listing, of a file, or of what could be read of a file.
StreamEnds ==
  /\ Handling("stream") /\ task' = "return" /\ resp' = "done"
  /\ \/ op = "list" /\ SendOk /\ owed' = 0
     \/ op = "file" /\ UNCHANGED <<owed, peerGone>>
  /\ UNCHANGED <<keepAlive, unread, onCard>>

\* handle_put creates or empties the file, then takes the body.
PutOpens ==
  /\ Handling("handle") /\ op = "put" /\ task' = "body"
  /\ written' = 0 /\ closeFailed' = FALSE
  /\ UNCHANGED <<keepAlive, peerGone, resp, owed, unread>>

LeftAfterBuffer == unread - 1

\* jpp_http_recv.  What is on its way may still arrive once a stop is requested.
BodyArrives == unread > 0 /\ unread' = LeftAfterBuffer

PutReceives ==
  /\ Handling("body") /\ BodyArrives /\ written' = written + 1
  /\ UNCHANGED <<closeFailed, task, keepAlive, peerGone, resp, owed>>

ShortWriteIgnored == task' = task /\ UNCHANGED <<peerGone, resp, owed>>
ShortWriteRefused == Respond

\* The card refuses the buffer: the file is removed, the connection kept.
PutWriteFails ==
  /\ Handling("body") /\ BodyArrives /\ ShortWriteRefused
  /\ UNCHANGED <<keepAlive, onCard>>

RecvIgnoresStop == ~peerUp
RecvFails == stopReq \/ socket = "shut" \/ ~peerUp

\* The connection broke: the file is removed and the connection not kept.
PutReceiveFails ==
  /\ Handling("body") /\ unread > 0 /\ RecvFails
  /\ keepAlive' = FALSE /\ Respond /\ UNCHANGED <<unread, onCard>>

\* Nobody looks at the result of close: what was not on the card yet is lost.
CloseFile == \/ UNCHANGED onCard
             \/ written' \in 0..(written - 1) /\ closeFailed' = TRUE

PutCompletes ==
  /\ Handling("body") /\ unread = 0 /\ CloseFile /\ Respond /\ UNCHANGED <<keepAlive, unread>>

KeepConnection == resp = "done" /\ ~peerGone /\ keepAlive /\ unread = 0

\* What was known of a request is not looked at again: the next one overwrites it.
Forget == /\ op' = "answer" /\ head' = FALSE /\ unread' = 0 /\ length' = 0
          /\ keepAlive' = TRUE /\ peerGone' = FALSE /\ resp' = "none" /\ owed' = 0
          /\ written' = 0 /\ closeFailed' = FALSE

\* The tail of serve_conn.  A client that vanished is dropped, as is one whose
\* request body was not read; the head of the loop looks at stop_req.  Every
\* handler has answered or lost its client, so the "No response" answer to one
\* that did neither is left out.
HandlerReturns ==
  /\ TaskAt("return")
  /\ task' = IF KeepConnection /\ ~stopReq THEN "read" ELSE "close"
  /\ Forget /\ UNCHANGED <<exited, conn>>

-----------------------------------------------------------------------------
MainNext == \/ \E u \in Users : StartServer(u)
            \/ ServerStarted \/ StopServer \/ ShutdownClient
            \/ StopCompletes \/ StopTimesOut

Requests == \E what \in {"answer", "list", "file", "put"}, h \in BOOLEAN,
               n \in 0..BodyMax, ka \in BOOLEAN : ReadRequest(what, h, n, ka)

\* What the server task meets from outside: connections, requests, their bodies.
Arrivals == Accept \/ Requests \/ PutReceives \/ PutWriteFails \/ ListenerFails

\* What it does on its own, once its waits have timed out.
TaskNext == \/ SelectTimesOut \/ Publish \/ ReadFails \/ CloseClient
            \/ HandleAnswer \/ (\E n \in 0..BodyMax : StartResponse(n))
            \/ StreamWrite \/ StreamEnds \/ PutOpens
            \/ PutReceiveFails \/ PutCompletes \/ HandlerReturns

HttpNext == \/ MainNext \/ AppAcquires \/ AppReleases
            \/ Arrivals \/ PeerCloses \/ TaskNext

\* The server task is scheduled and its waits are bounded; a body need not
\* arrive.  A stop that was begun goes on.
HttpSpec == /\ HttpInit /\ [][HttpNext]_httpVars
            /\ WF_httpVars(TaskNext)
            /\ WF_httpVars(ShutdownClient) /\ WF_httpVars(StopCompletes) /\ WF_httpVars(ServerStarted)

-----------------------------------------------------------------------------
HttpTypeOK ==
  /\ loop \in {"idle", "started", "shutdown", "wait"}
  /\ fsState \in {"STOPPED", "RUNNING", "ERROR"} /\ lrv \in BOOLEAN
  /\ pool \in {"free", "app"} \cup Users /\ running \in BOOLEAN
  /\ stopReq \in BOOLEAN /\ exited \in BOOLEAN
  /\ task \in {"none", "select", "accepted", "read", "handle", "stream", "body",
               "return", "close", "exited"}
  /\ socket \in {"none", "open", "shut"} /\ published \in BOOLEAN /\ peerUp \in BOOLEAN
  /\ op \in {"answer", "list", "file", "put"} /\ head \in BOOLEAN
  /\ keepAlive \in BOOLEAN /\ unread \in 0..BodyMax /\ length \in 0..BodyMax
  /\ peerGone \in BOOLEAN /\ resp \in {"none", "started", "done"}
  /\ owed \in 0..BodyMax /\ written \in 0..BodyMax /\ closeFailed \in BOOLEAN

TaskOwnsPool == task # "none" => pool \in Users

UsersAgree == loop = "idle" => /\ fsState = "RUNNING" <=> pool = "webdav"
                               /\ lrv <=> pool = "lrv"
                               /\ running <=> pool \in Users

\* The server task's stack and buffers are pool memory: as long as the task
\* exists the pool is not free and no app has it.  What the two users believe
\* agrees with the one server there is: one is marked as running exactly while
\* the server holds the pool in its name, also after a stop that timed out.
OwnersAgree == TaskOwnsPool /\ UsersAgree

\* A client told that its file was created finds all of it on the card, unless
\* the file could not be closed: that handle_put tells nobody.
CreatedIsStored ==
  [][ (task = "body" /\ unread = 0 /\ resp' = "done" /\ ~peerGone')
      => written = length /\ (written' = length \/ closeFailed') ]_httpVars

\* A server asked to stop does: no stalled client holds its task for ever.
StopTakesEffect == stopReq ~> exited
=============================================================================
