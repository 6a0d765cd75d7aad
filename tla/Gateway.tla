------------------------------ MODULE Gateway ------------------------------
(***************************************************************************)
(* The server as its clients see it: GetRouter with its middlewares, all   *)
(* handlers, the service and MemStorage (internal/handler/handlers.go,     *)
(* handler/middleware, service/metrics.go, repository/memstorage.go).      *)
(*                                                                         *)
(* Agents send updates with their keys, other programs send whatever they  *)
(* send, readers ask for values, for the page and for a ping.  Every       *)
(* request has a goroutine of its own.  A read lists pointers to the live  *)
(* metrics under ms.mutex and reads their values after releasing it, while *)
(* a batch may be half applied.                                            *)
(***************************************************************************)
EXTENDS MemStorage, Wire, SequencesExt

CONSTANTS
  ID,            \* ranks of metric names
  Agent, Program, Reader,   \* the clients
  Singles,       \* metrics an agent sends alone
  Batches,       \* metric sequences an agent sends
  Posts,         \* requests of other programs
  Questions,     \* [route, id, mtype, accepts] of the readers
  Keys,          \* the keys agent and server may be configured with
  Nobody,        \* ms.mutex is free
  RequestLimit   \* bound: requests

ASSUME GatewayAssumption ==
  /\ ID \subseteq Nat \ {0}
  /\ Agent \cap (Program \cup Reader) = {}
  /\ Singles \subseteq Metrics(ID) /\ Batches \subseteq Seq(Metrics(ID))
  /\ \A m \in Singles \cup UNION {ToSet(b) : b \in Batches} : WellFormed(m)
  /\ Posts \subseteq Requests(Seq(Metrics(ID)))
  /\ \A r \in Posts : /\ r.route = "update_by_path" => r.path # << >>
                      /\ r.body.form = "object" => r.body.content # << >>
  /\ Questions \subseteq [route : {"page", "ping", "value", "plain_value"}, id : Nat,
                          mtype : {Counter, Gauge, Other}, accepts : BOOLEAN]
  /\ Keys \subseteq [agent : [secret : KeyName, public : KeyName],
                     server : [secret : KeyName, private : KeyName]]
  /\ RequestLimit \in Nat

VARIABLES
  keys,      \* the configuration of agent and server
  data,      \* MemStorage.data
  mutex,     \* the client whose batch holds ms.mutex
  exchange,  \* of every client: the request and what became of it
  \* history
  since,     \* what each reader's metrics have been since its last request
  requests

vars == <<keys, data, mutex, exchange, since, requests>>

Client == Agent \cup Program \cup Reader

BlankID == 0

(* sent is the request as the client made it, request what has become of   *)
(* it, unpacked that a proxy changed it; todo is what a batch has to       *)
(* apply, listing the metrics a reader has to render, rows what was        *)
(* rendered.                                                               *)
Exchange(pc, request, accepts) ==
  [pc |-> pc, sent |-> request, request |-> request, accepts |-> accepts,
   unpacked |-> FALSE, todo |-> << >>, listing |-> << >>, rows |-> << >>,
   response |-> NewResponseWriter(FALSE)]

NoRequest ==
  [route |-> "none", path |-> << >>, encoding |-> "identity", signature |-> {},
   body |-> NoBody]

Init ==
  /\ keys \in Keys
  /\ data = Empty(ID) /\ mutex = Nobody
  /\ exchange = [c \in Client |-> Exchange("idle", NoRequest, FALSE)]
  /\ since = [r \in Reader |-> [id \in ID |-> {}]]
  /\ requests = 0

Set(c, x) == exchange' = [exchange EXCEPT ![c] = x]

-----------------------------------------------------------------------------
(* The clients.                                                            *)

Ended(c) == exchange[c].pc \in {"idle", "answered", "aborted"}

Dispatch(c, request, accepts) ==
  /\ Ended(c) /\ requests < RequestLimit
  /\ Set(c, Exchange("sent", request, accepts))
  /\ since' = [r \in Reader |-> IF r = c THEN [id \in ID |-> {data[id]}]
                                        ELSE since[r]]
  /\ requests' = requests + 1
  /\ UNCHANGED <<keys, data, mutex>>

(* json.Marshal refuses NaN before a request is made.  Go's http.Transport *)
(* accepts gzip.                                                           *)
SendUpdate(c) ==
  \/ \E m \in Singles :
       \/ Dispatch(c, SendMetricValue(keys.agent, m), TRUE)
       \/ m.Val # NaN /\ Dispatch(c, SendMetric(keys.agent, m), TRUE)
  \/ \E metrics \in Batches : Dispatch(c, SendMetricArray(keys.agent, metrics), TRUE)

Post(c) == \E request \in Posts : Dispatch(c, request, FALSE)

Ask(c) ==
  \E q \in Questions :
    LET metric == <<[ID |-> q.id, MType |-> q.mtype, Val |-> Nil]>>
    IN  Dispatch(c, IF q.route = "value"
                      THEN [NoRequest EXCEPT !.route = q.route,
                                             !.body = Body("object", metric)]
                      ELSE [NoRequest EXCEPT !.route = q.route, !.path = metric],
                 q.accepts)

(* A proxy on the way unpacks the body.                                    *)
Unpack(c) ==
  LET x == exchange[c]
  IN  /\ x.pc = "sent" /\ Outermost(x.request.body) = "gzip"
      /\ Set(c, [x EXCEPT !.request.body = Unwrap(@),
                          !.request.encoding = "identity", !.unpacked = TRUE])
      /\ UNCHANGED <<keys, data, mutex, since, requests>>

-----------------------------------------------------------------------------
(* The server.                                                             *)

Answer(c, response) ==
  Set(c, [exchange[c] EXCEPT !.pc = "answered", !.response = response])

(* The middlewares.  A response that is made before Compressing has        *)
(* created its writer is not compressed.                                   *)
Serve(c) ==
  LET x       == exchange[c]
      arrival == Chain(keys.server, x.request)
      w       == NewResponseWriter(x.accepts /\ arrival.by \in {"decryption", "handler"})
  IN  /\ x.pc = "sent"
      /\ CASE arrival.code = 0 ->
                Set(c, [x EXCEPT !.pc = "handle", !.request = arrival.request,
                                 !.response = w])
           [] arrival.code = 401 -> Answer(c, RespondEmpty(w, 401))
           [] OTHER              -> Answer(c, RespondError(w, arrival.code))
      /\ UNCHANGED <<keys, data, mutex, since, requests>>

Handles(c, routes) ==
  exchange[c].pc = "handle" /\ exchange[c].request.route \in routes

Writer(c) == exchange[c].response

(* What json.Unmarshal or the path gives.  The layers that the middlewares *)
(* left are not understood: an envelope is an object without id and type.  *)
Understood(c) ==
  LET request == exchange[c].request
  IN  CASE request.route \in {"update", "value"} -> Outermost(request.body) = "object"
        [] request.route = "updates"             -> Outermost(request.body) = "array"
        [] OTHER                                 -> TRUE

Carried(request) ==
  IF request.route \in {"update_by_path", "plain_value"} THEN request.path
                                                         ELSE request.body.content

(* getMetric's first checks.                                               *)
Answerable(m) == m.ID # BlankID /\ m.MType \in {Counter, Gauge}

Valid(c) ==
  LET request == exchange[c].request
      metrics == Carried(request)
  IN  /\ Understood(c)
      /\ request.route \in {"update_by_path", "update"} => WellFormed(metrics[1])
      /\ request.route \in {"value", "plain_value"} => Answerable(metrics[1])

(* A JSON null in the place of a metric: a nil pointer.                    *)
HasNilMetric(request) ==
  \/ request.route \in {"update", "value"} /\ Outermost(request.body) = "null"
  \/ request.route = "updates" /\ Outermost(request.body) = "array_of_null"

RefuseInvalid(c) ==
  /\ exchange[c].pc = "handle" /\ ~ Valid(c) /\ ~ HasNilMetric(exchange[c].request)
  /\ Answer(c, RespondError(Writer(c), 400))
  /\ UNCHANGED <<keys, data, mutex, since, requests>>

(* Faulty variant: BatchUpdate unlocks at its end only.                    *)
Panic_KeepsLock(c) ==
  /\ exchange[c].pc = "handle" /\ HasNilMetric(exchange[c].request)
  /\ exchange[c].request.route = "updates" => mutex = Nobody
  /\ Set(c, [exchange[c] EXCEPT !.pc = "aborted"])
  /\ mutex' = IF exchange[c].request.route = "updates" THEN c ELSE mutex
  /\ UNCHANGED <<keys, data, since, requests>>

(* The handler panics where it first uses the nil metric, which in         *)
(* BatchUpdate is under the mutex.  The deferred calls run, and net/http   *)
(* closes the connection.                                                  *)
Panic(c) ==
  /\ exchange[c].pc = "handle" /\ HasNilMetric(exchange[c].request)
  /\ exchange[c].request.route = "updates" => mutex = Nobody
  /\ Set(c, [exchange[c] EXCEPT !.pc = "aborted"])
  /\ UNCHANGED <<keys, data, mutex, since, requests>>

(* An error of the storage that is neither ErrIncorrectAccess nor          *)
(* ErrMetricNotFound.                                                      *)
StorageFails(c) ==
  /\ exchange[c].pc = "handle" /\ Valid(c)
  /\ Answer(c, IF exchange[c].request.route = "updates"
                 THEN RespondEmpty(Writer(c), 200)
                 ELSE RespondError(Writer(c), 500))
  /\ UNCHANGED <<keys, data, mutex, since, requests>>

(* A reader that has no answer yet may see the memory after the step.      *)
Observe ==
  since' = [r \in Reader |->
              IF Ended(r) THEN since[r]
                          ELSE [id \in ID |-> since[r][id] \cup {data'[id]}]]

(* updateByPath and updateByBody, AccumulateMetric, AddCounter / SetGauge. *)
UpdateMetric(c) ==
  LET m == Head(Carried(exchange[c].request))
  IN  /\ Handles(c, {"update_by_path", "update"}) /\ Valid(c) /\ mutex = Nobody
      /\ data' = Accumulate(data, m) /\ Observe
      /\ Answer(c, IF Refuses(data, m.ID, m.MType) THEN RespondError(Writer(c), 400)
                                                   ELSE RespondEmpty(Writer(c), 200))
      /\ UNCHANGED <<keys, mutex, requests>>

(* updateBatch, BatchAccumulateMetrics, BatchUpdate.                       *)
UpdateBatch(c) ==
  LET metrics == Carried(exchange[c].request)
  IN  /\ Handles(c, {"updates"}) /\ Valid(c) /\ mutex = Nobody
      /\ IF BatchIsValid(data, metrics)
           THEN /\ Set(c, [exchange[c] EXCEPT !.pc = "apply", !.todo = metrics])
                /\ mutex' = c
           ELSE /\ Answer(c, RespondError(Writer(c), 400))
                /\ UNCHANGED mutex
      /\ UNCHANGED <<keys, data, since, requests>>

ApplyNext(c) ==
  /\ exchange[c].pc = "apply" /\ exchange[c].todo # << >>
  /\ data' = Accumulate(data, Head(exchange[c].todo)) /\ Observe
  /\ exchange' = [exchange EXCEPT ![c].todo = Tail(@)]
  /\ UNCHANGED <<keys, mutex, requests>>

BatchApplied(c) ==
  /\ exchange[c].pc = "apply" /\ exchange[c].todo = << >>
  /\ mutex' = Nobody
  /\ Answer(c, RespondEmpty(Writer(c), 200))
  /\ UNCHANGED <<keys, data, since, requests>>

(* getMetric, MetricsService.GetMetric, GetByID: a pointer to the metric.  *)
GetMetric(c) ==
  LET m == Head(Carried(exchange[c].request))
  IN  /\ Handles(c, {"value", "plain_value"}) /\ Valid(c) /\ mutex = Nobody
      /\ IF m.ID \in ID /\ data[m.ID] # Absent /\ data[m.ID].MType = m.MType
           THEN Set(c, [exchange[c] EXCEPT !.pc = "render", !.listing = <<m.ID>>])
           ELSE Answer(c, RespondError(Writer(c), 404))
      /\ UNCHANGED <<keys, data, mutex, since, requests>>

Existing == {id \in ID : data[id] # Absent}

(* Faulty variant: the order of the map is kept.                           *)
GetAllSorted_Unsorted(c) ==
  /\ Handles(c, {"page"}) /\ mutex = Nobody
  /\ \E listing \in SetToSeqs(Existing) :
       Set(c, [exchange[c] EXCEPT !.pc = "render", !.listing = listing])
  /\ UNCHANGED <<keys, data, mutex, since, requests>>

(* showMetricsPage, GenerateAllMetricsHTML: pointers to the metrics.       *)
GetAllSorted(c) ==
  /\ Handles(c, {"page"}) /\ mutex = Nobody
  /\ Set(c, [exchange[c] EXCEPT !.pc = "render",
                                !.listing = SortedIDs(Existing)])
  /\ UNCHANGED <<keys, data, mutex, since, requests>>

(* The template, or renderMetricValue and renderMetricJSON, read the next  *)
(* metric as it is now.                                                    *)
RenderNext(c) ==
  LET x  == exchange[c]
      id == Head(x.listing)
  IN  /\ x.pc = "render" /\ x.listing # << >>
      /\ Set(c, [x EXCEPT !.listing = Tail(@),
                          !.rows = Append(@, [ID |-> id, MType |-> data[id].MType,
                                              Val |-> data[id].Val])])
      /\ UNCHANGED <<keys, data, mutex, since, requests>>

(* renderMetricValue, renderMetricJSON, showMetricsPage.                   *)
Respond(c) ==
  LET x == exchange[c]
      Payload(contentType, form) ==
        RespondPayload(x.response, keys.server, contentType, Body(form, x.rows))
  IN  /\ x.pc = "render" /\ x.listing = << >>
      /\ Answer(c, CASE x.request.route = "page"        -> Payload("text/html", "text")
                     [] x.request.route = "plain_value" -> Payload("text/plain", "text")
                     [] x.request.route = "value" /\ x.rows[1].Val # NaN ->
                          Payload("application/json", "object")
                     [] OTHER -> RespondEmpty(x.response, 500))
      /\ UNCHANGED <<keys, data, mutex, since, requests>>

PingStorage(c) ==
  /\ Handles(c, {"ping"})
  /\ Answer(c, RespondEmpty(Writer(c), 200))
  /\ UNCHANGED <<keys, data, mutex, since, requests>>

(* The bound is reached: the clients rest, the server may wait for them.   *)
NoMoreRequests ==
  /\ requests = RequestLimit
  /\ UNCHANGED vars

ServerNext(c) ==
  \/ Serve(c) \/ RefuseInvalid(c) \/ Panic(c)
  \/ UpdateMetric(c) \/ UpdateBatch(c) \/ ApplyNext(c) \/ BatchApplied(c)
  \/ GetMetric(c) \/ GetAllSorted(c) \/ RenderNext(c) \/ Respond(c) \/ PingStorage(c)

Next ==
  \/ \E c \in Agent : SendUpdate(c)
  \/ \E c \in Program : Post(c)
  \/ \E c \in Reader : Ask(c)
  \/ \E c \in Client : Unpack(c) \/ StorageFails(c) \/ ServerNext(c)
  \/ NoMoreRequests

Spec == Init /\ [][Next]_vars

(* net/http runs a goroutine for every request, and Go runs every          *)
(* goroutine that can run.  No storage has to fail: a request that waits   *)
(* for ms.mutex gets on only when the mutex is free.                       *)
Fairness == \A c \in Client : WF_vars(ServerNext(c))

FairSpec == Spec /\ Fairness

-----------------------------------------------------------------------------
(* Properties.                                                             *)

(* The client encrypted for the server's key pair, if the server has one,  *)
(* and its signature, if it made one, is of the server's key and of what   *)
(* arrived.                                                                *)
Genuine(x) ==
  /\ keys.server.private # NoKey => keys.server.private \in ToSet(x.sent.body.layers)
  /\ \A sign \in x.sent.signature :
       sign.key = keys.server.secret /\ sign.of = x.sent.body /\ ~ x.unpacked

(* The storage changes only on behalf of a request that was encrypted for  *)
(* the server's private key, if there is one, and whose signature, if      *)
(* there is one, holds: no route, no order of the middlewares and no       *)
(* change of the body on the way lets another one through.                 *)
UpdatesAreGenuine ==
  [][data' # data =>
       \E c \in Client : exchange'[c] # exchange[c] /\ Genuine(exchange[c])]_vars

(* An agent's request passes the server when the keys fit: the path has no *)
(* body to encrypt, and a batch is not signed.                             *)
KeysFit(route) ==
  /\ route # "updates" => keys.agent.secret \in {NoKey, keys.server.secret}
  /\ IF route = "update_by_path" THEN keys.server.private = NoKey
                                 ELSE keys.agent.public = keys.server.private

(* Every update of an agent whose keys fit, in any combination of signing  *)
(* and encryption, gets through to the storage, which takes it, fails, or  *)
(* has a metric of the other type under that ID.  If they do not fit, the  *)
(* answer says so: the agent never commits what the server did not read.   *)
FittingKeysDeliver ==
  \A c \in Agent :
    LET x == exchange[c]
    IN  x.pc = "answered" /\ ~ x.unpacked =>
          IF KeysFit(x.sent.route)
            THEN \/ x.response.code \in {200, 500}
                 \/ /\ x.response.code = 400
                    /\ \E m \in ToSet(Carried(x.sent)) : Refuses(data, m.ID, m.MType)
            ELSE x.response.code \in {400, 401}

(* Every response can be read by the client it goes to: it is compressed   *)
(* only if the client accepts that and exactly when its header says so,    *)
(* its signature is the one of what the client decodes, and the status     *)
(* that is logged is the one that was sent.                                *)
ResponseIsReadable ==
  \A c \in Client :
    LET x == exchange[c]
        r == x.response
    IN  x.pc = "answered" =>
          /\ r.encoding = "gzip" => x.accepts
          /\ Decoded(r).layers = << >> /\ Decoded(r).form # "unreadable"
          /\ r.signature # {} => r.signature = AddSignature(keys.server.secret, Decoded(r))
          /\ r.code = r.logged

(* A read beside any number of updates and a half applied batch gives      *)
(* every metric that existed when it was asked for, once and in order,     *)
(* with a type and a value that the metric had at that moment or later,    *)
(* before the answer: a client sees its own acknowledged update, whether   *)
(* it made a counter go up or down.                                        *)
ReadsAreCurrent ==
  \A c \in Reader :
    LET x    == exchange[c]
        rows == Decoded(x.response).content
    IN  x.pc = "answered" /\ x.response.code = 200 /\ x.sent.route # "ping" =>
          /\ \A i, j \in DOMAIN rows : i < j => rows[i].ID < rows[j].ID
          /\ \A i \in DOMAIN rows :
               [MType |-> rows[i].MType, Val |-> rows[i].Val] \in since[c][rows[i].ID]
          /\ x.sent.route = "page" =>
               \A id \in ID : Absent \notin since[c][id] =>
                 \E i \in DOMAIN rows : rows[i].ID = id

(* Every request comes to an end, whatever the others do: a handler that   *)
(* panics inside a batch leaves the storage usable.                        *)
RequestsEnd ==
  \A c \in Client :
    exchange[c].pc = "sent" ~> Ended(c)
=============================================================================
