---------------------------- MODULE LiveScreens ----------------------------
(* Live screens of one replica: the Kafka consumers that feed the two SSE  *)
(* hubs, the hubs with their lock and bounded channels, the streams of     *)
(* kiosks (menus), kitchen and hall screens and tracking pages, the client *)
(* behind each, and the shutdown of the process around them.               *)
(* The menu of a restaurant is known by the restaurant's name.             *)
EXTENDS Naturals, Sequences, FiniteSets

CONSTANTS
    Streams,      \* connections that clients open
    Orders,
    Restaurants,
    Home,         \* the restaurant of an order
    All,          \* the routing key of an event for every restaurant
    Capacity,     \* the buffer of a subscriber
    MaxChanges    \* bound of the changes to orders and menus

ASSUME ConstantsAssumption ==
    /\ Home \in [Orders -> Restaurants]
    /\ Orders \cap Restaurants = {}
    /\ All \notin Orders \cup Restaurants
    /\ Capacity \in Nat \ {0}
    /\ MaxChanges \in Nat

VARIABLES
    version,    \* what kfc-order and kfc-crm hold; 0: no such order
    outbox,     \* events of changes that are not in Kafka yet
    log,        \* the Kafka topics
    reader,     \* their consumers: state, position, subscribers to be sent to
    subs,       \* the subscribers of each hub
    stream,     \* the streams
    screen,     \* what the client of each stream shows
    app,        \* the process
    deadline,   \* the shutdown context is done
    missed,     \* history: orders of which a stream's channel dropped an event
    late        \* history: streams whose client fetched before the consumer joined

vars == <<version, outbox, log, reader, subs, stream, screen, app, deadline, missed, late>>

Topics == {"menu", "orders"}

Items == Orders \cup Restaurants

Kinds == {"kiosk", "device", "tracking"}

Topic(s) == IF stream[s].kind = "kiosk" THEN "menu" ELSE "orders"

Events == [topic : Topics, rest : Restaurants \cup {All}, item : Items \cup {All}, v : Nat]

\* Types, and the wiring of the two hubs: what is in a stream's channel is an
\* event of the hub it subscribed to, for its restaurant (app.go:65-101, :166-169).
TypeOK ==
    /\ version \in [Items -> Nat]
    /\ outbox \subseteq Events
    /\ log \in [Topics -> Seq(Events)]
    /\ reader \in [Topics -> [pc : {"joining", "fetch", "publish", "stopped"},
                              pos : Nat, todo : SUBSET Streams]]
    /\ subs \in [Topics -> SUBSET Streams]
    /\ stream \in [Streams ->
          [kind : Kinds, rest : Restaurants, order : Orders,
           pc : {"off", "check", "subscribe", "greet", "loop", "leave", "ended"},
           conn : {"up", "gone", "broken"}, buf : Seq(Events), greeted : BOOLEAN,
           fetched : BOOLEAN]]
    /\ \A s \in Streams :
          /\ Len(stream[s].buf) <= Capacity
          /\ \A n \in 1 .. Len(stream[s].buf) :
                /\ stream[s].buf[n].topic = Topic(s)
                /\ stream[s].buf[n].rest \in {stream[s].rest, All}
    /\ screen \in [Streams -> [Items -> Nat]]
    /\ app \in {"up", "consumers", "http", "down"}
    /\ deadline \in BOOLEAN
    /\ missed \in [Streams -> SUBSET Orders]
    /\ late \subseteq Streams

Init ==
    /\ version = [i \in Items |-> IF i \in Orders THEN 0 ELSE 1]
    /\ outbox = {}
    /\ log = [t \in Topics |-> <<>>]
    /\ reader = [t \in Topics |-> [pc |-> "joining", pos |-> 0, todo |-> {}]]
    /\ subs = [t \in Topics |-> {}]
    /\ stream \in [Streams -> [kind : Kinds, rest : Restaurants, order : Orders, pc : {"off"},
                               conn : {"up"}, buf : {<<>>}, greeted : {FALSE}, fetched : {FALSE}]]
    /\ \A s \in Streams : stream[s].kind = "tracking" => stream[s].rest = Home[stream[s].order]
    /\ screen = [s \in Streams |-> [i \in Items |-> 0]]
    /\ app = "up"
    /\ deadline = FALSE
    /\ missed = [s \in Streams |-> {}]
    /\ late = {}

\* What the client of a stream shows.
Wants(s, i) ==
    CASE stream[s].kind = "kiosk"    -> i = stream[s].rest
      [] stream[s].kind = "device"   -> i \in Orders /\ Home[i] = stream[s].rest
      [] stream[s].kind = "tracking" -> i = stream[s].order

----------------------------------------------------------------------------
(* External: kfc-order, kfc-crm and Kafka.                                 *)

ChangeOrder(o) ==
    /\ version' = [version EXCEPT ![o] = @ + 1]
    /\ outbox' = outbox \cup {[topic |-> "orders", rest |-> Home[o], item |-> o,
                               v |-> version[o] + 1]}

Changes ==
    Cardinality(outbox) + Len(log["menu"]) + Len(log["orders"])

ChangeMenu(key) ==
    /\ version' = [i \in Items |-> IF i = key \/ (key = All /\ i \in Restaurants)
                                   THEN version[i] + 1 ELSE version[i]]
    /\ outbox' = outbox \cup {[topic |-> "menu", rest |-> key, item |-> All,
                               v |-> Changes + 1]}

Change ==
    /\ Changes < MaxChanges
    /\ \/ \E o \in Orders : ChangeOrder(o)
       \/ \E key \in Restaurants \cup {All} : ChangeMenu(key)
    /\ UNCHANGED <<log, reader, subs, stream, screen, app, deadline, missed, late>>

\* Events reach Kafka in any order.
Produce(e) ==
    /\ e \in outbox
    /\ outbox' = outbox \ {e}
    /\ log' = [log EXCEPT ![e.topic] = Append(@, e)]
    /\ UNCHANGED <<version, reader, subs, stream, screen, app, deadline, missed, late>>

----------------------------------------------------------------------------
(* The consumers and Hub.Publish.                                          *)

\* The new group gets its partitions and starts at their end.
Join(t) ==
    /\ reader[t].pc = "joining"
    /\ app = "up"
    /\ reader' = [reader EXCEPT ![t].pc = "fetch", ![t].pos = Len(log[t])]
    /\ UNCHANGED <<version, outbox, log, subs, stream, screen, app, deadline, missed, late>>

\* Mutant: a global event finds nobody.
AudienceIgnoresAll(t, e) == {s \in subs[t] : e.rest = stream[s].rest}

\* Mutant: one hub for menus and orders.
AudienceOfBoth(t, e) ==
    {s \in UNION {subs[k] : k \in Topics} : e.rest \in {stream[s].rest, All}}

\* The subscribers an event is for.
Audience(t, e) == {s \in subs[t] : e.rest \in {stream[s].rest, All}}

\* The handler routes the event; Publish takes the read lock.
Handle(t) ==
    /\ reader[t].pc = "fetch"
    /\ app \in {"up", "consumers"}
    /\ reader[t].pos < Len(log[t])
    /\ reader' = [reader EXCEPT ![t] =
          [pc |-> "publish", pos |-> @.pos + 1,
           todo |-> Audience(t, log[t][reader[t].pos + 1])]]
    /\ UNCHANGED <<version, outbox, log, subs, stream, screen, app, deadline, missed, late>>

HasRoom(s) == Len(stream[s].buf) < Capacity

\* trySend: a full channel drops the event.
Send(t, s) ==
    LET e == log[t][reader[t].pos]
    IN  /\ s \in reader[t].todo
        /\ reader' = [reader EXCEPT ![t].todo = @ \ {s}]
        /\ IF HasRoom(s)
           THEN /\ stream' = [stream EXCEPT ![s].buf = Append(@, e)]
                /\ UNCHANGED missed
           ELSE /\ missed' = [missed EXCEPT ![s] = @ \cup ({e.item} \cap Orders)]
                /\ UNCHANGED stream
        /\ UNCHANGED <<version, outbox, log, subs, screen, app, deadline, late>>

\* Publish returns and the offset is committed.
Published(t) ==
    /\ reader[t].pc = "publish"
    /\ reader[t].todo = {}
    /\ reader' = [reader EXCEPT ![t].pc = "fetch"]
    /\ UNCHANGED <<version, outbox, log, subs, stream, screen, app, deadline, missed, late>>

\* The hub's write lock is free.
Unlocked(t) == reader[t].pc # "publish"

----------------------------------------------------------------------------
(* Streams. A write reaches the client while the connection is up; the     *)
(* first one after it is gone is swallowed by fasthttp's pipe, the next    *)
(* one fails and ends the stream.                                          *)

At(s, pc) == [stream[s] EXCEPT !.pc = pc]

\* A tracking page's order is looked up first.
Open(s) ==
    /\ stream[s].pc = "off"
    /\ app \in {"up", "consumers"}
    /\ stream' = [stream EXCEPT ![s] =
                     At(s, IF @.kind = "tracking" THEN "check" ELSE "subscribe")]
    /\ UNCHANGED <<version, outbox, log, reader, subs, screen, app, deadline, missed, late>>

\* No such order, or no connection to kfc-order any more: no stream.
CheckOrder(s) ==
    /\ stream[s].pc = "check"
    /\ stream' = [stream EXCEPT ![s] =
          At(s, IF version[@.order] > 0 /\ app \in {"up", "consumers"} THEN "subscribe" ELSE "ended")]
    /\ UNCHANGED <<version, outbox, log, reader, subs, screen, app, deadline, missed, late>>

\* Mutant: the stream subscribes when it has greeted its client.
SubscribeLater(s) ==
    /\ stream[s].pc = "subscribe"
    /\ Unlocked(Topic(s))
    /\ IF stream[s].greeted
       THEN /\ stream' = [stream EXCEPT ![s] = At(s, "loop")]
            /\ subs' = [subs EXCEPT ![Topic(s)] = @ \cup {s}]
       ELSE /\ stream' = [stream EXCEPT ![s] = [At(s, "subscribe") EXCEPT !.greeted = TRUE]]
            /\ UNCHANGED subs
    /\ UNCHANGED <<version, outbox, log, reader, screen, app, deadline, missed, late>>

Subscribe(s) ==
    /\ stream[s].pc = "subscribe"
    /\ Unlocked(Topic(s))
    /\ stream' = [stream EXCEPT ![s] = At(s, "greet")]
    /\ subs' = [subs EXCEPT ![Topic(s)] = @ \cup {s}]
    /\ UNCHANGED <<version, outbox, log, reader, screen, app, deadline, missed, late>>

\* A stream after a write that did not reach the client.
Unwritten(st) ==
    [st EXCEPT !.pc = IF st.conn = "broken" THEN "leave" ELSE "loop", !.conn = "broken"]

\* The retry hint and "connected".
Greet(s) ==
    /\ stream[s].pc = "greet"
    /\ stream' = [stream EXCEPT ![s] =
          IF @.conn = "up" THEN [At(s, "loop") EXCEPT !.greeted = TRUE] ELSE Unwritten(@)]
    /\ UNCHANGED <<version, outbox, log, reader, subs, screen, app, deadline, missed, late>>

\* A tracking page only gets the events of its order.
Passes(s, e) == stream[s].kind = "tracking" => e.item = stream[s].order

Newer(v, w) == IF v < w THEN w ELSE v

\* An event is taken from the channel and written. A kiosk fetches the menu
\* on every event, the other clients keep the newest state of each order.
Deliver(s) ==
    LET e == Head(stream[s].buf)
        st == [stream[s] EXCEPT !.buf = Tail(@)]
    IN  /\ stream[s].pc = "loop"
        /\ stream[s].buf # <<>>
        /\ IF ~Passes(s, e)
           THEN /\ stream' = [stream EXCEPT ![s] = st]
                /\ UNCHANGED screen
           ELSE IF st.conn # "up"
           THEN /\ stream' = [stream EXCEPT ![s] = Unwritten(st)]
                /\ UNCHANGED screen
           ELSE IF st.kind = "kiosk"
           THEN /\ stream' = [stream EXCEPT ![s] = [st EXCEPT !.fetched = FALSE]]
                /\ UNCHANGED screen
           ELSE /\ stream' = [stream EXCEPT ![s] = st]
                /\ screen' = [screen EXCEPT ![s][e.item] = Newer(@, e.v)]
        /\ UNCHANGED <<version, outbox, log, reader, subs, app, deadline, missed, late>>

\* Mutant: no heartbeat.
PingNever(s) == FALSE /\ UNCHANGED vars

\* The heartbeat. A connection that is up takes it without any effect.
Ping(s) ==
    /\ stream[s].pc = "loop"
    /\ stream[s].conn # "up"
    /\ stream' = [stream EXCEPT ![s] = Unwritten(@)]
    /\ UNCHANGED <<version, outbox, log, reader, subs, screen, app, deadline, missed, late>>

\* ctx.Done in the loop of the menu stream; order streams have no such branch.
ServerDone(s) ==
    /\ stream[s].pc = "loop"
    /\ stream[s].kind = "kiosk"
    /\ app = "http"
    /\ stream' = [stream EXCEPT ![s] = At(s, "leave")]
    /\ UNCHANGED <<version, outbox, log, reader, subs, screen, app, deadline, missed, late>>

\* Mutant: Unsubscribe without the lock.
UnsubscribeUnlocked(s) ==
    /\ stream[s].pc = "leave"
    /\ subs' = [subs EXCEPT ![Topic(s)] = @ \ {s}]
    /\ stream' = [stream EXCEPT ![s] = At(s, "ended")]
    /\ UNCHANGED <<version, outbox, log, reader, screen, app, deadline, missed, late>>

\* Unsubscribe removes the subscriber and closes its channel.
Unsubscribe(s) ==
    /\ stream[s].pc = "leave"
    /\ Unlocked(Topic(s))
    /\ subs' = [subs EXCEPT ![Topic(s)] = @ \ {s}]
    /\ stream' = [stream EXCEPT ![s] = At(s, "ended")]
    /\ UNCHANGED <<version, outbox, log, reader, screen, app, deadline, missed, late>>

\* The client leaves, or WriteTimeout has passed since the stream began.
Cut(s) ==
    /\ stream[s].pc \in {"subscribe", "greet", "loop"}
    /\ stream[s].conn = "up"
    /\ stream' = [stream EXCEPT ![s].conn = "gone"]
    /\ UNCHANGED <<version, outbox, log, reader, subs, screen, app, deadline, missed, late>>

\* The client fetches what it shows over HTTP: when it has been greeted, and
\* a kiosk again after every event.
ClientFetches(s) ==
    /\ stream[s].greeted
    /\ ~stream[s].fetched
    /\ stream[s].conn = "up"
    /\ stream' = [stream EXCEPT ![s].fetched = TRUE]
    /\ screen' = [screen EXCEPT ![s] = [i \in Items |-> IF Wants(s, i) THEN version[i] ELSE 0]]
    /\ late' = IF reader[Topic(s)].pc = "joining" THEN late \cup {s} ELSE late \ {s}
    /\ UNCHANGED <<version, outbox, log, reader, subs, app, deadline, missed>>

----------------------------------------------------------------------------
(* Shutdown.                                                               *)

Signal ==
    /\ app = "up"
    /\ app' = "consumers"
    /\ UNCHANGED <<version, outbox, log, reader, subs, stream, screen, deadline, missed, late>>

\* The loop ends when its context is cancelled, after the event it is at.
StopConsumer(t) ==
    /\ app = "consumers"
    /\ reader[t].pc \in {"joining", "fetch"}
    /\ reader' = [reader EXCEPT ![t].pc = "stopped"]
    /\ UNCHANGED <<version, outbox, log, subs, stream, screen, app, deadline, missed, late>>

\* The clients of kfc-order, kfc-loyalty and kfc-notification are closed and
\* the HTTP server stops listening.
CloseClients ==
    /\ app = "consumers"
    /\ \A t \in Topics : reader[t].pc = "stopped"
    /\ app' = "http"
    /\ UNCHANGED <<version, outbox, log, reader, subs, stream, screen, deadline, missed, late>>

OpenStreams == {s \in Streams : stream[s].pc \notin {"off", "ended"}}

\* Mutant: the drain is not given the context.
DrainedForever == OpenStreams = {}

\* The server waits for its connections, or for the context.
Drained == OpenStreams = {} \/ deadline

\* Then kfc-crm's client is closed, the gRPC server (its calls end, or are
\* stopped at the deadline) and Redis, and the process exits.
StopHTTP ==
    /\ app = "http"
    /\ Drained
    /\ app' = "down"
    /\ UNCHANGED <<version, outbox, log, reader, subs, stream, screen, deadline, missed, late>>

\* ShutdownTimeout after the signal.
Deadline ==
    /\ app = "http"
    /\ ~deadline
    /\ deadline' = TRUE
    /\ UNCHANGED <<version, outbox, log, reader, subs, stream, screen, app, missed, late>>

----------------------------------------------------------------------------

\* What goes on by itself.
ReaderStep(t) == Join(t) \/ Handle(t) \/ (\E s \in Streams : Send(t, s)) \/ Published(t)

StreamStep(s) ==
    \/ CheckOrder(s) \/ Subscribe(s) \/ Greet(s) \/ Deliver(s) \/ Ping(s)
    \/ ServerDone(s) \/ Unsubscribe(s)

Shutdown == (\E t \in Topics : StopConsumer(t)) \/ CloseClients \/ StopHTTP

\* The rest of the world does not matter once the process is gone.
Alive == app # "down"

Next ==
    /\ Alive
    /\ \/ Change
       \/ \E e \in outbox : Produce(e)
       \/ \E t \in Topics : ReaderStep(t)
       \/ \E s \in Streams : Open(s) \/ StreamStep(s) \/ ClientFetches(s) \/ Cut(s)
       \/ Signal \/ Shutdown \/ Deadline

Spec == Init /\ [][Next]_vars

\* Goroutines run, the heartbeat ticks, clients fetch and Kafka takes events.
\* Nobody has to open or leave a stream, and the shutdown need not take long.
FairSpec ==
    /\ Spec
    /\ WF_vars(Alive /\ \E e \in outbox : Produce(e))
    /\ \A t \in Topics : /\ WF_vars(Alive /\ ReaderStep(t))
                        /\ WF_vars(Alive /\ StopConsumer(t))
    /\ \A s \in Streams : /\ WF_vars(Alive /\ StreamStep(s))
                         /\ WF_vars(Alive /\ ServerDone(s))
                         /\ WF_vars(Alive /\ ClientFetches(s))
    /\ WF_vars(Alive /\ Shutdown)

----------------------------------------------------------------------------
(* Properties.                                                             *)

\* Publish never sends to a channel that Unsubscribe has closed: a publisher
\* under the read lock has only subscribers that are still there
\* (hub.go:71-85, :97-99).
NoSendOnClosed ==
    \A t \in Topics : \A s \in reader[t].todo : stream[s].pc # "ended"

\* The client has been greeted and has its list, and the connection stands.
Watching(s) == stream[s].pc = "loop" /\ stream[s].conn = "up" /\ stream[s].fetched

\* An event that will bring item i of stream s up to date.
Tells(s, i, e) ==
    IF i \in Orders THEN e.item = i /\ e.v = version[i]
    ELSE e.topic = "menu" /\ e.rest \in {i, All}

\* ... is on its way.
OnItsWay(s, i) ==
    LET t == Topic(s)
    IN  \/ \E e \in outbox : Tells(s, i, e)
        \/ \E n \in DOMAIN log[t] :
              /\ n > reader[t].pos \/ (n = reader[t].pos /\ s \in reader[t].todo)
              /\ Tells(s, i, log[t][n])
        \/ \E n \in DOMAIN stream[s].buf : Tells(s, i, stream[s].buf[n])

\* A client that is behind has the news coming: no change falls between
\* subscribing, the first fetch and the events, in whatever order events
\* arrive. An order is excused when the full channel dropped an event of it;
\* a menu is not: the events that filled the channel make the kiosk fetch
\* it later (order_stream_handler.go:22-26, hub.go:93-96).
NothingLost ==
    \A s \in Streams : \A i \in Items :
        (/\ Watching(s) /\ s \notin late
         /\ Wants(s, i) /\ i \notin missed[s]
         /\ screen[s][i] < version[i])
        => OnItsWay(s, i)

\* When changes end, every screen that stays connected shows the last state
\* of what it shows, unless a drop or a late start is to blame.
ScreensCatchUp ==
    \A s \in Streams : \A i \in Items :
        <>[]((/\ app = "up" /\ Watching(s) /\ s \notin late
              /\ Wants(s, i) /\ i \notin missed[s])
             => screen[s][i] = version[i])

\* A stream ends, and its subscription is released, when the heartbeat finds
\* that its client has gone (order_stream_handler.go:104-112, :146-149).  That
\* of a menu also ends with the server and does not hold up the drain until
\* its deadline (menu_stream_handler.go:114).
StreamsLetGo ==
    \A s \in Streams :
        (stream[s].conn # "up" \/ (stream[s].kind = "kiosk" /\ app = "http"))
            ~> (stream[s].pc \in {"off", "ended"} \/ ~Alive)

\* The process ends after the signal, although order streams do not listen
\* to the shutdown: the drain has a deadline (main.go:34-41, app.go:274).
ShutdownEnds ==
    WF_vars(Alive /\ Deadline) => ((app = "consumers") ~> (app = "down"))

----------------------------------------------------------------------------
(* What comments say, which the code does not keep.                        *)

\* app.go:91-94: a consumer may start at the newest offset because "screens
\* refetch on connect, they never need history".
NeverNeedHistory ==
    \A s \in Streams : \A o \in Orders :
        (/\ Watching(s)
         /\ Wants(s, o) /\ o \notin missed[s]
         /\ screen[s][o] < version[o])
        => OnItsWay(s, o)
=============================================================================
