------------------------- MODULE LiveScreensProofs -------------------------
(***************************************************************************)
(* Proofs about LiveScreens, for any number of streams, orders,            *)
(* restaurants and changes and any buffer of the subscribers: Publish, the *)
(* streams and their clients interleave in every way.                      *)
(***************************************************************************)
EXTENDS LiveScreens, FiniteSetTheorems, TLAPS

StreamPC == {"off", "check", "subscribe", "greet", "loop", "leave", "ended"}
StreamRecs == [kind : Kinds, rest : Restaurants, order : Orders, pc : StreamPC,
               conn : {"up", "gone", "broken"}, buf : Seq(Events), greeted : BOOLEAN,
               fetched : BOOLEAN]
ReaderRecs == [pc : {"joining", "fetch", "publish", "stopped"}, pos : Nat, todo : SUBSET Streams]

\* TypeOK without what buffers hold, and that Changes is a number.
Types ==
    /\ version \in [Items -> Nat]
    /\ outbox \subseteq Events /\ IsFiniteSet(outbox)
    /\ log \in [Topics -> Seq(Events)]
    /\ reader \in [Topics -> ReaderRecs]
    /\ subs \in [Topics -> SUBSET Streams]
    /\ stream \in [Streams -> StreamRecs]
    /\ screen \in [Streams -> [Items -> Nat]]
    /\ app \in {"up", "consumers", "http", "down"}
    /\ deadline \in BOOLEAN
    /\ missed \in [Streams -> SUBSET Orders]
    /\ late \subseteq Streams
Bounded == \A s \in Streams : Len(stream[s].buf) <= Capacity

----------------------------------------------------------------------------
(* What the steps do, field by field.                                      *)

\* The record of one stream is replaced.
LEMMA StreamUpdate ==
    ASSUME stream \in [Streams -> StreamRecs], NEW s \in Streams, NEW rec \in StreamRecs,
           stream' = [stream EXCEPT ![s] = rec]
    PROVE  /\ stream' \in [Streams -> StreamRecs]
           /\ stream'[s] = rec
           /\ \A u \in Streams \ {s} : stream'[u] = stream[u]
OBVIOUS

\* What a stream is for never changes.
Same(s) ==
    /\ stream' \in [Streams -> StreamRecs]
    /\ stream'[s].kind = stream[s].kind
    /\ stream'[s].rest = stream[s].rest
    /\ stream'[s].order = stream[s].order
    /\ \A u \in Streams \ {s} : stream'[u] = stream[u]

\* kfc-order or kfc-crm changes something: there is an event of it.
Changed ==
    /\ version' \in [Items -> Nat]
    /\ \E e \in Events :
          /\ outbox' = outbox \cup {e}
          /\ \/ /\ e.topic = "orders" /\ e.item \in Orders /\ e.rest = Home[e.item]
                /\ version'[e.item] = version[e.item] + 1 /\ e.v = version[e.item] + 1
                /\ \A i \in Items \ {e.item} : version'[i] = version[i]
             \/ /\ e.topic = "menu" /\ e.item = All
                /\ \A i \in Items : i \in Orders \/ e.rest \notin {i, All} => version'[i] = version[i]
    /\ UNCHANGED <<log, reader, subs, stream, screen, app, deadline, missed, late>>

\* A consumer that has nobody to send to goes on, or stops.
Rests(t) ==
    /\ reader' \in [Topics -> ReaderRecs]
    /\ \A k \in Topics \ {t} : reader'[k] = reader[k]
    /\ reader[t].todo = {} /\ reader'[t].todo = {}
    /\ reader'[t].pc \in {"fetch", "stopped"}
    /\ \/ reader'[t].pos = reader[t].pos
       \/ reader[t].pc = "joining" /\ reader'[t].pos = Len(log[t])
    /\ UNCHANGED <<version, outbox, log, subs, stream, screen, missed, late, deadline, app>>

\* A stream goes on without an event.
GoesOn(s) ==
    /\ Same(s)
    /\ stream'[s].buf = stream[s].buf /\ stream'[s].fetched = stream[s].fetched
    /\ stream'[s].conn = "up" => stream[s].conn = "up"
    /\ \/ stream[s].pc \in {"off", "check"} /\ stream'[s].pc \in {"check", "subscribe", "ended"}
       \/ stream[s].pc \in {"greet", "loop"} /\ stream'[s].pc \in {"loop", "leave"}
       \/ stream'[s].pc = stream[s].pc
    /\ \/ stream'[s].greeted = stream[s].greeted
       \/ stream[s].pc = "greet" /\ stream'[s].pc = "loop"
    /\ UNCHANGED <<version, outbox, log, reader, subs, screen, missed, late, deadline, app>>

Subscribes(s) ==
    /\ Same(s)
    /\ Unlocked(Topic(s))
    /\ stream[s].pc = "subscribe" /\ stream'[s].pc = "greet"
    /\ stream'[s].buf = stream[s].buf /\ stream'[s].fetched = stream[s].fetched
    /\ stream'[s].greeted = stream[s].greeted
    /\ subs' \in [Topics -> SUBSET Streams]
    /\ subs'[Topic(s)] = subs[Topic(s)] \cup {s}
    /\ \A t \in Topics \ {Topic(s)} : subs'[t] = subs[t]
    /\ UNCHANGED <<version, outbox, log, reader, screen, missed, late, deadline, app>>

Leaves(s) ==
    /\ Same(s)
    /\ Unlocked(Topic(s))
    /\ stream[s].pc = "leave" /\ stream'[s].pc = "ended"
    /\ stream'[s].buf = stream[s].buf /\ stream'[s].fetched = stream[s].fetched
    /\ stream'[s].greeted = stream[s].greeted
    /\ subs' \in [Topics -> SUBSET Streams]
    /\ subs'[Topic(s)] = subs[Topic(s)] \ {s}
    /\ \A t \in Topics \ {Topic(s)} : subs'[t] = subs[t]
    /\ UNCHANGED <<version, outbox, log, reader, screen, missed, late, deadline, app>>

\* The event at the head of the channel is written, or is not for the client.
Takes(s) ==
    LET e == Head(stream[s].buf)
    IN  /\ Same(s)
        /\ stream[s].pc = "loop" /\ stream[s].buf # <<>>
        /\ stream'[s].buf = Tail(stream[s].buf)
        /\ stream'[s].greeted = stream[s].greeted
        /\ stream'[s].pc \in {"loop", "leave"}
        /\ stream'[s].fetched => stream[s].fetched
        /\ stream'[s].conn = "up" => stream[s].conn = "up"
        /\ screen' \in [Streams -> [Items -> Nat]]
        /\ \A u \in Streams \ {s} : screen'[u] = screen[u]
        /\ stream'[s].conn = "up" /\ Passes(s, e) =>
              IF stream[s].kind = "kiosk" THEN ~stream'[s].fetched
              ELSE e.item \in Items => screen'[s][e.item] = Newer(screen[s][e.item], e.v)
        /\ \A i \in Items : screen'[s][i] = screen[s][i] \/ (i = e.item /\ stream[s].kind # "kiosk")
        /\ UNCHANGED <<version, outbox, log, reader, subs, missed, late, deadline, app>>

Fetches(s) ==
    /\ Same(s)
    /\ stream[s].greeted /\ stream[s].conn = "up"
    /\ stream'[s].buf = stream[s].buf /\ stream'[s].pc = stream[s].pc
    /\ stream'[s].greeted = stream[s].greeted
    /\ screen' \in [Streams -> [Items -> Nat]]
    /\ \A u \in Streams \ {s} : screen'[u] = screen[u]
    /\ \A i \in Items : Wants(s, i) => screen'[s][i] = version[i]
    /\ late' \subseteq Streams
    /\ \A u \in Streams \ {s} : u \in late' <=> u \in late
    /\ s \in late' <=> reader[Topic(s)].pc = "joining"
    /\ UNCHANGED <<version, outbox, log, reader, subs, missed, deadline, app>>

\* The process goes on to its end.
Ends ==
    /\ app' \in {"up", "consumers", "http", "down"} /\ deadline' \in BOOLEAN
    /\ UNCHANGED <<version, outbox, log, reader, subs, stream, screen, missed, late>>

----------------------------------------------------------------------------
\* The changes of the other services.
LEMMA ChangeEffect == ASSUME Types, Change PROVE Changed
<1>0. /\ version \in [Items -> Nat] /\ Items = Orders \cup Restaurants /\ "orders" \in Topics
      /\ Home \in [Orders -> Restaurants] /\ "menu" \in Topics
    BY ConstantsAssumption DEF Types, Items, Topics
<1>1. UNCHANGED <<log, reader, subs, stream, screen, app, deadline, missed, late>>
    BY DEF Change
<1>2. Changes \in Nat
    BY FS_CardinalityType DEF Types, Changes, Topics
<1>3. ASSUME NEW o \in Orders, ChangeOrder(o) PROVE Changed
    <2> DEFINE e == [topic |-> "orders", rest |-> Home[o], item |-> o, v |-> version[o] + 1]
    <2>1. e \in Events /\ e.topic = "orders" /\ e.item = o /\ e.rest = Home[o] /\ e.v = version[o] + 1
        BY <1>0 DEF Events
    <2>2. /\ version' \in [Items -> Nat] /\ version'[o] = version[o] + 1
          /\ \A i \in Items \ {o} : version'[i] = version[i]
        BY <1>0, <1>3 DEF ChangeOrder
    <2>3. outbox' = outbox \cup {e}
        BY <1>3 DEF ChangeOrder
    <2> QED
        BY <1>1, <2>1, <2>2, <2>3 DEF Changed
<1>4. ASSUME NEW key \in Restaurants \cup {All}, ChangeMenu(key) PROVE Changed
    <2> DEFINE e == [topic |-> "menu", rest |-> key, item |-> All, v |-> Changes + 1]
    <2>1. e \in Events /\ e.topic = "menu" /\ e.item = All /\ e.rest = key
        BY <1>0, <1>2 DEF Events
    <2>2. version' = [i \in Items |-> IF i = key \/ (key = All /\ i \in Restaurants)
                                      THEN version[i] + 1 ELSE version[i]]
        BY <1>4 DEF ChangeMenu
    <2>3. /\ version' \in [Items -> Nat]
          /\ \A i \in Items : i \in Orders \/ key \notin {i, All} => version'[i] = version[i]
        <3>1. version' \in [Items -> Nat]
            BY <1>0, <2>2
        <3>2. \A i \in Orders : i # key /\ i \notin Restaurants
            BY ConstantsAssumption
        <3> QED
            BY <2>2, <3>1, <3>2
    <2>4. outbox' = outbox \cup {e}
        BY <1>4 DEF ChangeMenu
    <2> QED
        BY <1>1, <2>1, <2>3, <2>4 DEF Changed
<1> QED
    BY <1>3, <1>4 DEF Change

\* The consumers while nobody is sent to.
LEMMA ReaderEffect ==
    ASSUME Types, NEW t \in Topics, reader[t].pc # "publish" => reader[t].todo = {},
           Join(t) \/ Published(t) \/ StopConsumer(t)
    PROVE  Rests(t)
<1>0. /\ reader \in [Topics -> ReaderRecs] /\ reader[t] \in ReaderRecs /\ Len(log[t]) \in Nat
    BY DEF Types
<1>1. CASE Join(t)
    BY <1>0, <1>1 DEF Join, Rests, ReaderRecs
<1>2. CASE Published(t)
    BY <1>0, <1>2 DEF Published, Rests, ReaderRecs
<1>3. CASE StopConsumer(t)
    BY <1>0, <1>3 DEF StopConsumer, Rests, ReaderRecs
<1> QED
    BY <1>1, <1>2, <1>3

\* The steps of a stream.
LEMMA StreamEffect ==
    ASSUME Types, NEW s \in Streams, Open(s) \/ StreamStep(s) \/ ClientFetches(s) \/ Cut(s)
    PROVE  GoesOn(s) \/ Subscribes(s) \/ Leaves(s) \/ Takes(s) \/ Fetches(s)
<1>0. stream \in [Streams -> StreamRecs] /\ stream[s] \in StreamRecs
    BY DEF Types
<1>t. Topic(s) \in Topics
    BY DEF Topic, Topics
<1>1. ASSUME NEW rec \in StreamRecs, stream' = [stream EXCEPT ![s] = rec],
             rec.kind = stream[s].kind, rec.rest = stream[s].rest, rec.order = stream[s].order
      PROVE  Same(s) /\ stream'[s] = rec
    BY <1>0, <1>1, StreamUpdate DEF Same
<1>2. ASSUME NEW pc \in StreamPC
      PROVE  /\ At(s, pc) \in StreamRecs /\ At(s, pc).pc = pc
             /\ At(s, pc).kind = stream[s].kind /\ At(s, pc).rest = stream[s].rest
             /\ At(s, pc).order = stream[s].order /\ At(s, pc).buf = stream[s].buf
             /\ At(s, pc).fetched = stream[s].fetched /\ At(s, pc).greeted = stream[s].greeted
             /\ At(s, pc).conn = stream[s].conn
    BY <1>0, <1>2 DEF At, StreamRecs
<1>3. ASSUME NEW st \in StreamRecs
      PROVE  /\ Unwritten(st) \in StreamRecs /\ Unwritten(st).pc \in {"loop", "leave"}
             /\ Unwritten(st).kind = st.kind /\ Unwritten(st).rest = st.rest
             /\ Unwritten(st).order = st.order /\ Unwritten(st).buf = st.buf
             /\ Unwritten(st).fetched = st.fetched /\ Unwritten(st).greeted = st.greeted
             /\ Unwritten(st).conn = "broken"
    BY <1>3 DEF Unwritten, StreamRecs, StreamPC
<1>p. StreamPC = {"off", "check", "subscribe", "greet", "loop", "leave", "ended"}
    BY DEF StreamPC
<1>4. CASE Open(s)
    <2> DEFINE pc == IF stream[s].kind = "tracking" THEN "check" ELSE "subscribe"
    <2>1. stream[s].pc = "off" /\ stream' = [stream EXCEPT ![s] = At(s, pc)]
        BY <1>0, <1>4 DEF Open
    <2>2. pc \in StreamPC /\ pc \in {"check", "subscribe"}
        BY <1>p
    <2> HIDE DEF pc
    <2>3. /\ At(s, pc) \in StreamRecs /\ At(s, pc).kind = stream[s].kind
          /\ At(s, pc).rest = stream[s].rest /\ At(s, pc).order = stream[s].order
        BY <1>2, <2>2
    <2>4. Same(s) /\ stream'[s] = At(s, pc)
        BY <1>1, <2>1, <2>3
    <2> QED
        BY <1>2, <1>4, <2>1, <2>2, <2>4 DEF Open, GoesOn
<1>5. CASE CheckOrder(s)
    <2> DEFINE pc == IF version[stream[s].order] > 0 /\ app \in {"up", "consumers"} THEN "subscribe" ELSE "ended"
    <2>1. stream[s].pc = "check" /\ stream' = [stream EXCEPT ![s] = At(s, pc)]
        BY <1>0, <1>5 DEF CheckOrder
    <2>2. pc \in StreamPC /\ pc \in {"subscribe", "ended"}
        BY <1>p
    <2> HIDE DEF pc
    <2>3. /\ At(s, pc) \in StreamRecs /\ At(s, pc).kind = stream[s].kind
          /\ At(s, pc).rest = stream[s].rest /\ At(s, pc).order = stream[s].order
        BY <1>2, <2>2
    <2>4. Same(s) /\ stream'[s] = At(s, pc)
        BY <1>1, <2>1, <2>3
    <2> QED
        BY <1>2, <1>5, <2>1, <2>2, <2>4 DEF CheckOrder, GoesOn
<1>6. CASE Subscribe(s)
    <2>1. stream[s].pc = "subscribe" /\ stream' = [stream EXCEPT ![s] = At(s, "greet")]
        BY <1>6 DEF Subscribe
    <2>2. Same(s) /\ stream'[s] = At(s, "greet")
        BY <1>1, <1>2, <1>p, <2>1
    <2>3. /\ subs' \in [Topics -> SUBSET Streams] /\ subs'[Topic(s)] = subs[Topic(s)] \cup {s}
          /\ \A t \in Topics \ {Topic(s)} : subs'[t] = subs[t]
        BY <1>6, <1>t DEF Subscribe, Types
    <2> QED
        BY <1>2, <1>p, <1>6, <2>1, <2>2, <2>3 DEF Subscribe, Subscribes
<1>7. CASE Greet(s)
    <2>1. stream[s].pc = "greet"
        BY <1>7 DEF Greet
    <2>2. CASE stream[s].conn = "up"
        <3> DEFINE rec == [At(s, "loop") EXCEPT !.greeted = TRUE]
        <3>1. stream' = [stream EXCEPT ![s] = rec]
            BY <1>0, <1>7, <2>2 DEF Greet
        <3>2. /\ rec \in StreamRecs /\ rec.kind = stream[s].kind /\ rec.rest = stream[s].rest
              /\ rec.order = stream[s].order /\ rec.buf = stream[s].buf /\ rec.pc = "loop"
              /\ rec.fetched = stream[s].fetched /\ rec.conn = stream[s].conn
            <4>1. \A st \in StreamRecs :
                     LET r == [st EXCEPT !.greeted = TRUE]
                     IN  /\ r \in StreamRecs /\ r.kind = st.kind /\ r.rest = st.rest
                         /\ r.order = st.order /\ r.buf = st.buf /\ r.pc = st.pc
                         /\ r.fetched = st.fetched /\ r.conn = st.conn
                BY DEF StreamRecs
            <4> QED
                BY <1>2, <1>p, <4>1
        <3> HIDE DEF rec
        <3>3. Same(s) /\ stream'[s] = rec
            BY <1>1, <3>1, <3>2
        <3> QED
            BY <1>7, <2>1, <3>2, <3>3 DEF Greet, GoesOn
    <2>3. CASE stream[s].conn # "up"
        <3>1. stream' = [stream EXCEPT ![s] = Unwritten(stream[s])]
            BY <1>0, <1>7, <2>3 DEF Greet
        <3>2. Same(s) /\ stream'[s] = Unwritten(stream[s])
            BY <1>0, <1>1, <1>3, <3>1
        <3> QED
            BY <1>0, <1>3, <1>7, <2>1, <3>2 DEF Greet, GoesOn
    <2> QED
        BY <2>2, <2>3
<1>8. CASE Deliver(s)
    <2> DEFINE e == Head(stream[s].buf)
               st == [stream[s] EXCEPT !.buf = Tail(@)]
    <2>1. stream[s].pc = "loop" /\ stream[s].buf # <<>>
        BY <1>8 DEF Deliver
    <2>2. e \in Events /\ Tail(stream[s].buf) \in Seq(Events)
        BY <1>0, <2>1 DEF StreamRecs
    <2>3. /\ st \in StreamRecs /\ st.kind = stream[s].kind /\ st.rest = stream[s].rest
          /\ st.order = stream[s].order /\ st.buf = Tail(stream[s].buf) /\ st.pc = stream[s].pc
          /\ st.fetched = stream[s].fetched /\ st.conn = stream[s].conn
          /\ st.greeted = stream[s].greeted
        BY <1>0, <2>2 DEF StreamRecs
    <2>4. UNCHANGED <<version, outbox, log, reader, subs, app, deadline, missed, late>>
        BY <1>8 DEF Deliver
    <2>5. screen \in [Streams -> [Items -> Nat]]
        BY DEF Types
    <2>6. CASE ~Passes(s, e) /\ stream' = [stream EXCEPT ![s] = st] /\ UNCHANGED screen
        <3> HIDE DEF st, e
        <3>1. Same(s) /\ stream'[s] = st
            BY <1>1, <2>3, <2>6
        <3> QED
            BY <2>1, <2>3, <2>4, <2>5, <2>6, <3>1 DEF Takes, e
    <2>7. CASE stream' = [stream EXCEPT ![s] = Unwritten(st)] /\ UNCHANGED screen
        <3> HIDE DEF st, e
        <3>1. /\ Unwritten(st) \in StreamRecs /\ Unwritten(st).pc \in {"loop", "leave"}
              /\ Unwritten(st).kind = stream[s].kind /\ Unwritten(st).rest = stream[s].rest
              /\ Unwritten(st).order = stream[s].order /\ Unwritten(st).buf = Tail(stream[s].buf)
              /\ Unwritten(st).fetched = stream[s].fetched
              /\ Unwritten(st).greeted = stream[s].greeted
              /\ Unwritten(st).conn = "broken"
            BY <1>3, <2>3
        <3>2. Same(s) /\ stream'[s] = Unwritten(st)
            BY <1>1, <2>7, <3>1
        <3> QED
            BY <2>1, <2>4, <2>5, <2>7, <3>1, <3>2 DEF Takes, e
    <2>8. CASE /\ stream[s].kind = "kiosk" /\ UNCHANGED screen
               /\ stream' = [stream EXCEPT ![s] = [st EXCEPT !.fetched = FALSE]]
        <3> DEFINE rec == [st EXCEPT !.fetched = FALSE]
        <3>1. /\ rec \in StreamRecs /\ rec.kind = stream[s].kind /\ rec.rest = stream[s].rest
              /\ rec.order = stream[s].order /\ rec.buf = Tail(stream[s].buf) /\ rec.pc = stream[s].pc
              /\ rec.fetched = FALSE /\ rec.conn = stream[s].conn
              /\ rec.greeted = stream[s].greeted
            <4> HIDE DEF st
            <4> QED
                BY <2>3 DEF StreamRecs
        <3> HIDE DEF rec
        <3>2. Same(s) /\ stream'[s] = rec
            BY <1>1, <2>8, <3>1 DEF rec
        <3> QED
            BY <2>1, <2>4, <2>5, <2>8, <3>1, <3>2 DEF Takes, e
    <2>9. CASE /\ stream[s].kind # "kiosk" /\ Passes(s, e) /\ stream' = [stream EXCEPT ![s] = st]
               /\ screen' = [screen EXCEPT ![s][e.item] = Newer(@, e.v)]
        <3>1. Same(s) /\ stream'[s] = st
            <4> HIDE DEF st, e
            <4> QED
                BY <1>1, <2>3, <2>9
        <3>2. e.v \in Nat /\ e.item \in Items \cup {All}
            BY <2>2 DEF Events
        <3> HIDE DEF st, e
        <3>3. screen[s] \in [Items -> Nat]
            BY <2>5
        <3>4. screen' \in [Streams -> [Items -> Nat]]
              /\ \A u \in Streams \ {s} : screen'[u] = screen[u]
              /\ \A i \in Items : screen'[s][i] = IF i = e.item THEN Newer(screen[s][i], e.v) ELSE screen[s][i]
            BY <2>5, <2>9, <3>2, <3>3 DEF Newer
        <3> QED
            BY <2>1, <2>3, <2>4, <2>9, <3>1, <3>4 DEF Takes, e
    <2> QED
        BY <1>8, <2>6, <2>7, <2>8, <2>9 DEF Deliver
<1>9. CASE Ping(s)
    <2>1. stream' = [stream EXCEPT ![s] = Unwritten(stream[s])]
        BY <1>0, <1>9 DEF Ping
    <2>2. Same(s) /\ stream'[s] = Unwritten(stream[s])
        BY <1>0, <1>1, <1>3, <2>1
    <2> QED
        BY <1>0, <1>3, <1>9, <2>2 DEF Ping, GoesOn
<1>10. CASE ServerDone(s)
    <2>1. stream[s].pc = "loop" /\ stream' = [stream EXCEPT ![s] = At(s, "leave")]
        BY <1>10 DEF ServerDone
    <2>2. Same(s) /\ stream'[s] = At(s, "leave")
        BY <1>1, <1>2, <1>p, <2>1
    <2> QED
        BY <1>2, <1>p, <1>10, <2>1, <2>2 DEF ServerDone, GoesOn
<1>11. CASE Unsubscribe(s)
    <2>1. stream[s].pc = "leave" /\ stream' = [stream EXCEPT ![s] = At(s, "ended")]
        BY <1>11 DEF Unsubscribe
    <2>2. Same(s) /\ stream'[s] = At(s, "ended")
        BY <1>1, <1>2, <1>p, <2>1
    <2>3. /\ subs' \in [Topics -> SUBSET Streams] /\ subs'[Topic(s)] = subs[Topic(s)] \ {s}
          /\ \A t \in Topics \ {Topic(s)} : subs'[t] = subs[t]
        BY <1>11, <1>t DEF Unsubscribe, Types
    <2> QED
        BY <1>2, <1>p, <1>11, <2>1, <2>2, <2>3 DEF Unsubscribe, Leaves
<1>12. CASE Cut(s)
    <2> DEFINE rec == [stream[s] EXCEPT !.conn = "gone"]
    <2>1. /\ rec \in StreamRecs /\ rec.kind = stream[s].kind /\ rec.rest = stream[s].rest
          /\ rec.order = stream[s].order /\ rec.buf = stream[s].buf /\ rec.pc = stream[s].pc
          /\ rec.fetched = stream[s].fetched /\ rec.conn = "gone" /\ rec.greeted = stream[s].greeted
        BY <1>0 DEF StreamRecs
    <2>2. stream' = [stream EXCEPT ![s] = rec]
        BY <1>12 DEF Cut
    <2> HIDE DEF rec
    <2>3. Same(s) /\ stream'[s] = rec
        BY <1>1, <2>1, <2>2
    <2> QED
        BY <1>12, <2>1, <2>3 DEF Cut, GoesOn
<1>13. CASE ClientFetches(s)
    <2> DEFINE rec == [stream[s] EXCEPT !.fetched = TRUE]
    <2>1. /\ rec \in StreamRecs /\ rec.kind = stream[s].kind /\ rec.rest = stream[s].rest
          /\ rec.order = stream[s].order /\ rec.buf = stream[s].buf /\ rec.pc = stream[s].pc
          /\ rec.conn = stream[s].conn /\ rec.greeted = stream[s].greeted
        BY <1>0 DEF StreamRecs
    <2>2. stream' = [stream EXCEPT ![s] = rec]
        BY <1>13 DEF ClientFetches
    <2> HIDE DEF rec
    <2>3. Same(s) /\ stream'[s] = rec
        BY <1>1, <2>1, <2>2
    <2> DEFINE shown == [i \in Items |-> IF Wants(s, i) THEN version[i] ELSE 0]
    <2>4. shown \in [Items -> Nat]
        BY DEF Types
    <2>5. \A i \in Items : Wants(s, i) => shown[i] = version[i]
        OBVIOUS
    <2>6. screen' = [screen EXCEPT ![s] = shown]
        BY <1>13 DEF ClientFetches
    <2> HIDE DEF shown
    <2>7. /\ screen' \in [Streams -> [Items -> Nat]] /\ screen'[s] = shown
          /\ \A u \in Streams \ {s} : screen'[u] = screen[u]
        BY <2>4, <2>6 DEF Types
    <2>8. /\ late' \subseteq Streams
          /\ \A u \in Streams \ {s} : u \in late' <=> u \in late
          /\ s \in late' <=> reader[Topic(s)].pc = "joining"
        BY <1>13 DEF ClientFetches, Types
    <2> QED
        BY <1>13, <2>1, <2>3, <2>5, <2>7, <2>8 DEF ClientFetches, Fetches
<1> QED
    BY <1>4, <1>5, <1>6, <1>7, <1>8, <1>9, <1>10, <1>11, <1>12, <1>13 DEF StreamStep

----------------------------------------------------------------------------
(* Publish and the lock of the hub.                                        *)

\* A stream is subscribed from Subscribe to Unsubscribe, whom Publish is
\* about to send to is subscribed, and the position of a consumer is in its
\* topic.
Subscribed == {"greet", "loop", "leave"}
SubsInv ==
    \A t \in Topics : \A s \in Streams :
        s \in subs[t] <=> Topic(s) = t /\ stream[s].pc \in Subscribed
ReaderInv ==
    \A t \in Topics :
        /\ reader[t].todo \subseteq subs[t]
        /\ reader[t].pc # "publish" => reader[t].todo = {}
        /\ reader[t].pc = "publish" => reader[t].pos > 0
        /\ reader[t].pos <= Len(log[t])
Base == Types /\ SubsInv /\ ReaderInv

\* An event gets to Kafka.
Produces(e) ==
    /\ e \in outbox /\ outbox' = outbox \ {e}
    /\ log' \in [Topics -> Seq(Events)]
    /\ log'[e.topic] = Append(log[e.topic], e)
    /\ \A t \in Topics \ {e.topic} : log'[t] = log[t]
    /\ UNCHANGED <<version, reader, subs, stream, screen, app, deadline, missed, late>>
\* Publish finds whom an event is for.
Handles(t) ==
    /\ reader' \in [Topics -> ReaderRecs]
    /\ \A k \in Topics \ {t} : reader'[k] = reader[k]
    /\ reader[t].pc = "fetch" /\ reader'[t].pc = "publish"
    /\ reader[t].pos < Len(log[t]) /\ reader'[t].pos = reader[t].pos + 1
    /\ reader'[t].todo = Audience(t, log[t][reader[t].pos + 1])
    /\ UNCHANGED <<version, outbox, log, subs, stream, screen, app, deadline, missed, late>>
\* It sends the event to one of them, or drops it.
Sends(t, s) ==
    LET e == log[t][reader[t].pos]
    IN  /\ reader' \in [Topics -> ReaderRecs]
        /\ \A k \in Topics \ {t} : reader'[k] = reader[k]
        /\ reader'[t].pc = reader[t].pc /\ reader'[t].pos = reader[t].pos
        /\ s \in reader[t].todo /\ reader'[t].todo = reader[t].todo \ {s}
        /\ e \in Events
        /\ Same(s)
        /\ stream'[s].pc = stream[s].pc /\ stream'[s].conn = stream[s].conn
        /\ stream'[s].greeted = stream[s].greeted /\ stream'[s].fetched = stream[s].fetched
        /\ missed' \in [Streams -> SUBSET Orders]
        /\ \A u \in Streams \ {s} : missed'[u] = missed[u]
        /\ \/ /\ Len(stream[s].buf) < Capacity
              /\ stream'[s].buf = Append(stream[s].buf, e)
              /\ UNCHANGED missed
           \/ /\ ~(Len(stream[s].buf) < Capacity)
              /\ stream'[s].buf = stream[s].buf
              /\ missed'[s] = missed[s] \cup ({e.item} \cap Orders)
        /\ UNCHANGED <<version, outbox, log, subs, screen, app, deadline, late>>

\* An event of the outbox is appended to its topic.
LEMMA ProduceEffect ==
    ASSUME Types, NEW e \in outbox, Produce(e)
    PROVE  Produces(e)
<1>1. e \in Events /\ e.topic \in Topics /\ log[e.topic] \in Seq(Events)
    BY DEF Types, Events
<1>2. Append(log[e.topic], e) \in Seq(Events)
    BY <1>1
<1>3. log' = [log EXCEPT ![e.topic] = Append(log[e.topic], e)]
    BY DEF Produce
<1>4. log' \in [Topics -> Seq(Events)] /\ log'[e.topic] = Append(log[e.topic], e)
      /\ \A t \in Topics \ {e.topic} : log'[t] = log[t]
    BY <1>1, <1>2, <1>3 DEF Types
<1> QED
    BY <1>4 DEF Produce, Produces

\* A consumer hands the next event to Publish.
LEMMA HandleEffect ==
    ASSUME Types, NEW t \in Topics, Handle(t)
    PROVE  Handles(t)
<1>0. /\ reader \in [Topics -> ReaderRecs] /\ reader[t] \in ReaderRecs /\ reader[t].pos \in Nat
    BY DEF Types, ReaderRecs
<1> DEFINE A == Audience(t, log[t][reader[t].pos + 1])
<1>1. A \subseteq Streams
    BY DEF Types, Audience
<1>2. reader' = [reader EXCEPT ![t] = [pc |-> "publish", pos |-> reader[t].pos + 1, todo |-> A]]
    BY DEF Handle
<1> HIDE DEF A
<1>3. /\ reader' \in [Topics -> ReaderRecs]
      /\ \A k \in Topics \ {t} : reader'[k] = reader[k]
      /\ reader'[t].pc = "publish" /\ reader'[t].pos = reader[t].pos + 1 /\ reader'[t].todo = A
    BY <1>0, <1>1, <1>2 DEF ReaderRecs
<1> QED
    BY <1>3 DEF Handle, Handles, A

\* Publish sends only while it holds an event of the topic.
LEMMA SendEffect ==
    ASSUME Base, NEW t \in Topics, NEW s \in Streams, Send(t, s)
    PROVE  Sends(t, s)
<1> DEFINE e == log[t][reader[t].pos]
<1>0. /\ reader \in [Topics -> ReaderRecs] /\ reader[t] \in ReaderRecs /\ reader[t].pos \in Nat
      /\ stream \in [Streams -> StreamRecs] /\ stream[s] \in StreamRecs
      /\ log[t] \in Seq(Events) /\ missed \in [Streams -> SUBSET Orders]
    BY DEF Base, Types, ReaderRecs
<1>1. s \in reader[t].todo
    BY DEF Send
<1>2. reader[t].pos \in 1 .. Len(log[t])
    BY <1>0, <1>1 DEF Base, ReaderInv
<1>3. e \in Events
    BY <1>0, <1>2
<1>4. reader' = [reader EXCEPT ![t].todo = @ \ {s}]
    BY DEF Send
<1>5. /\ reader' \in [Topics -> ReaderRecs]
      /\ \A k \in Topics \ {t} : reader'[k] = reader[k]
      /\ reader'[t].pc = reader[t].pc /\ reader'[t].pos = reader[t].pos
      /\ reader'[t].todo = reader[t].todo \ {s}
    BY <1>0, <1>4 DEF ReaderRecs
<1>6. UNCHANGED <<version, outbox, log, subs, screen, app, deadline, late>>
    BY DEF Send
<1>7. CASE HasRoom(s)
    <2>1. stream' = [stream EXCEPT ![s].buf = Append(@, e)] /\ UNCHANGED missed
        BY <1>7 DEF Send
    <2> HIDE DEF e
    <2>2. Append(stream[s].buf, e) \in Seq(Events)
        BY <1>0, <1>3 DEF StreamRecs
    <2> DEFINE rec == [stream[s] EXCEPT !.buf = Append(stream[s].buf, e)]
    <2>3. /\ rec \in StreamRecs /\ rec.kind = stream[s].kind /\ rec.rest = stream[s].rest
          /\ rec.order = stream[s].order /\ rec.buf = Append(stream[s].buf, e)
          /\ rec.pc = stream[s].pc /\ rec.fetched = stream[s].fetched
          /\ rec.conn = stream[s].conn /\ rec.greeted = stream[s].greeted
        BY <1>0, <2>2 DEF StreamRecs
    <2>4. stream' = [stream EXCEPT ![s] = rec]
        BY <2>1
    <2> HIDE DEF rec
    <2>5. /\ stream' \in [Streams -> StreamRecs] /\ stream'[s] = rec
          /\ \A u \in Streams \ {s} : stream'[u] = stream[u]
        BY <1>0, <2>3, <2>4, StreamUpdate
    <2> QED
        BY <1>0, <1>1, <1>3, <1>5, <1>6, <1>7, <2>1, <2>3, <2>5 DEF Sends, Same, HasRoom, e
<1>8. CASE ~HasRoom(s)
    <2>1. missed' = [missed EXCEPT ![s] = @ \cup ({e.item} \cap Orders)] /\ UNCHANGED stream
        BY <1>8 DEF Send
    <2>2. /\ missed' \in [Streams -> SUBSET Orders]
          /\ missed'[s] = missed[s] \cup ({e.item} \cap Orders)
          /\ \A u \in Streams \ {s} : missed'[u] = missed[u]
        BY <1>0, <2>1
    <2> QED
        BY <1>0, <1>1, <1>3, <1>5, <1>6, <1>8, <2>1, <2>2 DEF Sends, Same, HasRoom
<1> QED
    BY <1>7, <1>8

\* Every step is one of these.
Step ==
    \/ Changed
    \/ \E e \in Events : Produces(e)
    \/ \E t \in Topics : Rests(t) \/ Handles(t) \/ (\E s \in Streams : Sends(t, s))
    \/ \E s \in Streams : GoesOn(s) \/ Subscribes(s) \/ Leaves(s) \/ Takes(s) \/ Fetches(s)
    \/ Ends
    \/ UNCHANGED vars

\* The actions of the model are covered.
LEMMA NextStep == Base /\ [Next]_vars => Step
<1> SUFFICES ASSUME Base, [Next]_vars PROVE Step
    OBVIOUS
<1>0. Types
    BY DEF Base
<1>1. CASE Change
    BY <1>0, <1>1, ChangeEffect DEF Step
<1>2. ASSUME NEW e \in outbox, Produce(e) PROVE Step
    <2>1. e \in Events
        BY <1>0 DEF Types
    <2> QED
        BY <1>0, <1>2, <2>1, ProduceEffect DEF Step
<1>3. ASSUME NEW t \in Topics, ReaderStep(t) \/ StopConsumer(t) PROVE Step
    <2>1. CASE Join(t) \/ Published(t) \/ StopConsumer(t)
        <3>1. reader[t].pc # "publish" => reader[t].todo = {}
            BY DEF Base, ReaderInv
        <3> QED
            BY <1>0, <2>1, <3>1, ReaderEffect DEF Step
    <2>2. CASE Handle(t)
        BY <1>0, <2>2, HandleEffect DEF Step
    <2>3. CASE \E s \in Streams : Send(t, s)
        BY <2>3, SendEffect DEF Step
    <2> QED
        BY <1>3, <2>1, <2>2, <2>3 DEF ReaderStep
<1>4. ASSUME NEW s \in Streams, Open(s) \/ StreamStep(s) \/ ClientFetches(s) \/ Cut(s) PROVE Step
    BY <1>0, <1>4, StreamEffect DEF Step
<1>5. CASE Signal \/ CloseClients \/ StopHTTP \/ Deadline
    <2>1. Ends
        BY <1>0, <1>5 DEF Signal, CloseClients, StopHTTP, Deadline, Ends, Types
    <2> QED
        BY <2>1 DEF Step
<1>6. CASE UNCHANGED vars
    BY <1>6 DEF Step
<1> QED
    BY <1>1, <1>2, <1>3, <1>4, <1>5, <1>6 DEF Next, Shutdown

\* A step keeps the types.
LEMMA TypesStep == Types /\ Step => Types'
<1> SUFFICES ASSUME Types, Step PROVE Types'
    OBVIOUS
<1>1. CASE Changed
    <2>1. PICK e \in Events : outbox' = outbox \cup {e}
        BY <1>1 DEF Changed
    <2>2. outbox' \subseteq Events /\ IsFiniteSet(outbox')
        BY <2>1, FS_AddElement DEF Types
    <2> QED
        BY <1>1, <2>2 DEF Changed, Types
<1>2. ASSUME NEW e \in Events, Produces(e) PROVE Types'
    <2>1. outbox' \subseteq Events /\ IsFiniteSet(outbox')
        BY <1>2, FS_Subset DEF Types, Produces
    <2> QED
        BY <1>2, <2>1 DEF Produces, Types
<1>3. ASSUME NEW t \in Topics, Rests(t) \/ Handles(t) PROVE Types'
    BY <1>3 DEF Rests, Handles, Types
<1>4. ASSUME NEW t \in Topics, NEW s \in Streams, Sends(t, s) PROVE Types'
    BY <1>4 DEF Sends, Same, Types
<1>5. ASSUME NEW s \in Streams, GoesOn(s) \/ Subscribes(s) \/ Leaves(s) PROVE Types'
    BY <1>5 DEF GoesOn, Subscribes, Leaves, Same, Types
<1>6. ASSUME NEW s \in Streams, Takes(s) \/ Fetches(s) PROVE Types'
    BY <1>6 DEF Takes, Fetches, Same, Types
<1>7. CASE Ends \/ UNCHANGED vars
    BY <1>7 DEF Ends, vars, Types
<1> QED
    BY <1>1, <1>2, <1>3, <1>4, <1>5, <1>6, <1>7 DEF Step

\* A step keeps subscriptions with the streams they are of.
LEMMA SubsStep == Base /\ Step => SubsInv'
<1> SUFFICES ASSUME Base, Step, NEW t \in Topics, NEW s \in Streams
             PROVE  s \in subs'[t] <=> Topic(s)' = t /\ stream'[s].pc \in Subscribed
    BY DEF SubsInv
<1>0. s \in subs[t] <=> Topic(s) = t /\ stream[s].pc \in Subscribed
    BY DEF Base, SubsInv
<1>1. CASE UNCHANGED <<subs, stream>>
    BY <1>0, <1>1 DEF Topic
<1>2. ASSUME NEW u \in Streams, Same(u), UNCHANGED subs, u # s \/ stream'[s].pc = stream[s].pc
                 \/ (stream[s].pc \in Subscribed <=> stream'[s].pc \in Subscribed)
      PROVE  s \in subs'[t] <=> Topic(s)' = t /\ stream'[s].pc \in Subscribed
    BY <1>0, <1>2 DEF Same, Topic
<1>3. CASE \E u \in Streams : GoesOn(u)
    BY <1>2, <1>3 DEF GoesOn, Subscribed
<1>4. CASE \E u \in Streams : Takes(u) \/ Fetches(u)
    BY <1>2, <1>4 DEF Takes, Fetches, Subscribed
<1>5. CASE \E k \in Topics, u \in Streams : Sends(k, u)
    BY <1>2, <1>5 DEF Sends, Subscribed
<1>6. ASSUME NEW u \in Streams, Subscribes(u)
      PROVE  s \in subs'[t] <=> Topic(s)' = t /\ stream'[s].pc \in Subscribed
    <2>1. Topic(s)' = Topic(s)
        BY <1>6 DEF Subscribes, Same, Topic
    <2> QED
        BY <1>0, <1>6, <2>1 DEF Subscribes, Same, Subscribed
<1>7. ASSUME NEW u \in Streams, Leaves(u)
      PROVE  s \in subs'[t] <=> Topic(s)' = t /\ stream'[s].pc \in Subscribed
    <2>1. Topic(s)' = Topic(s)
        BY <1>7 DEF Leaves, Same, Topic
    <2> QED
        BY <1>0, <1>7, <2>1 DEF Leaves, Same, Subscribed
<1>8. CASE Changed \/ Ends \/ (UNCHANGED vars) \/ (\E e \in Events : Produces(e))
           \/ (\E k \in Topics : Rests(k) \/ Handles(k))
    BY <1>1, <1>8 DEF Changed, Ends, vars, Produces, Rests, Handles
<1> QED
    BY <1>3, <1>4, <1>5, <1>6, <1>7, <1>8 DEF Step

\* A step keeps the publishers with the subscribers they send to.
LEMMA ReaderStays == Base /\ Step => ReaderInv'
<1> SUFFICES ASSUME Base, Step, NEW t \in Topics
             PROVE  /\ reader'[t].todo \subseteq subs'[t]
                    /\ reader'[t].pc # "publish" => reader'[t].todo = {}
                    /\ reader'[t].pc = "publish" => reader'[t].pos > 0
                    /\ reader'[t].pos <= Len(log'[t])
    BY DEF ReaderInv
<1> DEFINE OK == /\ reader'[t].todo \subseteq subs'[t]
                 /\ reader'[t].pc # "publish" => reader'[t].todo = {}
                 /\ reader'[t].pc = "publish" => reader'[t].pos > 0
                 /\ reader'[t].pos <= Len(log'[t])
<1>0. /\ reader[t].todo \subseteq subs[t]
      /\ reader[t].pc # "publish" => reader[t].todo = {}
      /\ reader[t].pc = "publish" => reader[t].pos > 0
      /\ reader[t].pos <= Len(log[t])
    BY DEF Base, ReaderInv
<1>t. /\ reader[t].pos \in Nat /\ log[t] \in Seq(Events) /\ Len(log[t]) \in Nat
    BY DEF Base, Types, ReaderRecs
<1>1. CASE UNCHANGED <<subs, reader, log>>
    BY <1>0, <1>1
<1>2. ASSUME NEW e \in Events, Produces(e) PROVE OK
    <2>1. UNCHANGED <<reader, subs>>
        BY <1>2 DEF Produces
    <2>2. log'[t] = log[t] \/ log'[t] = Append(log[t], e)
        BY <1>2 DEF Produces
    <2>3. Len(log[t]) <= Len(log'[t]) /\ Len(log'[t]) \in Nat
        BY <1>t, <2>2
    <2> QED
        BY <1>0, <1>t, <2>1, <2>3
<1>3. ASSUME NEW k \in Topics, Rests(k) \/ Handles(k) \/ (\E u \in Streams : Sends(k, u)) PROVE OK
    <2>0. UNCHANGED <<subs, log>>
        BY <1>3 DEF Rests, Handles, Sends
    <2>1. CASE k # t
        <3>1. reader'[t] = reader[t]
            BY <1>3, <2>1 DEF Rests, Handles, Sends
        <3> QED
            BY <1>0, <2>0, <3>1
    <2>2. CASE k = t /\ Rests(t)
        BY <1>0, <1>t, <2>0, <2>2 DEF Rests
    <2>3. CASE k = t /\ Handles(t)
        <3>1. reader'[t].todo \subseteq subs[t]
            BY <2>3 DEF Handles, Audience
        <3> QED
            BY <1>t, <2>0, <2>3, <3>1 DEF Handles
    <2>4. CASE k = t /\ \E u \in Streams : Sends(t, u)
        <3>1. /\ reader'[t].todo \subseteq reader[t].todo
              /\ reader'[t].pc = reader[t].pc /\ reader'[t].pos = reader[t].pos
            BY <2>4 DEF Sends
        <3> QED
            BY <1>0, <2>0, <3>1
    <2> QED
        BY <1>3, <2>1, <2>2, <2>3, <2>4
<1>4. ASSUME NEW u \in Streams, Subscribes(u) PROVE OK
    <2>1. UNCHANGED <<reader, log>> /\ subs[t] \subseteq subs'[t]
        BY <1>4 DEF Subscribes
    <2> QED
        BY <1>0, <2>1
<1>5. ASSUME NEW u \in Streams, Leaves(u) PROVE OK
    <2>1. UNCHANGED <<reader, log>> /\ (t # Topic(u) => subs'[t] = subs[t])
        BY <1>5 DEF Leaves
    <2>2. t = Topic(u) => reader[t].pc # "publish"
        BY <1>5 DEF Leaves, Unlocked
    <2> QED
        BY <1>0, <2>1, <2>2
<1>6. CASE Changed \/ Ends \/ (UNCHANGED vars)
           \/ (\E u \in Streams : GoesOn(u) \/ Takes(u) \/ Fetches(u))
    BY <1>1, <1>6 DEF Changed, Ends, vars, GoesOn, Takes, Fetches
<1> QED
    BY <1>2, <1>3, <1>4, <1>5, <1>6 DEF Step

\* At the start nobody is subscribed and nothing is under way.
LEMMA InitBase == Init => Base /\ Bounded
<1> SUFFICES ASSUME Init PROVE Base /\ Bounded
    OBVIOUS
<1>1. /\ outbox = {} /\ IsFiniteSet(outbox)
      /\ version \in [Items -> Nat] /\ log \in [Topics -> Seq(Events)]
      /\ reader \in [Topics -> ReaderRecs] /\ subs \in [Topics -> SUBSET Streams]
      /\ screen \in [Streams -> [Items -> Nat]] /\ missed \in [Streams -> SUBSET Orders]
      /\ app = "up" /\ deadline = FALSE /\ late = {}
    BY FS_EmptySet DEF Init, ReaderRecs
<1>2. stream \in [Streams -> StreamRecs] /\ \A s \in Streams : stream[s].pc = "off" /\ stream[s].buf = <<>>
    <2>1. stream \in [Streams -> [kind : Kinds, rest : Restaurants, order : Orders, pc : {"off"},
                               conn : {"up"}, buf : {<<>>}, greeted : {FALSE}, fetched : {FALSE}]]
        BY DEF Init
    <2>2. <<>> \in Seq(Events)
        OBVIOUS
    <2>3. \A r \in [kind : Kinds, rest : Restaurants, order : Orders, pc : {"off"},
                    conn : {"up"}, buf : {<<>>}, greeted : {FALSE}, fetched : {FALSE}] :
              r \in StreamRecs /\ r.pc = "off" /\ r.buf = <<>>
        BY <2>2 DEF StreamRecs, StreamPC
    <2> QED
        BY <2>1, <2>3
<1>3. /\ \A t \in Topics : reader[t].pc = "joining" /\ reader[t].pos = 0 /\ reader[t].todo = {}
      /\ \A t \in Topics : subs[t] = {} /\ log[t] = <<>>
    BY DEF Init
<1>4. Types
    BY <1>1, <1>2 DEF Types
<1>5. SubsInv /\ ReaderInv
    BY <1>2, <1>3 DEF SubsInv, ReaderInv, Subscribed
<1>6. Bounded
    BY <1>2, ConstantsAssumption DEF Bounded
<1> QED
    BY <1>4, <1>5, <1>6 DEF Base

\* What a step does to a stream.
LEMMA StreamMoves ==
    ASSUME Step, NEW s \in Streams
    PROVE  \/ stream'[s] = stream[s]
           \/ /\ Same(s)
              /\ \/ GoesOn(s) \/ Subscribes(s) \/ Leaves(s) \/ Takes(s) \/ Fetches(s)
                 \/ \E t \in Topics : Sends(t, s)
<1>1. CASE Changed \/ Ends \/ (UNCHANGED vars) \/ (\E e \in Events : Produces(e))
           \/ (\E k \in Topics : Rests(k) \/ Handles(k))
    BY <1>1 DEF Changed, Ends, vars, Produces, Rests, Handles
<1>2. ASSUME NEW t \in Topics, NEW u \in Streams, Sends(t, u)
      PROVE  stream'[s] = stream[s] \/ (Same(s) /\ Sends(t, s))
    <2>1. Same(u)
        BY <1>2 DEF Sends
    <2> QED
        BY <1>2, <2>1 DEF Same
<1>3. ASSUME NEW u \in Streams, GoesOn(u) \/ Subscribes(u) \/ Leaves(u) \/ Takes(u) \/ Fetches(u)
      PROVE  \/ stream'[s] = stream[s]
             \/ Same(s) /\ (GoesOn(s) \/ Subscribes(s) \/ Leaves(s) \/ Takes(s) \/ Fetches(s))
    <2>1. Same(u)
        BY <1>3 DEF GoesOn, Subscribes, Leaves, Takes, Fetches
    <2>2. u # s => stream'[s] = stream[s]
        BY <2>1 DEF Same
    <2> QED
        BY <1>3, <2>1, <2>2
<1> QED
    BY <1>1, <1>2, <1>3 DEF Step

\* Its buffer.
LEMMA BufferMoves ==
    ASSUME Step, NEW s \in Streams
    PROVE  stream'[s].buf = stream[s].buf \/ (\E t \in Topics : Sends(t, s)) \/ Takes(s)
BY StreamMoves DEF GoesOn, Subscribes, Leaves, Fetches

\* What a step does to a consumer.
LEMMA ReaderMoves ==
    ASSUME Step, NEW t \in Topics
    PROVE  \/ reader'[t] = reader[t] \/ Rests(t) \/ Handles(t)
           \/ \E s \in Streams : Sends(t, s)
<1>1. CASE Changed \/ Ends \/ (UNCHANGED vars) \/ (\E e \in Events : Produces(e))
           \/ (\E s \in Streams : GoesOn(s) \/ Subscribes(s) \/ Leaves(s) \/ Takes(s) \/ Fetches(s))
    <2>1. UNCHANGED reader
        BY <1>1 DEF Changed, Ends, vars, Produces, GoesOn, Subscribes, Leaves, Takes, Fetches
    <2> QED
        BY <2>1
<1>2. ASSUME NEW k \in Topics, Rests(k) \/ Handles(k) \/ (\E s \in Streams : Sends(k, s))
      PROVE  reader'[t] = reader[t] \/ k = t
    BY <1>2 DEF Rests, Handles, Sends
<1> QED
    BY <1>1, <1>2 DEF Step

\* trySend never puts more into a channel than it holds.
LEMMA BoundedStep == Base /\ Bounded /\ Step => Bounded'
<1> SUFFICES ASSUME Base, Bounded, Step, NEW s \in Streams PROVE Len(stream'[s].buf) <= Capacity
    BY DEF Bounded
<1>0. /\ stream[s].buf \in Seq(Events) /\ Len(stream[s].buf) <= Capacity /\ Capacity \in Nat
    BY ConstantsAssumption DEF Base, Types, StreamRecs, Bounded
<1>1. stream'[s].buf = stream[s].buf \/ (\E t \in Topics : Sends(t, s)) \/ Takes(s)
    BY BufferMoves
<1>2. CASE stream'[s].buf = stream[s].buf
    BY <1>0, <1>2
<1>3. ASSUME NEW t \in Topics, Sends(t, s) PROVE Len(stream'[s].buf) <= Capacity
    <2>1. PICK e \in Events : \/ Len(stream[s].buf) < Capacity /\ stream'[s].buf = Append(stream[s].buf, e)
                              \/ stream'[s].buf = stream[s].buf
        BY <1>3 DEF Sends
    <2> QED
        BY <1>0, <2>1
<1>4. CASE Takes(s)
    <2>1. stream[s].buf # <<>> /\ stream'[s].buf = Tail(stream[s].buf)
        BY <1>4 DEF Takes
    <2> QED
        BY <1>0, <2>1
<1> QED
    BY <1>1, <1>2, <1>3, <1>4

\* Types, subscriptions and publishers are right in every reachable state.
LEMMA BaseCorrect == Spec => [](Base /\ Bounded)
<1>1. Base /\ Bounded /\ [Next]_vars => (Base /\ Bounded)'
    BY NextStep, TypesStep, SubsStep, ReaderStays, BoundedStep DEF Base
<1> QED
    BY <1>1, InitBase, PTL DEF Spec

\* NoSendOnClosed for every instance: the read lock that Publish holds keeps
\* Unsubscribe from closing a channel that is still to be sent to.
THEOREM NothingClosedIsSentTo == Spec => []NoSendOnClosed
<1>1. Base => NoSendOnClosed
    <2> SUFFICES ASSUME Base, NEW t \in Topics, NEW s \in reader[t].todo PROVE stream[s].pc # "ended"
        BY DEF NoSendOnClosed
    <2>1. s \in subs[t] /\ s \in Streams
        BY DEF Base, ReaderInv, Types
    <2> QED
        BY <2>1 DEF Base, SubsInv, Subscribed
<1> QED
    BY <1>1, BaseCorrect, PTL

----------------------------------------------------------------------------
(* Events and what streams are told.                                       *)

\* An event has the routing key of its order, or is about a menu.
Proper(e) ==
    IF e.topic = "orders" THEN e.item \in Orders /\ e.rest = Home[e.item] ELSE e.item = All
For(s, e) == Proper(e) /\ e.topic = Topic(s) /\ e.rest \in {stream[s].rest, All}
EventInv ==
    /\ \A e \in outbox : Proper(e)
    /\ \A t \in Topics : \A n \in 1 .. Len(log[t]) : Proper(log[t][n]) /\ log[t][n].topic = t
    /\ \A t \in Topics : \A s \in reader[t].todo : For(s, log[t][reader[t].pos])
    /\ \A s \in Streams : \A n \in 1 .. Len(stream[s].buf) : For(s, stream[s].buf[n])

\* A client fetches when it has been greeted, from the loop on, and it is
\* excused when the consumer had not joined.
StreamOK(s) ==
    /\ stream[s].kind = "tracking" => stream[s].rest = Home[stream[s].order]
    /\ stream[s].fetched => stream[s].greeted
    /\ stream[s].greeted => stream[s].pc \in {"loop", "leave", "ended"}
    /\ stream[s].fetched /\ s \notin late => reader[Topic(s)].pc # "joining"
StreamInv == \A s \in Streams : StreamOK(s)

\* What a stream is for stays the same.
LEMMA SameStream ==
    ASSUME Step, NEW s \in Streams
    PROVE  /\ stream'[s].kind = stream[s].kind /\ stream'[s].rest = stream[s].rest
           /\ stream'[s].order = stream[s].order
           /\ Topic(s)' = Topic(s)
           /\ \A e : For(s, e)' <=> For(s, e)
           /\ \A i : Wants(s, i)' <=> Wants(s, i)
<1>1. /\ stream'[s].kind = stream[s].kind /\ stream'[s].rest = stream[s].rest
      /\ stream'[s].order = stream[s].order
    BY StreamMoves DEF Same
<1> QED
    BY <1>1 DEF Topic, For, Proper, Wants

\* A step keeps events with what they are about and whom they are for.
LEMMA EventStep == Base /\ EventInv /\ Step => EventInv'
<1> SUFFICES ASSUME Base, EventInv, Step PROVE EventInv'
    OBVIOUS
<1>0. /\ \A t \in Topics : /\ log[t] \in Seq(Events) /\ Len(log[t]) \in Nat
                           /\ reader[t].todo \subseteq Streams /\ reader[t].pos \in Nat
                           /\ reader[t].todo # {} => reader[t].pos \in 1 .. Len(log[t])
      /\ \A s \in Streams : stream[s].buf \in Seq(Events) /\ Len(stream[s].buf) \in Nat
      /\ outbox \subseteq Events
    BY DEF Base, Types, ReaderRecs, ReaderInv, StreamRecs
<1> DEFINE Out == \A e \in outbox : Proper(e)
           Log == \A t \in Topics : \A n \in 1 .. Len(log[t]) : Proper(log[t][n]) /\ log[t][n].topic = t
           Todo == \A t \in Topics : \A s \in reader[t].todo : For(s, log[t][reader[t].pos])
           Buf == \A s \in Streams : \A n \in 1 .. Len(stream[s].buf) : For(s, stream[s].buf[n])
<1>1. \A s \in Streams : \A e : For(s, e)' <=> For(s, e)
    BY SameStream
<1>2. Out'
    <2>1. CASE Changed
        BY <2>1 DEF Changed, EventInv, Proper
    <2>2. outbox' \subseteq outbox \/ Changed
        BY DEF Step, Changed, Produces, Rests, Handles, Sends, GoesOn, Subscribes, Leaves, Takes,
               Fetches, Ends, vars
    <2> QED
        BY <2>1, <2>2 DEF EventInv, Proper
<1>3. Log' /\ \A t \in Topics : \A n \in 1 .. Len(log[t]) : log'[t][n] = log[t][n]
    <2>1. CASE UNCHANGED log
        BY <2>1 DEF EventInv, Proper
    <2>2. ASSUME NEW e \in Events, Produces(e)
          PROVE  Log' /\ \A t \in Topics : \A n \in 1 .. Len(log[t]) : log'[t][n] = log[t][n]
        <3>1. Proper(e)
            BY <2>2 DEF Produces, EventInv
        <3>2. ASSUME NEW t \in Topics, t = e.topic
              PROVE  /\ \A n \in 1 .. Len(log'[t]) : Proper(log'[t][n]) /\ log'[t][n].topic = t
                     /\ \A n \in 1 .. Len(log[t]) : log'[t][n] = log[t][n]
            <4>1. log'[t] = Append(log[t], e)
                BY <2>2, <3>2 DEF Produces
            <4>2. \A n \in 1 .. Len(log[t]) : Proper(log[t][n]) /\ log[t][n].topic = t
                BY DEF EventInv
            <4>3. /\ Len(log'[t]) = Len(log[t]) + 1 /\ log'[t][Len(log[t]) + 1] = e
                  /\ \A n \in 1 .. Len(log[t]) : log'[t][n] = log[t][n]
                BY <1>0, <4>1
            <4>4. \A n \in 1 .. Len(log'[t]) : n \in 1 .. Len(log[t]) \/ n = Len(log[t]) + 1
                BY <1>0, <4>3
            <4> QED
                BY <3>1, <3>2, <4>2, <4>3, <4>4
        <3>3. \A t \in Topics : t # e.topic => log'[t] = log[t]
            BY <2>2 DEF Produces
        <3> QED
            BY <3>2, <3>3 DEF EventInv, Proper
    <2>3. UNCHANGED log \/ \E e \in Events : Produces(e)
        BY DEF Step, Changed, Rests, Handles, Sends, GoesOn, Subscribes, Leaves, Takes,
               Fetches, Ends, vars
    <2> QED
        BY <2>1, <2>2, <2>3
<1>4. Todo'
    <2> SUFFICES ASSUME NEW t \in Topics, NEW s \in reader'[t].todo
                 PROVE  s \in Streams /\ \E e : e = log'[t][reader'[t].pos] /\ For(s, e)
        BY <1>1 DEF For, Proper
    <2>1. CASE s \in reader[t].todo /\ reader'[t].pos = reader[t].pos
        <3>1. s \in Streams /\ reader[t].pos \in 1 .. Len(log[t])
            BY <1>0, <2>1
        <3>2. For(s, log[t][reader[t].pos])
            BY <2>1 DEF EventInv
        <3>3. log'[t][reader[t].pos] = log[t][reader[t].pos]
            BY <1>3, <3>1
        <3> QED
            BY <2>1, <3>1, <3>2, <3>3
    <2>2. CASE Handles(t)
        <3> DEFINE e == log[t][reader[t].pos + 1]
        <3>1. s \in Audience(t, e) /\ reader'[t].pos = reader[t].pos + 1 /\ UNCHANGED log
              /\ reader[t].pos < Len(log[t])
            BY <2>2 DEF Handles
        <3>2. reader[t].pos + 1 \in 1 .. Len(log[t])
            BY <1>0, <3>1
        <3>3. Proper(e) /\ e.topic = t
            BY <3>2 DEF EventInv
        <3>4. s \in subs[t] /\ e.rest \in {stream[s].rest, All} /\ s \in Streams
            BY <3>1 DEF Audience, Base, Types
        <3>5. Topic(s) = t
            BY <3>4 DEF Base, SubsInv
        <3>6. For(s, e)
            BY <3>3, <3>4, <3>5 DEF For
        <3>7. log'[t][reader'[t].pos] = e
            BY <3>1
        <3> HIDE DEF e
        <3> QED
            BY <3>4, <3>6, <3>7
    <2>3. Handles(t) \/ (s \in reader[t].todo /\ reader'[t].pos = reader[t].pos)
        BY ReaderMoves DEF Rests, Sends
    <2> QED
        BY <2>1, <2>2, <2>3
<1>5. Buf'
    <2> SUFFICES ASSUME NEW s \in Streams, NEW n \in 1 .. Len(stream'[s].buf)
                 PROVE  \E e : e = stream'[s].buf[n] /\ For(s, e)
        BY <1>1 DEF For, Proper
    <2>1. \A k \in 1 .. Len(stream[s].buf) : For(s, stream[s].buf[k])
        BY DEF EventInv
    <2>2. \E e : stream'[s].buf[n] = e /\ For(s, e)
        <3>1. CASE stream'[s].buf = stream[s].buf
            BY <2>1, <3>1
        <3>2. ASSUME NEW t \in Topics, Sends(t, s) PROVE \E e : stream'[s].buf[n] = e /\ For(s, e)
            <4> DEFINE e == log[t][reader[t].pos]
            <4>1. s \in reader[t].todo /\ (stream'[s].buf = stream[s].buf \/ stream'[s].buf = Append(stream[s].buf, e))
                BY <3>2 DEF Sends
            <4>2. For(s, e)
                BY <4>1 DEF EventInv
            <4> HIDE DEF e
            <4>3. CASE stream'[s].buf = Append(stream[s].buf, e)
                <5>1. /\ Len(stream'[s].buf) = Len(stream[s].buf) + 1
                      /\ \A k \in 1 .. Len(stream[s].buf) : stream'[s].buf[k] = stream[s].buf[k]
                      /\ stream'[s].buf[Len(stream[s].buf) + 1] = e
                    BY <1>0, <4>3
                <5>2. n \in 1 .. Len(stream[s].buf) \/ n = Len(stream[s].buf) + 1
                    BY <1>0, <5>1
                <5> QED
                    BY <2>1, <4>2, <5>1, <5>2
            <4> QED
                BY <3>1, <4>1, <4>3
        <3>3. CASE Takes(s)
            <4>1. stream[s].buf # <<>> /\ stream'[s].buf = Tail(stream[s].buf)
                BY <3>3 DEF Takes
            <4>2. n + 1 \in 1 .. Len(stream[s].buf) /\ stream'[s].buf[n] = stream[s].buf[n + 1]
                BY <1>0, <4>1
            <4> QED
                BY <2>1, <4>2
        <3>4. stream'[s].buf = stream[s].buf \/ (\E t \in Topics : Sends(t, s)) \/ Takes(s)
            BY BufferMoves
        <3> QED
            BY <3>1, <3>2, <3>3, <3>4
    <2> QED
        BY <2>2
<1> QED
    BY <1>2, <1>3, <1>4, <1>5 DEF EventInv

\* Type correctness, with the bound of the channels' buffers; and a channel
\* holds only events of its stream's hub and restaurant.
THEOREM TypeCorrect == Spec => []TypeOK
<1>1. Init => EventInv
    <2> SUFFICES ASSUME Init PROVE EventInv
        OBVIOUS
    <2>1. /\ \A s \in Streams : stream[s].buf = <<>>
          /\ outbox = {} /\ \A t \in Topics : log[t] = <<>> /\ reader[t].todo = {}
        BY DEF Init
    <2> QED
        BY <2>1 DEF EventInv
<1>2. EventInv /\ (Base /\ Bounded) /\ [Next]_vars => EventInv'
    BY NextStep, EventStep
<1>3. Base /\ Bounded /\ EventInv => TypeOK
    <2> SUFFICES ASSUME Base, Bounded, EventInv PROVE TypeOK
        OBVIOUS
    <2>1. \A s \in Streams : \A n \in 1 .. Len(stream[s].buf) :
              /\ stream[s].buf[n].topic = Topic(s)
              /\ stream[s].buf[n].rest \in {stream[s].rest, All}
        BY DEF EventInv, For
    <2> QED
        BY <2>1 DEF Base, Types, Bounded, TypeOK, StreamRecs, StreamPC, ReaderRecs
<1> QED
    BY <1>1, <1>2, <1>3, BaseCorrect, PTL DEF Spec

\* A step keeps what is known of greeted clients.
LEMMA StreamStays == Base /\ StreamInv /\ Step => StreamInv'
<1> SUFFICES ASSUME Base, StreamInv, Step, NEW s \in Streams PROVE StreamOK(s)'
    BY DEF StreamInv
<1>0. StreamOK(s) /\ Topic(s) \in Topics
    BY DEF StreamInv, Topic, Topics
<1>1. /\ stream'[s].kind = stream[s].kind /\ stream'[s].rest = stream[s].rest
      /\ stream'[s].order = stream[s].order /\ Topic(s)' = Topic(s)
    BY SameStream
<1>2. reader'[Topic(s)].pc = "joining" => reader[Topic(s)].pc = "joining"
    BY <1>0, ReaderMoves DEF Rests, Handles, Sends
<1>3. Fetches(s) \/ (s \in late' <=> s \in late)
    <2>1. ASSUME NEW u \in Streams, Fetches(u) PROVE Fetches(s) \/ (s \in late' <=> s \in late)
        BY <2>1 DEF Fetches
    <2>2. CASE \E u \in Streams : GoesOn(u) \/ Subscribes(u) \/ Leaves(u) \/ Takes(u)
        BY <2>2 DEF GoesOn, Subscribes, Leaves, Takes
    <2>3. CASE Changed \/ Ends \/ (UNCHANGED vars) \/ (\E e \in Events : Produces(e))
               \/ (\E k \in Topics : Rests(k) \/ Handles(k) \/ (\E u \in Streams : Sends(k, u)))
        BY <2>3 DEF Changed, Ends, vars, Produces, Rests, Handles, Sends
    <2> QED
        BY <2>1, <2>2, <2>3 DEF Step
<1>4. CASE Fetches(s)
    <2>1. /\ stream[s].greeted /\ stream'[s].greeted = stream[s].greeted
          /\ stream'[s].pc = stream[s].pc /\ UNCHANGED reader
          /\ s \in late' <=> reader[Topic(s)].pc = "joining"
        BY <1>4 DEF Fetches
    <2> QED
        BY <1>0, <1>1, <2>1 DEF StreamOK
<1>5. CASE s \in late' <=> s \in late
    <2>1. /\ stream'[s].fetched => stream[s].fetched \/ Fetches(s)
          /\ stream'[s].greeted => \/ stream[s].greeted /\ stream[s].pc \in {"loop", "leave", "ended"}
                                   \/ stream'[s].pc = "loop"
          /\ stream[s].greeted => stream'[s].greeted
        BY <1>0, StreamMoves DEF GoesOn, Subscribes, Leaves, Takes, Fetches, Sends, StreamOK
    <2>2. stream'[s].greeted => stream'[s].pc \in {"loop", "leave", "ended"}
        BY <2>1, StreamMoves DEF GoesOn, Subscribes, Leaves, Takes, Fetches, Sends
    <2>3. CASE ~Fetches(s)
        BY <1>0, <1>1, <1>2, <1>5, <2>1, <2>2, <2>3 DEF StreamOK
    <2> QED
        BY <1>4, <2>3
<1> QED
    BY <1>3, <1>4, <1>5

\* Events stay in their place in Kafka.
LEMMA LogGrows ==
    ASSUME Base, Step, NEW t \in Topics
    PROVE  /\ log[t] \in Seq(Events) /\ log'[t] \in Seq(Events)
           /\ \/ log'[t] = log[t]
              \/ \E e \in outbox : e.topic = t /\ log'[t] = Append(log[t], e) /\ Produces(e)
<1>1. log[t] \in Seq(Events) /\ log'[t] \in Seq(Events)
    BY TypesStep DEF Base, Types
<1>2. ASSUME NEW e \in Events, Produces(e)
      PROVE  \/ log'[t] = log[t]
             \/ e \in outbox /\ e.topic = t /\ log'[t] = Append(log[t], e)
    BY <1>2 DEF Produces
<1>3. CASE UNCHANGED log
    BY <1>1, <1>3
<1>4. UNCHANGED log \/ \E e \in Events : Produces(e)
    <2>1. CASE \E u \in Streams : GoesOn(u) \/ Subscribes(u) \/ Leaves(u) \/ Takes(u) \/ Fetches(u)
        BY <2>1 DEF GoesOn, Subscribes, Leaves, Takes, Fetches
    <2>2. CASE Changed \/ Ends \/ (UNCHANGED vars)
               \/ (\E k \in Topics : Rests(k) \/ Handles(k) \/ (\E u \in Streams : Sends(k, u)))
        BY <2>2 DEF Changed, Ends, vars, Rests, Handles, Sends
    <2> QED
        BY <2>1, <2>2 DEF Step
<1> QED
    BY <1>1, <1>2, <1>3, <1>4

\* An event that tells a client something it wants is routed to its stream.
LEMMA TellsRoute ==
    ASSUME StreamInv, NEW s \in Streams, NEW i \in Items, NEW e \in Events,
           stream[s] \in StreamRecs, Proper(e), Wants(s, i), Tells(s, i, e)
    PROVE  /\ e.topic = Topic(s) /\ e.rest \in {stream[s].rest, All}
           /\ Passes(s, e)
           /\ stream[s].kind # "kiosk" => i \in Orders /\ e.item = i /\ e.v = version[i]
<1>0. /\ stream[s].kind \in Kinds /\ stream[s].rest \in Restaurants /\ stream[s].order \in Orders
      /\ StreamOK(s) /\ e.topic \in Topics
      /\ Kinds = {"kiosk", "device", "tracking"} /\ Topics = {"menu", "orders"}
    BY DEF StreamRecs, StreamInv, Events, Kinds, Topics
<1>1. Orders \cap Restaurants = {} /\ All \notin Orders
    BY ConstantsAssumption
<1>2. CASE stream[s].kind = "kiosk"
    <2>1. i = stream[s].rest /\ i \notin Orders
        BY <1>0, <1>1, <1>2 DEF Wants
    <2> QED
        BY <1>2, <2>1 DEF Tells, Passes, Topic
<1>3. CASE stream[s].kind = "device"
    <2>1. i \in Orders /\ Home[i] = stream[s].rest
        BY <1>3 DEF Wants
    <2>2. e.item = i /\ e.v = version[i]
        BY <2>1 DEF Tells
    <2>3. e.topic = "orders" /\ e.rest = Home[i]
        BY <1>1, <2>1, <2>2 DEF Proper
    <2> QED
        BY <1>3, <2>1, <2>2, <2>3 DEF Passes, Topic
<1>4. CASE stream[s].kind = "tracking"
    <2>1. i = stream[s].order /\ i \in Orders
        BY <1>0, <1>4 DEF Wants
    <2>2. e.item = i /\ e.v = version[i]
        BY <2>1 DEF Tells
    <2>3. e.topic = "orders" /\ e.rest = Home[i]
        BY <1>1, <2>1, <2>2 DEF Proper
    <2> QED
        BY <1>0, <1>4, <2>1, <2>2, <2>3 DEF Passes, Topic, StreamOK
<1> QED
    BY <1>0, <1>2, <1>3, <1>4

\* A client that watches did so before, and if it is behind now, it was or
\* there has just been a change.
LEMMA WatchedBefore ==
    ASSUME Base, StreamInv, Step, NEW s \in Streams, Watching(s)', s \notin late', ~Fetches(s)
    PROVE  Watching(s) /\ s \notin late
<1>0. StreamOK(s)
    BY DEF StreamInv
<1>1. stream'[s].pc = "loop" /\ stream'[s].conn = "up" /\ stream'[s].fetched
    BY DEF Watching
<1>2. Watching(s)
    <2>1. CASE stream'[s] = stream[s]
        BY <1>1, <2>1 DEF Watching
    <2>2. CASE GoesOn(s)
        <3>1. stream[s].fetched /\ stream[s].conn = "up"
            BY <1>1, <2>2 DEF GoesOn
        <3>2. stream[s].pc \in {"loop", "leave", "ended"}
            BY <1>0, <3>1 DEF StreamOK
        <3>3. stream[s].pc = "loop"
            BY <1>1, <2>2, <3>2 DEF GoesOn
        <3> QED
            BY <3>1, <3>3 DEF Watching
    <2>3. CASE Takes(s)
        BY <1>1, <2>3 DEF Takes, Watching
    <2>4. CASE \E t \in Topics : Sends(t, s)
        BY <1>1, <2>4 DEF Sends, Watching
    <2>5. CASE Subscribes(s) \/ Leaves(s)
        BY <1>1, <2>5 DEF Subscribes, Leaves
    <2> QED
        BY <2>1, <2>2, <2>3, <2>4, <2>5, StreamMoves
<1>3. s \notin late
    <2>1. ASSUME NEW u \in Streams, Fetches(u) PROVE s \notin late
        BY <2>1 DEF Fetches
    <2>2. CASE \E u \in Streams : GoesOn(u) \/ Subscribes(u) \/ Leaves(u) \/ Takes(u)
        BY <2>2 DEF GoesOn, Subscribes, Leaves, Takes
    <2>3. CASE Changed \/ Ends \/ (UNCHANGED vars) \/ (\E e \in Events : Produces(e))
               \/ (\E k \in Topics : Rests(k) \/ Handles(k) \/ (\E u \in Streams : Sends(k, u)))
        BY <2>3 DEF Changed, Ends, vars, Produces, Rests, Handles, Sends
    <2> QED
        BY <2>1, <2>2, <2>3 DEF Step
<1> QED
    BY <1>2, <1>3

\* No news gets lost between kfc-order or kfc-crm and a client that watches.
LEMMA LostStep == Base /\ Bounded /\ EventInv /\ StreamInv /\ NothingLost /\ Step => NothingLost'
<1> SUFFICES ASSUME Base, Bounded, EventInv, StreamInv, NothingLost, Step,
                    NEW s \in Streams, NEW i \in Items,
                    Watching(s)', s \notin late', Wants(s, i)', i \notin missed'[s],
                    screen'[s][i] < version'[i]
             PROVE  OnItsWay(s, i)'
    BY DEF NothingLost
<1> DEFINE t == Topic(s)
           News(e) == IF i \in Orders THEN e.item = i /\ e.v = version'[i]
                      ELSE e.topic = "menu" /\ e.rest \in {i, All}
<1>t. t \in Topics /\ Topic(s)' = t /\ Wants(s, i)
    BY SameStream DEF Topic, Topics
<1>q. ASSUME \/ \E e \in outbox' : News(e)
             \/ \E n \in 1 .. Len(log'[t]) :
                   /\ n > reader'[t].pos \/ (n = reader'[t].pos /\ s \in reader'[t].todo)
                   /\ News(log'[t][n])
             \/ \E n \in 1 .. Len(stream'[s].buf) : News(stream'[s].buf[n])
      PROVE  OnItsWay(s, i)'
    <2>1. log'[t] \in Seq(Events) /\ stream'[s].buf \in Seq(Events)
        BY <1>t, TypesStep DEF Base, Types, StreamRecs
    <2>2. DOMAIN (log'[t]) = 1 .. Len(log'[t]) /\ DOMAIN (stream'[s].buf) = 1 .. Len(stream'[s].buf)
        BY <2>1
    <2> QED
        BY <1>t, <1>q, <2>2 DEF OnItsWay, Tells
<1>0. /\ log[t] \in Seq(Events) /\ Len(log[t]) \in Nat
      /\ reader[t].pos \in Nat /\ reader[t].pos <= Len(log[t])
      /\ stream[s] \in StreamRecs /\ stream[s].buf \in Seq(Events) /\ Len(stream[s].buf) \in Nat
      /\ outbox \subseteq Events
      /\ \A n \in 1 .. Len(log[t]) : log[t][n] \in Events
      /\ \A n \in 1 .. Len(stream[s].buf) : stream[s].buf[n] \in Events
      /\ screen[s][i] \in Nat /\ version[i] \in Nat /\ version'[i] \in Nat /\ screen'[s][i] \in Nat
    BY <1>t, TypesStep DEF Base, Types, ReaderRecs, ReaderInv, StreamRecs
<1>1. ~Fetches(s)
    <2> SUFFICES ASSUME Fetches(s) PROVE FALSE
        OBVIOUS
    <2>1. screen'[s][i] = version[i] /\ version'[i] = version[i]
        BY <1>t DEF Fetches
    <2> QED
        BY <1>0, <2>1
<1>2. Watching(s) /\ s \notin late
    BY <1>1, WatchedBefore
<1>3. ASSUME i \notin missed[s], screen[s][i] < version[i], version'[i] = version[i]
      PROVE  \/ \E e \in outbox : News(e)
             \/ \E n \in 1 .. Len(log[t]) :
                   /\ n > reader[t].pos \/ (n = reader[t].pos /\ s \in reader[t].todo)
                   /\ News(log[t][n])
             \/ \E n \in 1 .. Len(stream[s].buf) : News(stream[s].buf[n])
    <2>1. OnItsWay(s, i)
        BY <1>2, <1>3, <1>t DEF NothingLost
    <2>2. DOMAIN (log[t]) = 1 .. Len(log[t]) /\ DOMAIN (stream[s].buf) = 1 .. Len(stream[s].buf)
        BY <1>0
    <2> QED
        BY <1>3, <2>1, <2>2 DEF OnItsWay, Tells
    \* An event that brings news is for the stream.
<1>4. ASSUME NEW e \in Events, Proper(e), News(e), version'[i] = version[i]
      PROVE  /\ e.topic = t /\ e.rest \in {stream[s].rest, All} /\ Passes(s, e)
             /\ stream[s].kind # "kiosk" => i \in Orders /\ e.item = i /\ e.v = version[i]
    <2>1. Tells(s, i, e)
        BY <1>4 DEF Tells
    <2> QED
        BY <1>0, <1>4, <1>t, <2>1, TellsRoute
    \* Nothing of this stream and its topic changes.
<1>5. ASSUME version'[i] = version[i], screen'[s] = screen[s], missed'[s] = missed[s],
             outbox' = outbox, log'[t] = log[t], stream'[s].buf = stream[s].buf,
             reader'[t] = reader[t]
      PROVE  OnItsWay(s, i)'
    <2>1. i \notin missed[s] /\ screen[s][i] < version[i]
        BY <1>5
    <2> QED
        BY <1>3, <1>5, <1>q, <2>1
<1>6. CASE Changed
    <2>0. PICK e \in Events :
            /\ outbox' = outbox \cup {e}
            /\ \/ /\ e.topic = "orders" /\ e.item \in Orders /\ e.rest = Home[e.item]
                  /\ version'[e.item] = version[e.item] + 1 /\ e.v = version[e.item] + 1
                  /\ \A j \in Items \ {e.item} : version'[j] = version[j]
               \/ /\ e.topic = "menu" /\ e.item = All
                  /\ \A j \in Items : j \in Orders \/ e.rest \notin {j, All} => version'[j] = version[j]
        BY <1>6 DEF Changed
    <2>1. UNCHANGED <<log, reader, stream, screen, missed>>
        BY <1>6 DEF Changed
    <2>2. CASE version'[i] = version[i]
        <3>1. i \notin missed[s] /\ screen[s][i] < version[i]
            BY <2>1, <2>2
        <3> QED
            BY <1>3, <1>q, <2>0, <2>1, <2>2, <3>1
    <2>3. CASE version'[i] # version[i]
        <3>1. News(e)
            BY <2>0, <2>3
        <3> QED
            BY <1>q, <2>0, <3>1
    <2> QED
        BY <2>2, <2>3
<1>7. ASSUME NEW e \in Events, Produces(e) PROVE OnItsWay(s, i)'
    <2>0. /\ UNCHANGED <<version, reader, stream, screen, missed>>
          /\ e \in outbox /\ outbox' = outbox \ {e}
          /\ log'[e.topic] = Append(log[e.topic], e)
          /\ t # e.topic => log'[t] = log[t]
        BY <1>7, <1>t DEF Produces
    <2>1. Proper(e)
        BY <2>0 DEF EventInv
    <2>2. /\ Len(log[t]) <= Len(log'[t]) /\ Len(log'[t]) \in Nat
          /\ \A n \in 1 .. Len(log[t]) : log'[t][n] = log[t][n]
          /\ t = e.topic => Len(log'[t]) = Len(log[t]) + 1 /\ log'[t][Len(log[t]) + 1] = e
        BY <1>0, <2>0
    <2>3. i \notin missed[s] /\ screen[s][i] < version[i] /\ version'[i] = version[i]
        BY <2>0
    <2>4. CASE \E d \in outbox : News(d)
        <3>1. PICK d \in outbox : News(d)
            BY <2>4
        <3>2. CASE d # e
            BY <1>q, <2>0, <3>1, <3>2
        <3>3. CASE d = e
            <4>1. e.topic = t
                BY <1>4, <2>1, <2>3, <3>1, <3>3
            <4>2. Len(log[t]) + 1 \in 1 .. Len(log'[t]) /\ Len(log[t]) + 1 > reader'[t].pos
                BY <1>0, <2>0, <2>2, <4>1
            <4>3. News(log'[t][Len(log[t]) + 1])
                BY <2>2, <3>1, <3>3, <4>1
            <4> QED
                BY <1>q, <4>2, <4>3
        <3> QED
            BY <3>2, <3>3
    <2>5. CASE \E n \in 1 .. Len(log[t]) :
                   /\ n > reader[t].pos \/ (n = reader[t].pos /\ s \in reader[t].todo)
                   /\ News(log[t][n])
        <3>1. PICK n \in 1 .. Len(log[t]) :
                   /\ n > reader[t].pos \/ (n = reader[t].pos /\ s \in reader[t].todo)
                   /\ News(log[t][n])
            BY <2>5
        <3>2. n \in 1 .. Len(log'[t]) /\ log'[t][n] = log[t][n]
            BY <1>0, <2>2
        <3> QED
            BY <1>q, <2>0, <3>1, <3>2
    <2>6. CASE \E n \in 1 .. Len(stream[s].buf) : News(stream[s].buf[n])
        BY <1>q, <2>0, <2>6
    <2> QED
        BY <1>3, <2>3, <2>4, <2>5, <2>6
<1>8. ASSUME NEW k \in Topics, Rests(k) PROVE OnItsWay(s, i)'
    <2>0. UNCHANGED <<version, outbox, log, stream, screen, missed>> /\ (k # t => reader'[t] = reader[t])
        BY <1>8, <1>t DEF Rests
    <2>1. CASE k # t
        BY <1>5, <2>0, <2>1
    <2>2. CASE k = t
        <3>1. reader[t].pc # "joining"
            BY <1>2, <1>t DEF StreamInv, StreamOK, Watching
        <3>2. reader'[t].pos = reader[t].pos /\ reader[t].todo = {}
            BY <1>8, <2>2, <3>1 DEF Rests
        <3>3. i \notin missed[s] /\ screen[s][i] < version[i] /\ version'[i] = version[i]
            BY <2>0
        <3> QED
            BY <1>3, <1>q, <2>0, <3>2, <3>3
    <2> QED
        BY <2>1, <2>2
<1>9. ASSUME NEW k \in Topics, Handles(k) PROVE OnItsWay(s, i)'
    <2>0. UNCHANGED <<version, outbox, log, stream, screen, missed, subs>> /\ (k # t => reader'[t] = reader[t])
        BY <1>9, <1>t DEF Handles
    <2>1. CASE k # t
        BY <1>5, <2>0, <2>1
    <2>2. CASE k = t
        <3>1. /\ reader[t].pc = "fetch" /\ reader[t].pos < Len(log[t]) /\ reader'[t].pos = reader[t].pos + 1
              /\ reader'[t].todo = Audience(t, log[t][reader[t].pos + 1])
            BY <1>9, <2>2 DEF Handles
        <3>2. reader[t].todo = {}
            BY <1>t, <3>1 DEF Base, ReaderInv
        <3>3. i \notin missed[s] /\ screen[s][i] < version[i] /\ version'[i] = version[i]
            BY <2>0
        <3>4. ASSUME NEW n \in 1 .. Len(log[t]), n > reader[t].pos, News(log[t][n])
              PROVE  n > reader'[t].pos \/ (n = reader'[t].pos /\ s \in reader'[t].todo)
            <4>1. CASE n > reader[t].pos + 1
                BY <3>1, <4>1
            <4>2. CASE n = reader[t].pos + 1
                <5>1. log[t][n] \in Events /\ Proper(log[t][n])
                    BY <1>0, <1>t DEF EventInv
                <5>2. log[t][n].rest \in {stream[s].rest, All}
                    BY <1>4, <3>3, <3>4, <5>1
                <5>3. s \in subs[t]
                    BY <1>2, <1>t DEF Base, SubsInv, Subscribed, Watching
                <5> QED
                    BY <3>1, <4>2, <5>2, <5>3 DEF Audience
            <4> QED
                BY <1>0, <3>4, <4>1, <4>2
        <3> QED
            BY <1>3, <1>q, <2>0, <3>2, <3>3, <3>4
    <2> QED
        BY <2>1, <2>2
<1>10. ASSUME NEW k \in Topics, NEW u \in Streams, Sends(k, u) PROVE OnItsWay(s, i)'
    <2>0. /\ UNCHANGED <<version, outbox, log, screen>> /\ (k # t => reader'[t] = reader[t])
          /\ reader'[k].pos = reader[k].pos /\ reader'[k].todo = reader[k].todo \ {u}
          /\ u # s => stream'[s] = stream[s] /\ missed'[s] = missed[s]
          /\ u \in reader[k].todo
        BY <1>10, <1>t DEF Sends, Same
    <2>1. u = s => k = t
        BY <2>0 DEF Base, ReaderInv, SubsInv
    <2>2. CASE k # t
        BY <1>5, <2>0, <2>1, <2>2
    <2>3. CASE k = t /\ u # s
        <3>1. i \notin missed[s] /\ screen[s][i] < version[i] /\ version'[i] = version[i]
            BY <2>0, <2>3
        <3> QED
            BY <1>3, <1>q, <2>0, <2>3, <3>1
    <2>4. CASE k = t /\ u = s
        <3> DEFINE e == log[t][reader[t].pos]
        <3>1. /\ reader'[t].pos = reader[t].pos /\ e \in Events
              /\ \/ /\ Len(stream[s].buf) < Capacity
                    /\ stream'[s].buf = Append(stream[s].buf, e)
                    /\ UNCHANGED missed
                 \/ /\ ~(Len(stream[s].buf) < Capacity)
                    /\ stream'[s].buf = stream[s].buf
                    /\ missed'[s] = missed[s] \cup ({e.item} \cap Orders)
            BY <1>10, <2>4 DEF Sends
        <3>2. i \notin missed[s] /\ screen[s][i] < version[i] /\ version'[i] = version[i]
            BY <2>0, <3>1
        <3>3. \A n \in 1 .. Len(stream[s].buf) :
                  n \in 1 .. Len(stream'[s].buf) /\ stream'[s].buf[n] = stream[s].buf[n]
            <4>1. stream'[s].buf = stream[s].buf \/ stream'[s].buf = Append(stream[s].buf, e)
                BY <3>1
            <4> HIDE DEF e
            <4> QED
                BY <1>0, <3>1, <4>1
        <3>4. CASE \E d \in outbox : News(d)
            BY <1>q, <2>0, <3>4
        <3>5. CASE \E n \in 1 .. Len(stream[s].buf) : News(stream[s].buf[n])
            BY <1>q, <3>3, <3>5
        <3>6. CASE \E n \in 1 .. Len(log[t]) : n > reader[t].pos /\ News(log[t][n])
            BY <1>q, <2>0, <3>1, <3>6
        <3>7. CASE News(e)
            <4>1. CASE Len(stream[s].buf) < Capacity
                <5>1. /\ Len(stream[s].buf) + 1 \in 1 .. Len(stream'[s].buf)
                      /\ stream'[s].buf[Len(stream[s].buf) + 1] = e
                    <6>1. stream'[s].buf = Append(stream[s].buf, e) /\ e \in Events
                        BY <3>1, <4>1
                    <6> HIDE DEF e
                    <6> QED
                        BY <1>0, <6>1
                <5> QED
                    BY <1>q, <3>7, <5>1
            <4>2. CASE ~(Len(stream[s].buf) < Capacity)
                <5>1. i \notin Orders
                    BY <3>1, <3>7, <4>2
                <5>2. 1 \in 1 .. Len(stream[s].buf)
                    BY <1>0, <4>2, ConstantsAssumption
                <5>3. For(s, stream[s].buf[1])
                    BY <5>2 DEF EventInv
                <5>4. e.topic = "menu" /\ e.topic = t
                    <6>1. For(s, e)
                        BY <2>0, <2>4 DEF EventInv
                    <6> QED
                        BY <3>7, <5>1, <6>1 DEF For
                <5>5. stream[s].kind = "kiosk"
                    BY <5>4 DEF Topic
                <5>6. i = stream[s].rest
                    BY <1>t, <5>5 DEF Wants
                <5>7. News(stream[s].buf[1])
                    BY <5>1, <5>3, <5>4, <5>6 DEF For
                <5> QED
                    BY <1>q, <3>3, <5>2, <5>7
            <4> QED
                BY <4>1, <4>2
        <3> HIDE DEF News
        <3> QED
            BY <1>3, <3>2, <3>4, <3>5, <3>6, <3>7
    <2> QED
        BY <2>2, <2>3, <2>4
<1>11. ASSUME NEW u \in Streams, GoesOn(u) \/ Subscribes(u) \/ Leaves(u) PROVE OnItsWay(s, i)'
    <2>1. /\ UNCHANGED <<version, outbox, log, reader, screen, missed>>
          /\ stream'[s].buf = stream[s].buf
        BY <1>11 DEF GoesOn, Subscribes, Leaves, Same
    <2> QED
        BY <1>5, <2>1
<1>12. ASSUME NEW u \in Streams, u # s, Takes(u) \/ Fetches(u) PROVE OnItsWay(s, i)'
    <2>1. /\ UNCHANGED <<version, outbox, log, reader, missed>>
          /\ stream'[s].buf = stream[s].buf /\ screen'[s] = screen[s]
        BY <1>12 DEF Takes, Fetches, Same
    <2> QED
        BY <1>5, <2>1
<1>13. CASE Takes(s)
    <2> DEFINE e == Head(stream[s].buf)
    <2>0. /\ UNCHANGED <<version, outbox, log, reader, missed>>
          /\ stream[s].buf # <<>> /\ stream'[s].buf = Tail(stream[s].buf)
        BY <1>13 DEF Takes
    <2>1. stream'[s].conn = "up" /\ stream'[s].fetched
        BY DEF Watching
    <2>2. /\ 1 \in 1 .. Len(stream[s].buf) /\ e = stream[s].buf[1] /\ e \in Events
          /\ Len(stream'[s].buf) = Len(stream[s].buf) - 1
          /\ \A n \in 2 .. Len(stream[s].buf) :
                n - 1 \in 1 .. Len(stream'[s].buf) /\ stream'[s].buf[n - 1] = stream[s].buf[n]
        BY <1>0, <2>0
    <2>3. Proper(e)
        BY <2>2 DEF EventInv, For
    <2>4. ~(News(e) /\ screen[s][i] < version[i])
        <3> SUFFICES ASSUME News(e), screen[s][i] < version[i] PROVE FALSE
            OBVIOUS
        <3>1. /\ Passes(s, e)
              /\ stream[s].kind # "kiosk" => i \in Orders /\ e.item = i /\ e.v = version[i]
            BY <1>4, <2>0, <2>2, <2>3
        <3>2. stream[s].kind # "kiosk" /\ screen'[s][i] = Newer(screen[s][i], e.v)
            BY <1>13, <2>1, <3>1 DEF Takes
        <3>3. screen'[s][i] = version[i]
            BY <1>0, <3>1, <3>2 DEF Newer
        <3> QED
            BY <1>0, <2>0, <3>3
    <2>5. screen[s][i] < version[i]
        <3>1. CASE screen'[s][i] = screen[s][i]
            BY <2>0, <3>1
        <3>2. CASE i = e.item /\ stream[s].kind # "kiosk"
            <4>1. Passes(s, e)
                BY <1>t, <3>2 DEF Passes, Wants, StreamRecs
            <4>2. screen'[s][i] = Newer(screen[s][i], e.v)
                BY <1>13, <2>1, <3>2, <4>1 DEF Takes
            <4>3. e.v \in Nat
                BY <2>2 DEF Events
            <4> QED
                BY <1>0, <2>0, <4>2, <4>3 DEF Newer
        <3> QED
            BY <1>13, <3>1, <3>2 DEF Takes
    <2>6. i \notin missed[s] /\ version'[i] = version[i]
        BY <2>0
    <2>7. CASE \E n \in 1 .. Len(stream[s].buf) : News(stream[s].buf[n])
        <3>1. PICK n \in 1 .. Len(stream[s].buf) : News(stream[s].buf[n])
            BY <2>7
        <3>2. n # 1
            BY <2>2, <2>4, <2>5, <3>1
        <3>3. n \in 2 .. Len(stream[s].buf)
            BY <1>0, <3>2
        <3> QED
            BY <1>q, <2>2, <3>1, <3>3
    <2> QED
        BY <1>3, <1>q, <2>0, <2>5, <2>6, <2>7
<1>14. CASE Ends \/ UNCHANGED vars
    <2>1. UNCHANGED <<version, outbox, log, reader, screen, missed, stream>>
        BY <1>14 DEF Ends, vars
    <2> QED
        BY <1>5, <2>1
<1> QED
    BY <1>1, <1>6, <1>7, <1>8, <1>9, <1>10, <1>11, <1>12, <1>13, <1>14 DEF Step

\* NothingLost for every instance: whatever the order in which events arrive
\* and channels fill, a client that watches and is behind has news coming.
THEOREM NoNewsIsLost == Spec => []NothingLost
<1> DEFINE All3 == EventInv /\ StreamInv /\ NothingLost
<1>1. Init => All3
    <2> SUFFICES ASSUME Init PROVE All3
        OBVIOUS
    <2>1. /\ \A s \in Streams : stream[s].pc = "off" /\ stream[s].buf = <<>>
                                /\ ~stream[s].greeted /\ ~stream[s].fetched
          /\ \A s \in Streams : stream[s].kind = "tracking" => stream[s].rest = Home[stream[s].order]
          /\ outbox = {} /\ \A t \in Topics : log[t] = <<>> /\ reader[t].todo = {}
        BY DEF Init
    <2> QED
        BY <2>1 DEF EventInv, StreamInv, StreamOK, NothingLost, Watching
<1>2. All3 /\ (Base /\ Bounded) /\ [Next]_vars => All3'
    BY NextStep, EventStep, StreamStays, LostStep
<1>3. All3 => NothingLost
    OBVIOUS
<1> HIDE DEF All3
<1> QED
    BY <1>1, <1>2, <1>3, BaseCorrect, PTL DEF Spec
=============================================================================
