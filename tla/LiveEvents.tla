----------------------------- MODULE LiveEvents -----------------------------
(***************************************************************************)
(* The way of a change to the screen of an operator: a route commits it    *)
(* and publishes an event (publishApiEvent of packages/server/src/api.ts), *)
(* PostgresEventBus (packages/server/src/event-bus.ts) stores the event    *)
(* and notifies the replicas, the stream of a connection                   *)
(* (packages/kit/src/commands/admin.ts) writes it, and the admin           *)
(* (packages/admin/src/app.tsx) takes it as a hint to fetch the projection *)
(* again.                                                                  *)
(*                                                                         *)
(* Nothing of it is reliable: a publisher may die, notifications are lost  *)
(* with the listener's connection, numbers are given before the rows that  *)
(* carry them commit, a replay is cut off after a page, and fetches answer *)
(* in any order.  The module follows one client of one tenant.             *)
(***************************************************************************)
EXTENDS Naturals, FiniteSets, Sequences

CONSTANTS
  Change,         \* mutations that are published, by the ids of their events
  Fetch,          \* requests for the projection that the client has in flight (bound)
  ReplayLimit,    \* limit of a replay
  NoChange

ASSUME LiveAssumption ==
  /\ ReplayLimit \in Nat \ {0}
  /\ NoChange \notin Change /\ "open" \notin Change
  /\ IsFiniteSet(Change)

VARIABLES
  applied,       \* changes that are committed to the authoritative state
  publishers,    \* [Change -> how far publishApiEvent has come]
  numbers,       \* [Change -> the sequence of its row, 0 before it has one]
  liveEvents,    \* the committed rows of aqa_live_events
  notices,       \* notifications on their way to the listener of the replica
  stream,        \* the connection, at the server
  wire,          \* what the server has written and the client has not received
  client,        \* the EventSource
  fetches,       \* [Fetch -> a request of the projection, and what it read]
  projection,    \* the changes that the screen shows
  excused        \* whether something has failed since the last fetch was sent

liveVars == <<applied, publishers, numbers, liveEvents, notices, stream, wire, client,
              fetches, projection, excused>>

NoFetch == [pc |-> "none", read |-> {}]

ClosedStream == [pc |-> "closed", after |-> NoChange, seen |-> {}, rows |-> {}]

\* An event is written to a connection once, live or replayed.
LiveTypeOK ==
  /\ applied \subseteq Change /\ projection \subseteq Change /\ liveEvents \subseteq Change
  /\ publishers \in [Change -> {"todo", "changed", "numbered", "stored", "done"}]
  /\ numbers \in [Change -> 0..Cardinality(Change)]
  /\ notices \in Seq(liveEvents)
  /\ stream \in [pc : {"closed", "open", "subscribed", "replaying", "live"},
                 after : Change \cup {NoChange},
                 seen : SUBSET liveEvents, rows : SUBSET liveEvents]
  /\ wire \in Seq(stream.seen \cup {"open"})
  /\ \A i \in DOMAIN wire :
       /\ wire[i] = "open" => i = 1
       /\ \A j \in DOMAIN wire : i # j => wire[i] # wire[j]
  /\ client \in [recovering : BOOLEAN, last : Change \cup {NoChange}]
  /\ fetches \in [Fetch -> [pc : {"none", "sent", "read"}, read : SUBSET Change]]
  /\ excused \in BOOLEAN

\* The page has loaded: its first fetch is under way and the EventSource connects.
LiveInit ==
  /\ applied = {} /\ projection = {} /\ liveEvents = {}
  /\ publishers = [c \in Change |-> "todo"]
  /\ numbers = [c \in Change |-> 0]
  /\ notices = <<>> /\ wire = <<>>
  /\ stream = ClosedStream
  /\ client = [recovering |-> FALSE, last |-> NoChange]
  /\ \E first \in Fetch : fetches = [f \in Fetch |->
       IF f = first THEN [NoFetch EXCEPT !.pc = "sent"] ELSE NoFetch]
  /\ excused = FALSE

NoClient == UNCHANGED <<client, fetches, projection>>
NoServer == UNCHANGED <<applied, publishers, numbers, liveEvents>>

-----------------------------------------------------------------------------
(* publishApiEvent and PostgresEventBus.publish *)

PublisherAt(c, from, to) ==
  publishers[c] = from /\ publishers' = [publishers EXCEPT ![c] = to]

\* The route commits its change before it publishes.
Mutate(c) ==
  /\ PublisherAt(c, "todo", "changed")
  /\ applied' = applied \cup {c}
  /\ UNCHANGED <<numbers, liveEvents, notices, stream, wire, excused>>
  /\ NoClient

\* The INSERT takes the next number, and its row is seen later.
Number(c) ==
  /\ PublisherAt(c, "changed", "numbered")
  /\ numbers' = [numbers EXCEPT ![c] = Cardinality({d \in Change : numbers[d] # 0}) + 1]
  /\ UNCHANGED <<applied, liveEvents, notices, stream, wire, excused>>
  /\ NoClient

StoreEvent(c) ==
  /\ PublisherAt(c, "numbered", "stored")
  /\ liveEvents' = liveEvents \cup {c}
  /\ UNCHANGED <<applied, numbers, notices, stream, wire, excused>>
  /\ NoClient

\* Mutant: the notification does not wait for the row.
Notifiable_Early(c) == PublisherAt(c, "numbered", "done")

Notifiable(c) == PublisherAt(c, "stored", "done")

Notify(c) ==
  /\ Notifiable(c)
  /\ notices' = Append(notices, c)
  /\ UNCHANGED <<applied, numbers, liveEvents, stream, wire, excused>>
  /\ NoClient

\* The error is swallowed, or the replica dies.
PublishFails(c) ==
  /\ publishers[c] \in {"changed", "numbered", "stored"}
  /\ publishers' = [publishers EXCEPT ![c] = "done"]
  /\ excused' = TRUE
  /\ UNCHANGED <<applied, numbers, liveEvents, notices, stream, wire>>
  /\ NoClient

-----------------------------------------------------------------------------
(* The connection *)

\* Mutant: the handler is registered when the replay is over.
Listening_Late == stream.pc = "live"

Listening == stream.pc \in {"subscribed", "replaying", "live"}

\* Mutant: what was written is written again.
Unseen_Any(events) == events

Unseen(events) == events \ stream.seen

\* A set of events in the order of their numbers.
InOrder(events) ==
  {q \in [1..Cardinality(events) -> events] :
     \A i, j \in DOMAIN q : i < j => numbers[q[i]] < numbers[q[j]]}

\* writeEvent, for one event or for each of a replay.
WriteEvents(events) == \E q \in InOrder(Unseen(events)) : wire' = wire \o q

\* The listener hands a notification to the handlers of the moment.
Deliver ==
  /\ notices # <<>>
  /\ notices' = Tail(notices)
  /\ IF Listening
     THEN /\ WriteEvents({Head(notices)})
          /\ stream' = [stream EXCEPT !.seen = @ \cup {Head(notices)}]
     ELSE UNCHANGED <<wire, stream>>
  /\ UNCHANGED excused
  /\ NoServer /\ NoClient

\* LISTEN is resumed, and what was notified meanwhile is not.
LoseNotices ==
  /\ notices # <<>>
  /\ notices' = <<>>
  /\ excused' = TRUE
  /\ UNCHANGED <<stream, wire>>
  /\ NoServer /\ NoClient

\* The headers are flushed before anything else.
Connect ==
  /\ stream.pc = "closed"
  /\ stream' = [ClosedStream EXCEPT !.pc = "open", !.after = client.last]
  /\ wire' = <<"open">>
  /\ UNCHANGED <<notices, excused>>
  /\ NoServer /\ NoClient

Subscribe ==
  /\ stream.pc = "open"
  /\ stream' = [stream EXCEPT !.pc = "subscribed"]
  /\ UNCHANGED <<notices, wire, excused>>
  /\ NoServer /\ NoClient

\* The rows after the cursor, and without one from the first on; at most a page of them.
After(cursor) == IF cursor = NoChange THEN 0 ELSE numbers[cursor]

UpTo(cursor, c) == {d \in liveEvents : After(cursor) < numbers[d] /\ numbers[d] <= numbers[c]}

RowsAfter(cursor) ==
  {c \in liveEvents :
     After(cursor) < numbers[c] /\ Cardinality(UpTo(cursor, c)) <= ReplayLimit}

ReplaySelect ==
  /\ stream.pc = "subscribed"
  /\ stream' = [stream EXCEPT !.pc = "replaying", !.rows = RowsAfter(stream.after)]
  /\ UNCHANGED <<notices, wire, excused>>
  /\ NoServer /\ NoClient

ReplayWrite ==
  /\ stream.pc = "replaying"
  /\ WriteEvents(stream.rows)
  /\ stream' = [stream EXCEPT !.pc = "live", !.seen = @ \cup stream.rows, !.rows = {}]
  /\ UNCHANGED <<notices, excused>>
  /\ NoServer /\ NoClient

\* stream.gap is written; the admin does not listen to it.
ReplayFails ==
  /\ stream.pc \in {"subscribed", "replaying"}
  /\ stream' = [stream EXCEPT !.pc = "live", !.rows = {}]
  /\ excused' = TRUE
  /\ UNCHANGED <<notices, wire>>
  /\ NoServer /\ NoClient

\* The connection breaks; what was written and not received is gone.
Disconnect ==
  /\ stream.pc # "closed"
  /\ stream' = ClosedStream
  /\ wire' = <<>>
  /\ client' = [client EXCEPT !.recovering = TRUE]
  /\ UNCHANGED <<notices, fetches, projection, excused>>
  /\ NoServer

-----------------------------------------------------------------------------
(* The admin *)

\* A new fetch will read all that was committed before: what failed so far is made up for.
StartFetch ==
  /\ \E f \in Fetch : fetches[f] = NoFetch /\ fetches' = [fetches EXCEPT ![f].pc = "sent"]
  /\ excused' = FALSE

\* A connection that recovered fetches; the first one relies on the fetch of the page.
Opened ==
  /\ wire # <<>> /\ Head(wire) = "open"
  /\ wire' = Tail(wire)
  /\ IF client.recovering THEN StartFetch ELSE UNCHANGED <<fetches, excused>>
  /\ client' = [client EXCEPT !.recovering = FALSE]
  /\ UNCHANGED <<notices, stream, projection>>
  /\ NoServer

Receive ==
  /\ wire # <<>> /\ Head(wire) # "open"
  /\ wire' = Tail(wire)
  /\ client' = [client EXCEPT !.last = Head(wire)]
  /\ StartFetch
  /\ UNCHANGED <<notices, stream, projection>>
  /\ NoServer

FetchRead(f) ==
  /\ fetches[f].pc = "sent"
  /\ fetches' = [fetches EXCEPT ![f] = [pc |-> "read", read |-> applied]]
  /\ UNCHANGED <<notices, stream, wire, client, projection, excused>>
  /\ NoServer

\* The answer that comes last is shown, which need not be the one that was read last.
FetchShow(f) ==
  /\ fetches[f].pc = "read"
  /\ projection' = fetches[f].read
  /\ fetches' = [fetches EXCEPT ![f] = NoFetch]
  /\ excused' = (excused \/ ~(projection \subseteq fetches[f].read))
  /\ UNCHANGED <<notices, stream, wire, client>>
  /\ NoServer

FetchFails(f) ==
  /\ fetches[f] # NoFetch
  /\ fetches' = [fetches EXCEPT ![f] = NoFetch]
  /\ excused' = TRUE
  /\ UNCHANGED <<notices, stream, wire, client, projection>>
  /\ NoServer

LiveNext ==
  \/ \E c \in Change : Mutate(c) \/ Number(c) \/ StoreEvent(c) \/ Notify(c) \/ PublishFails(c)
  \/ Deliver \/ LoseNotices
  \/ Connect \/ Subscribe \/ ReplaySelect \/ ReplayWrite \/ ReplayFails \/ Disconnect
  \/ Opened \/ Receive
  \/ \E f \in Fetch : FetchRead(f) \/ FetchShow(f) \/ FetchFails(f)

LiveSpec == LiveInit /\ [][LiveNext]_liveVars

-----------------------------------------------------------------------------
(* Properties *)

Quiet ==
  /\ stream.pc = "live" /\ wire = <<>> /\ notices = <<>>
  /\ \A f \in Fetch : fetches[f] = NoFetch
  /\ \A c \in Change : publishers[c] \in {"todo", "done"}

\* "SSE only as a low-latency invalidation signal": when all is quiet the screen shows the
\* authoritative state, unless something failed and no event or reconnection came since.
\* What the pages of a replay leave out and what overtakes a cursor does no harm.
ProjectionIsCurrent == Quiet /\ ~excused => projection = applied

\* The cursor that a client comes back with is always found: its row was stored before
\* anyone heard of it.
CursorIsFound == client.last # NoChange => client.last \in liveEvents

-----------------------------------------------------------------------------
(* Why: what is not shown yet is on its way *)

\* The numbers follow the publishers.
NumbersInv ==
  /\ applied = {c \in Change : publishers[c] # "todo"}
  /\ \A c \in Change :
       /\ publishers[c] \in {"todo", "changed"} => numbers[c] = 0
       /\ publishers[c] = "numbered" => numbers[c] # 0
       /\ publishers[c] = "stored" => c \in liveEvents
       /\ c \in liveEvents => numbers[c] # 0
       /\ numbers[c] <= Cardinality({d \in Change : numbers[d] # 0})
       /\ \A d \in Change : numbers[c] = numbers[d] => c = d \/ numbers[c] = 0

\* A connection starts with nothing written, behind the cursor of its client.
StreamInv ==
  /\ stream.pc = "closed" => wire = <<>>
  /\ stream.pc \in {"closed", "open"} => stream.seen = {}
  /\ stream.pc # "closed" /\ stream.seen = {} => stream.after = client.last
  /\ client.recovering => stream.pc = "closed" \/ (wire # <<>> /\ Head(wire) = "open")
  /\ stream.pc = "closed" /\ ~client.recovering => client.last = NoChange

FetchesInv ==
  /\ projection \subseteq applied
  /\ \A f \in Fetch : /\ fetches[f].read \subseteq applied
                      /\ fetches[f].pc # "read" => fetches[f].read = {}

Fetched(c) == \E f \in Fetch : fetches[f].pc = "sent" \/ c \in fetches[f].read

Hinted == \E i \in DOMAIN wire : wire[i] # "open"

\* The replay of the connection will write something.
Replayed(c) ==
  /\ c \in liveEvents /\ stream.seen = {}
  /\ \/ stream.pc = "closed" /\ client.last = NoChange
     \/ stream.pc \in {"open", "subscribed"} /\ After(stream.after) < numbers[c]
     \/ stream.pc = "replaying" /\ stream.rows # {}

Noticed(c) ==
  publishers[c] \in {"changed", "numbered", "stored"} \/ \E i \in DOMAIN notices : notices[i] = c

\* A change that the screen lacks will make the client fetch, and it is behind no cursor
\* unless a fetch after that cursor includes it.
ChangeInv(c) ==
  /\ Fetched(c) \/ Hinted \/ client.recovering \/ Noticed(c) \/ Replayed(c)
  /\ c \in stream.seen => Fetched(c) \/ Hinted \/ client.recovering
  /\ numbers[c] # 0 /\ client.last # NoChange => Fetched(c) \/ numbers[client.last] < numbers[c]

LiveInv ==
  /\ NumbersInv /\ StreamInv /\ FetchesInv /\ CursorIsFound
  /\ ~excused => \A c \in applied \ projection : ChangeInv(c)

\* Screens catch up with the server, and the cursors they come back with are found.
LiveSafety == LiveTypeOK /\ ProjectionIsCurrent /\ CursorIsFound /\ LiveInv

=============================================================================
