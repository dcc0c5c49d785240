---------------------------- MODULE EventStream ----------------------------
(***************************************************************************)
(* The event stream of the API: publish, the ring of recent events, the    *)
(* subscribers' buffers, the handler of one connection, the document of    *)
(* recent events and the drain (api/stream.go).                            *)
(*                                                                         *)
(* Every critical section of stream.mu is one step; the handler takes an   *)
(* event, asks whether the client may see it, and writes it, in steps of   *)
(* its own.                                                                *)
(***************************************************************************)
EXTENDS Naturals, Sequences, FiniteSets

CONSTANTS
    Clients,           \* one connection each at a time
    Stalled,           \* those who stop reading
    About,             \* the events to come: what application each is about
    subscriberBuffer,
    recentLimit

ASSUME EventStreamAssumption ==
    /\ Stalled \subseteq Clients
    /\ {subscriberBuffer, recentLimit} \subseteq Nat \ {0} /\ Len(About) \in Nat

VARIABLES
    published,  \* events so far; an event is its number
    recent,     \* the ring
    subs,       \* clients that are subscribed
    queue,      \* client -> events in its channel
    shut,       \* clients whose channel is closed, or who have none
    stopping,   \* the drain has begun: stream.closed
    at,         \* client -> "off", "authorized", "serving", "writing"
    frame,      \* client -> the event being written
    got,        \* client -> events received on this connection
    since,      \* client -> how many were published when it subscribed
    missed,     \* client -> dropped, or withheld, since
    grants      \* client -> applications it may read

evars == <<published, recent, subs, queue, shut, stopping, at, frame, got, since, missed, grants>>

NoFrame == 0
MaxEvents == Len(About)
Apps == {About[e] : e \in 1 .. MaxEvents}
Items(s) == {s[i] : i \in DOMAIN s}
May(c, e) == About[e] \in grants[c]

\* The last n of a sequence.
Newest(s, n) == SubSeq(s, 1 + (IF Len(s) > n THEN Len(s) - n ELSE 0), Len(s))

\* publish: the ring first, then every subscriber that has room.
Hears(c, e) == Len(queue[c]) < subscriberBuffer
Remember(e) == Newest(Append(recent, e), recentLimit)
\* Mutant: the fan-out ends at the first subscriber without room.
PublishReturns ==
    LET e == published + 1 IN
        /\ e <= MaxEvents /\ published' = e
        /\ recent' = Remember(e)
        /\ queue' = [c \in Clients |->
                       IF c \in subs /\ \A d \in subs : Hears(d, e) THEN Append(queue[c], e) ELSE queue[c]]
        /\ missed' = [c \in Clients |->
                        IF c \in subs /\ ~Hears(c, e) THEN missed[c] \cup {e} ELSE missed[c]]
        /\ UNCHANGED <<subs, shut, stopping, at, frame, got, since, grants>>

Publish ==
    LET e == published + 1 IN
        /\ e <= MaxEvents /\ published' = e
        /\ recent' = Remember(e)
        /\ queue' = [c \in Clients |->
                       IF c \in subs /\ Hears(c, e) THEN Append(queue[c], e) ELSE queue[c]]
        /\ missed' = [c \in Clients |->
                        IF c \in subs /\ ~Hears(c, e) THEN missed[c] \cup {e} ELSE missed[c]]
        /\ UNCHANGED <<subs, shut, stopping, at, frame, got, since, grants>>

-----------------------------------------------------------------------------
(* One connection *)

\* The guard lets the request in.  A server that shuts down accepts none.
Connect(c) ==
    /\ at[c] = "off" /\ ~stopping /\ at' = [at EXCEPT ![c] = "authorized"]
    /\ UNCHANGED <<published, recent, subs, queue, shut, stopping, frame, got, since, missed, grants>>

\* subscribe: once the streams were ended, to a channel that is closed already.
Joins(c) ==
    IF stopping THEN subs' = subs /\ shut' = shut \cup {c}
    ELSE subs' = subs \cup {c} /\ shut' = shut \ {c}
Subscribe(c) ==
    /\ at[c] = "authorized" /\ at' = [at EXCEPT ![c] = "serving"]
    /\ Joins(c)
    /\ queue' = [queue EXCEPT ![c] = <<>>] /\ got' = [got EXCEPT ![c] = <<>>]
    /\ missed' = [missed EXCEPT ![c] = {}]
    /\ since' = [since EXCEPT ![c] = published]
    /\ UNCHANGED <<published, recent, stopping, frame, grants>>

\* The next event, which the client may have lost the right to see.
Take(c) ==
    LET e == Head(queue[c]) IN
    /\ at[c] = "serving" /\ queue[c] # <<>>
    /\ queue' = [queue EXCEPT ![c] = Tail(@)]
    /\ IF May(c, e)
       THEN at' = [at EXCEPT ![c] = "writing"] /\ frame' = [frame EXCEPT ![c] = e]
            /\ UNCHANGED missed
       ELSE missed' = [missed EXCEPT ![c] = @ \cup {e}] /\ UNCHANGED <<at, frame>>
    /\ UNCHANGED <<published, recent, subs, shut, stopping, got, since, grants>>

Wrote(c) ==
    /\ at[c] = "writing" /\ at' = [at EXCEPT ![c] = "serving"]
    /\ got' = [got EXCEPT ![c] = Append(@, frame[c])]
    /\ frame' = [frame EXCEPT ![c] = NoFrame]
    /\ UNCHANGED <<published, recent, subs, queue, shut, stopping, since, missed, grants>>

\* The handler returns, and unsubscribes: only what is still there is closed.
Leaves(c) ==
    /\ at' = [at EXCEPT ![c] = "off"] /\ frame' = [frame EXCEPT ![c] = NoFrame]
    /\ subs' = subs \ {c} /\ shut' = shut \cup {c}
    /\ queue' = [queue EXCEPT ![c] = <<>>] /\ got' = [got EXCEPT ![c] = <<>>]
    /\ missed' = [missed EXCEPT ![c] = {}] /\ since' = [since EXCEPT ![c] = 0]
    /\ UNCHANGED <<published, recent, stopping, grants>>

\* A closed channel, once what it held is read.
SeeClosed(c) == at[c] = "serving" /\ queue[c] = <<>> /\ c \in shut /\ Leaves(c)

\* The client is gone, or a write to it fails.
HangUp(c) == at[c] \in {"serving", "writing"} /\ Leaves(c)

\* Bound: one application is withdrawn from one client.
Withdraw(c) ==
    /\ \A d \in Clients : grants[d] = Apps
    /\ \E a \in grants[c] : grants' = [grants EXCEPT ![c] = @ \ {a}]
    /\ UNCHANGED <<published, recent, subs, queue, shut, stopping, at, frame, got,
                   since, missed>>

\* recentEvents: the newest of the ring, of which each has to be permitted.
Document(c) == {e \in Items(recent) : May(c, e)}

\* closeAll
Drain ==
    /\ ~stopping /\ stopping' = TRUE
    /\ shut' = shut \cup subs /\ subs' = {}
    /\ UNCHANGED <<published, recent, queue, at, frame, got, since, missed, grants>>

-----------------------------------------------------------------------------
EInit ==
    /\ published = 0 /\ recent = <<>> /\ subs = {} /\ shut = Clients /\ stopping = FALSE
    /\ queue = [c \in Clients |-> <<>>] /\ at = [c \in Clients |-> "off"]
    /\ frame = [c \in Clients |-> NoFrame] /\ got = [c \in Clients |-> <<>>]
    /\ since = [c \in Clients |-> 0] /\ missed = [c \in Clients |-> {}]
    /\ grants = [c \in Clients |-> Apps]

Serve(c) == Subscribe(c) \/ Take(c) \/ SeeClosed(c)

ENext ==
    \/ Publish \/ Drain
    \/ \E c \in Clients :
         Connect(c) \/ Serve(c) \/ Wrote(c) \/ HangUp(c) \/ Withdraw(c)

\* The controller has things to publish, a handler runs, and a client that has not stalled reads what it is sent.
EFairness ==
    /\ WF_evars(Publish) /\ \A c \in Clients : WF_evars(Serve(c))
    /\ \A c \in Clients \ Stalled : WF_evars(Wrote(c))

ETypeOK ==
    /\ published \in 0 .. MaxEvents
    /\ recent \in Seq(1 .. published) /\ Len(recent) <= recentLimit
    /\ subs \subseteq Clients /\ shut \subseteq Clients /\ stopping \in BOOLEAN
    /\ at \in [Clients -> {"off", "authorized", "serving", "writing"}]
    /\ grants \in [Clients -> SUBSET Apps]
    /\ queue \in [Clients -> Seq(1 .. published)] /\ got \in [Clients -> Seq(1 .. published)]
    /\ frame \in [Clients -> 0 .. published] /\ since \in [Clients -> 0 .. published]
    /\ missed \in [Clients -> SUBSET (1 .. published)]
    /\ \A c \in Clients : Len(queue[c]) <= subscriberBuffer

-----------------------------------------------------------------------------
(* Properties *)

\* What a connection was sent, is being sent and will be sent, in that order.
Sent(c) == got[c] \o (IF frame[c] = NoFrame THEN <<>> ELSE <<frame[c]>>) \o queue[c]

\* Each connection is sent, in the order of publishing and each once, exactly what
\* was published while it was subscribed, but what overran its buffer or it may not
\* see: an event published as it subscribes is neither lost nor sent twice.
SentIsPublished ==
    \A c \in Clients :
        LET s == Sent(c) IN
        /\ \A i, j \in DOMAIN s : i < j => s[i] < s[j]
        /\ c \in subs => Items(s) \cup missed[c] = since[c] + 1 .. published
        /\ Items(s) \cap missed[c] = {}

\* Nobody publishes into a closed channel, and none is closed twice, whatever the
\* order in which a drain, a publish and a connection's end come.
NoSendOnClosed == subs \cap shut = {}

\* The document of recent events lacks none that a connection was sent, or that
\* overran its buffer, but those older than the ring or no longer to be seen.
DocumentComplete ==
    \A c \in Clients : \A e \in Items(Sent(c)) \cup missed[c] :
        May(c, e) /\ e + recentLimit > published => e \in Document(c)

\* The drain ends every event stream, also one whose client subscribes after it
\* began, and whether or not anything is published any more.
EventStreamsEnd ==
    \A c \in Clients \ Stalled : stopping /\ at[c] # "off" ~> at[c] = "off"
=============================================================================
