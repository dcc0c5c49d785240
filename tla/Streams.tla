------------------------------ MODULE Streams ------------------------------
(***************************************************************************)
(* The long-lived requests of the API, and its shutdown.  Event streams    *)
(* and log streams share only the process: a behaviour has the one or the  *)
(* other.                                                                  *)
(***************************************************************************)
EXTENDS EventStream, LogStream

VARIABLE kind  \* of the streams that clients open
svars == <<evars, lvars, kind>>

Init == EInit /\ LInit /\ kind \in {"events", "logs"}

\* runUntilStopped shuts the server down, which drains the event streams.
Next ==
    /\ \/ kind = "events" /\ ENext /\ UNCHANGED lvars
       \/ kind = "logs" /\ LNext /\ UNCHANGED evars
       \/ kind = "logs" /\ Drain /\ UNCHANGED lvars
    /\ UNCHANGED kind

Spec ==
    /\ Init /\ [][Next]_svars
    /\ kind = "events" => EFairness
    /\ kind = "logs" => LFairness

\* No client that has stopped reading keeps the controller from publishing.
PublishGoesOn == kind = "events" ~> published = MaxEvents

\* Nothing sits out the shutdown timeout: once the server is shut down, every
\* stream of a client that reads ends (run.go:66-71: "the one thing that used to
\* sit here for the full timeout ... is ended by RegisterOnShutdown").
StreamsEnd ==
    /\ EventStreamsEnd
    /\ \A c \in Readers \ Stuck : stopping ~> handler[c] = "off"

\* Event streams: the types, no send on a closed channel, and events that are sent
\* once, in order, and all of them either sent or to be found in the document.
EventsKept == ETypeOK /\ NoSendOnClosed /\ SentIsPublished /\ DocumentComplete

\* Log streams: the types, slots that come back, and lines that are sent or counted.
LinesKept == [](LTypeOK /\ SlotsReturned /\ GapsCounted) /\ BacklogWhole

\* Nothing waits on a client that does not read, and every stream ends that should.
StreamsMove == PublishGoesOn /\ EventStreamsEnd /\ RevokedEnds /\ PumpsEnd
=============================================================================
