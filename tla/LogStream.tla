----------------------------- MODULE LogStream -----------------------------
(***************************************************************************)
(* The service log streams: the handler with its slot, its keepalive and   *)
(* the check it makes of it, and the pump that reads the daemon and must   *)
(* not wait for a client that has stopped reading (api/logs.go,            *)
(* backend/logs.go).                                                       *)
(*                                                                         *)
(* The daemon's lines are numbered.  A line longer than the limit, which   *)
(* is cut and followed by a notice of that, is left out.                   *)
(***************************************************************************)
EXTENDS Naturals, Sequences, FiniteSets

CONSTANTS
    Readers,         \* clients, one log stream each at a time
    Stuck,           \* those who stop reading
    maxLogStreams,
    logBuffer,
    Tails,           \* what a client may ask for
    MaxLines         \* bound: lines of the service

ASSUME LogStreamAssumption ==
    /\ IsFiniteSet(Readers) /\ Stuck \subseteq Readers /\ Tails \subseteq Nat
    /\ {maxLogStreams, logBuffer} \subseteq Nat \ {0} /\ MaxLines \in Nat

VARIABLES
    slots,     \* taken
    revoked,   \* readers who may no longer read the logs
    handler,   \* reader -> "off", "slotted", "open", "writing"
    pump,      \* reader -> "none", "reading", "noticing", "sending"
    outShut,   \* readers whose channel is closed, or who have none
    st         \* reader -> what its stream keeps

lvars == <<slots, revoked, handler, pump, outShut, st>>

\* An event in the channel: a line, or a notice of so many dropped; and what was
\* written to a client: the last line, and how many its events account for.
Line(n) == [line |-> n, count |-> 1]
Notice(n) == [line |-> 0, count |-> n]
Nothing == Notice(0)
Written(t, e) == [line |-> IF e.line = 0 THEN t.line ELSE e.line, count |-> t.count + e.count]

\* The channel, of lines and of notices of dropped ones; the lines of the backlog
\* that are to come; the line read last; the lines dropped and not told of; and
\* what was written to the client.
Fresh(n) == [out |-> <<>>, backlog |-> n, line |-> 0, dropped |-> 0, told |-> Nothing]

\* The stream's context lives as long as its handler.
Live(c) == handler[c] \in {"open", "writing"}

Room(c) == Len(st[c].out) < logBuffer

\* serviceLogs: what can be refused is refused before a slot is taken.
Slot(c) ==
    /\ handler[c] = "off" /\ pump[c] = "none" /\ c \notin revoked
    /\ slots < maxLogStreams
    /\ slots' = slots + 1 /\ handler' = [handler EXCEPT ![c] = "slotted"]
    /\ UNCHANGED <<revoked, pump, outShut, st>>

\* The daemon opens the stream, for a tail of so many lines ...
Open(c) ==
    \E n \in Tails :
        /\ handler[c] = "slotted" /\ handler' = [handler EXCEPT ![c] = "open"]
        /\ pump' = [pump EXCEPT ![c] = "reading"] /\ outShut' = outShut \ {c}
        /\ st' = [st EXCEPT ![c] = Fresh(n)]
        /\ UNCHANGED <<slots, revoked>>

\* ... or does not, and the slot is free again.
OpenFails(c) ==
    /\ handler[c] = "slotted" /\ handler' = [handler EXCEPT ![c] = "off"]
    /\ slots' = slots - 1
    /\ UNCHANGED <<revoked, pump, outShut, st>>

-----------------------------------------------------------------------------
(* The handler *)

\* Of a channel nobody reads any more only its room is kept.
Unread(s) == [Fresh(s.backlog) EXCEPT !.out = [i \in DOMAIN s.out |-> Nothing]]

\* However it returns, the context ends with it, and the slot is free.
Return(c) ==
    /\ handler' = [handler EXCEPT ![c] = "off"] /\ slots' = slots - 1
    /\ st' = [st EXCEPT ![c] = IF pump[c] = "none" THEN Fresh(0) ELSE Unread(@)]
    /\ UNCHANGED <<revoked, pump, outShut>>

TakeLine(c) ==
    /\ handler[c] = "open" /\ st[c].out # <<>>
    /\ handler' = [handler EXCEPT ![c] = "writing"]
    /\ st' = [st EXCEPT ![c].told = Written(@, Head(st[c].out)), ![c].out = Tail(@)]
    /\ UNCHANGED <<slots, revoked, pump, outShut>>

WroteLine(c) ==
    /\ handler[c] = "writing" /\ handler' = [handler EXCEPT ![c] = "open"]
    /\ UNCHANGED <<slots, revoked, pump, outShut, st>>

SeeEnd(c) == handler[c] = "open" /\ st[c].out = <<>> /\ c \in outShut /\ Return(c)

ClientGone(c) == Live(c) /\ Return(c)

\* The keepalive asks again whether the reader may read.
Keepalive(c) == handler[c] = "open" /\ c \in revoked /\ Return(c)

Revoke(c) ==
    /\ c \notin revoked /\ revoked' = revoked \cup {c}
    /\ UNCHANGED <<slots, handler, pump, outShut, st>>

-----------------------------------------------------------------------------
(* The pump *)

\* A line, which may have been on its way as the context ended.
ReadLine(c) ==
    /\ pump[c] = "reading" /\ st[c].line < MaxLines
    /\ st' = [st EXCEPT ![c].line = IF Live(c) THEN @ + 1 ELSE @]
    /\ pump' = [pump EXCEPT ![c] = "noticing"]
    /\ UNCHANGED <<slots, revoked, handler, outShut>>

\* caughtUp: a read that took long ends the backlog.
Stall(c) ==
    /\ pump[c] = "reading" /\ st[c].backlog > 0
    /\ st' = [st EXCEPT ![c].backlog = 0]
    /\ UNCHANGED <<slots, revoked, handler, pump, outShut>>

\* Mutant: the count is reset whether or not the notice had room.
SendNoticeForgets(c) ==
    /\ pump[c] = "noticing" /\ pump' = [pump EXCEPT ![c] = "sending"]
    /\ st' = IF st[c].dropped > 0 /\ Room(c)
             THEN [st EXCEPT ![c].out = Append(@, Notice(st[c].dropped)), ![c].dropped = 0]
             ELSE [st EXCEPT ![c].dropped = 0]
    /\ UNCHANGED <<slots, revoked, handler, outShut>>

\* send, first: what was dropped is told of as soon as there is room.
SendNotice(c) ==
    /\ pump[c] = "noticing" /\ pump' = [pump EXCEPT ![c] = "sending"]
    /\ st' = IF st[c].dropped > 0 /\ Room(c)
             THEN [st EXCEPT ![c].out = Append(@, Notice(st[c].dropped)), ![c].dropped = 0]
             ELSE st
    /\ UNCHANGED <<slots, revoked, handler, outShut>>

\* What send does with a line: nothing when the stream has ended.
Deliver(c) ==
    IF ~Live(c) THEN st
    ELSE IF Room(c)
    THEN [st EXCEPT ![c].out = Append(@, Line(st[c].line)),
                    ![c].backlog = IF @ > 0 THEN @ - 1 ELSE 0]
    ELSE [st EXCEPT ![c].dropped = @ + 1]

\* Mutant: it waits for room after the stream has ended, too.
SendLineWaits(c) ==
    /\ pump[c] = "sending" /\ pump' = [pump EXCEPT ![c] = "reading"]
    /\ st[c].backlog = 0 \/ Room(c)
    /\ st' = Deliver(c)
    /\ UNCHANGED <<slots, revoked, handler, outShut>>

\* send, second: in the backlog it waits for room, or for the stream's end; live,
\* it does not.
SendLine(c) ==
    /\ pump[c] = "sending" /\ pump' = [pump EXCEPT ![c] = "reading"]
    /\ st[c].backlog = 0 \/ Room(c) \/ ~Live(c)
    /\ st' = Deliver(c)
    /\ UNCHANGED <<slots, revoked, handler, outShut>>

\* The daemon ends the stream, or the context has ended and with it the read.
PumpEnds(c) ==
    /\ pump[c] = "reading" /\ pump' = [pump EXCEPT ![c] = "none"]
    /\ outShut' = outShut \cup {c}
    /\ st' = IF Live(c) THEN st ELSE [st EXCEPT ![c] = Fresh(0)]
    /\ UNCHANGED <<slots, revoked, handler>>

ReadEnds(c) == ~Live(c) /\ PumpEnds(c)

-----------------------------------------------------------------------------
LInit ==
    /\ slots = 0 /\ revoked = {} /\ outShut = Readers
    /\ handler = [c \in Readers |-> "off"] /\ pump = [c \in Readers |-> "none"]
    /\ st = [c \in Readers |-> Fresh(0)]

Handles(c) == Open(c) \/ OpenFails(c) \/ TakeLine(c) \/ SeeEnd(c)
Sends(c) == SendNotice(c) \/ SendLine(c)

LNext ==
    \E c \in Readers :
        \/ Slot(c) \/ Handles(c) \/ WroteLine(c) \/ ClientGone(c) \/ Keepalive(c)
        \/ Revoke(c) \/ ReadLine(c) \/ Stall(c) \/ Sends(c) \/ PumpEnds(c)

\* A handler and a pump run; a client that is not stuck reads; the ticker is among
\* what a select chooses from at random; a read ends with its context.
LFairness ==
    /\ \A c \in Readers : /\ WF_lvars(Handles(c)) /\ SF_lvars(Keepalive(c))
                          /\ WF_lvars(Sends(c)) /\ SF_lvars(ReadEnds(c))
    /\ \A c \in Readers \ Stuck : WF_lvars(WroteLine(c))

Event == [line: 0 .. MaxLines, count: Nat]
LTypeOK ==
    /\ slots \in 0 .. maxLogStreams /\ revoked \subseteq Readers /\ outShut \subseteq Readers
    /\ handler \in [Readers -> {"off", "slotted", "open", "writing"}]
    /\ pump \in [Readers -> {"none", "reading", "noticing", "sending"}]
    /\ st \in [Readers -> [out: Seq(Event), backlog: Nat, line: 0 .. MaxLines,
                           dropped: 0 .. MaxLines, told: Event]]
    /\ \A c \in Readers : Len(st[c].out) <= logBuffer

-----------------------------------------------------------------------------
(* Properties *)

\* The slots that are taken are those of the streams that are open.
SlotsReturned == slots = Cardinality({c \in Readers : handler[c] # "off"})

\* The lines that the events of s account for are n: the sums up to each tell.
CountIs(s, n) ==
    \E sum \in [1 .. Len(s) -> 0 .. MaxLines] :
        /\ sum[1] = s[1].count /\ sum[Len(s)] = n
        /\ \A i \in 2 .. Len(s) : sum[i] = sum[i - 1] + s[i].count

\* What the pump has read, but for the line in its hands.
Read(c) == st[c].line - (IF pump[c] \in {"noticing", "sending"} THEN 1 ELSE 0)

\* No line is lost in silence: while a stream lives, what the pump has read was put
\* into the channel in order, is counted by a notice in it, or is still counted.
GapsCounted ==
    \A c \in Readers : Live(c) =>
        LET s == <<st[c].told>> \o st[c].out IN
        /\ \A i, j \in DOMAIN s : i < j => s[j].line = 0 \/ s[i].line < s[j].line
        /\ CountIs(s, Read(c) - st[c].dropped)

\* The lines a client asked for are not dropped, however slowly it reads, unless
\* the daemon had stalled before them.
BacklogWhole ==
    [][\A c \in Readers : st[c].backlog > 0 => \/ st'[c].dropped <= st[c].dropped
                                               \/ ~Live(c)]_lvars

\* A reader who may no longer read stops being sent lines, however many there are.
RevokedEnds == \A c \in Readers \ Stuck : c \in revoked ~> handler[c] = "off"

\* A pump outlives its handler only for as long as it takes to notice, also one
\* that waits for room in the middle of a backlog.
PumpsEnd == \A c \in Readers : handler[c] = "off" ~> pump[c] = "none"
=============================================================================
