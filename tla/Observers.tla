------------------------------ MODULE Observers ------------------------------
(***************************************************************************)
(* The two programs that follow the monitor stream of ywd-tncd: the packet *)
(* logger, which appends every event to a readable and a JSON file, and    *)
(* the Web UI, whose reader thread feeds the live state the browsers and   *)
(* the history pages are served from.                                      *)
(*                                                                         *)
(* The daemon may die and start again, numbering its events from one; a    *)
(* connection may be cut in the middle of a line; a write to the log may   *)
(* fail or the logger die half-way through a line.  Inside the daemon a    *)
(* publication is one step here; MonitorStream has its interleavings.  The *)
(* counters of the status page and the filters of the history are left out.*)
(***************************************************************************)
EXTENDS Naturals, Sequences, SequencesExt, FiniteSets

CONSTANTS
    Installations,  \* which observers run on this host, as sets
    Browsers,       \* connections to the event stream of the Web UI
    PipeCapacity,   \* events a subscriber's queue and socket hold
    SseCapacity,    \* of a browser's queue
    RecentCapacity, \* of the live state's recent events
    MaxRuns,        \* bound: lives of the daemon
    MaxSeq,         \* bound: events of one life
    MaxFaults,      \* bound: failed writes and crashes of the logger
    MaxCuts         \* bound: connections cut by the daemon

ObserverNames == {"logger", "web"}

ASSUME ObserversAssumption ==
    /\ Installations \subseteq SUBSET ObserverNames
    /\ {PipeCapacity, SseCapacity, RecentCapacity, MaxRuns} \subseteq Nat \ {0}
    /\ {MaxSeq, MaxFaults, MaxCuts} \subseteq Nat

VARIABLES
    daemon,     \* [up, run, seq]
    link,       \* per observer: [pipe, open]; open: the daemon's end
    logger,     \* [pc, event]
    files,      \* [human, json]: sequences of [event, form]
    reader,     \* the Web UI's monitor thread: [pc, socket, targets, record]
    stop,       \* MonitorReader._stop; set where no Web UI runs
    live,       \* LiveState: [generation, status, recent, badJson]
    browser,    \* per browser: [pc, queue]
    taken,      \* history: the events the logger took off its stream
    mishaps     \* faults of the logger and cuts so far

observerVars == <<daemon, link, logger, files, reader, stop, live, browser,
                  taken, mishaps>>

webVars == <<reader, stop, live, browser>>
logVars == <<logger, files, taken>>

-----------------------------------------------------------------------------
LineEvents == [run : 1..MaxRuns, seq : 1..MaxSeq]

\* What is left of a line when its connection is cut inside it.
Fragment == [run |-> 0, seq |-> 0]

\* A record of the live state: the event and its _web_generation.
Records == [generation : Nat, event : LineEvents]
NoRecord == [generation |-> 0, event |-> Fragment]

\* How much of an event's line is in the file: all of it, all but the
\* newline, or less.
Forms == {"whole", "unended", "torn"}
Entries == [event : LineEvents, form : Forms]

LoggerStates == {"off", "down", "connecting", "reading", "human", "json",
                 "waiting"}
ReaderStates == {"connecting", "accepted", "reading", "fanout", "waiting",
                 "ended"}

ObserversTypeOK ==
    /\ daemon \in [up : BOOLEAN, run : 1..MaxRuns, seq : 0..MaxSeq]
    /\ link \in [ObserverNames -> [pipe : Seq(LineEvents \cup {Fragment}),
                                   open : BOOLEAN]]
    /\ \A o \in ObserverNames : Len(link[o].pipe) <= PipeCapacity + 1
    /\ logger \in [pc : LoggerStates, event : LineEvents \cup {Fragment}]
    /\ files \in [human : Seq(Entries), json : Seq(Entries)]
    /\ reader \in [pc : ReaderStates, socket : BOOLEAN,
                   targets : SUBSET Browsers, record : Records \cup {NoRecord}]
    /\ stop \in BOOLEAN
    /\ live \in [generation : Nat, recent : Seq(Records), badJson : Nat,
                 status : {"connecting", "connected", "reconnecting"}]
    /\ Len(live.recent) <= RecentCapacity
    /\ browser \in [Browsers -> [pc : {"off", "open", "writing", "gone"},
                                 queue : Seq(Records)]]
    /\ \A b \in Browsers : Len(browser[b].queue) <= SseCapacity
    /\ taken \in Seq(LineEvents)
    /\ mishaps \in [faults : 0..MaxFaults, cuts : 0..MaxCuts]

NoLink == [pipe |-> <<>>, open |-> FALSE]

ObserversInit ==
    /\ daemon = [up |-> TRUE, run |-> 1, seq |-> 0]
    /\ link = [o \in ObserverNames |-> NoLink]
    /\ \E present \in Installations :
          /\ logger = [event |-> Fragment,
                       pc |-> IF "logger" \in present THEN "connecting"
                              ELSE "off"]
          /\ stop = ("web" \notin present)
    /\ files = [human |-> <<>>, json |-> <<>>]
    /\ reader = [pc |-> IF stop THEN "ended" ELSE "connecting",
                 socket |-> FALSE, targets |-> {}, record |-> NoRecord]
    /\ live = [generation |-> 0, status |-> "connecting", recent |-> <<>>,
               badJson |-> 0]
    /\ browser = [b \in Browsers |-> [pc |-> "off", queue |-> <<>>]]
    /\ taken = <<>>
    /\ mishaps = [faults |-> 0, cuts |-> 0]

-----------------------------------------------------------------------------
(***************************************************************************)
(* The daemon and its monitor connections                                  *)
(***************************************************************************)

\* The hub's publish: whoever has room gets the event.
PublishEvent ==
    /\ daemon.up /\ daemon.seq < MaxSeq
    /\ LET event == [run |-> daemon.run, seq |-> daemon.seq + 1]
           Room(o) == link[o].open /\ Len(link[o].pipe) < PipeCapacity
       IN  link' = [o \in ObserverNames |->
                       [link[o] EXCEPT !.pipe =
                           IF Room(o) THEN Append(@, event) ELSE @]]
    /\ daemon' = [daemon EXCEPT !.seq = @ + 1]
    /\ UNCHANGED <<logVars, webVars, mishaps>>

\* What a closed connection still delivers: the lines sent before, and the
\* beginning of one more.
Cuttings(pipe) ==
    {SubSeq(pipe, 1, n) : n \in 0..Len(pipe)}
        \cup {Append(SubSeq(pipe, 1, n), Fragment) : n \in 0..Len(pipe) - 1}

Closed(l) == IF l.open THEN [pipe : Cuttings(l.pipe), open : {FALSE}] ELSE {l}

DaemonDies ==
    /\ daemon.up
    /\ daemon' = [daemon EXCEPT !.up = FALSE]
    /\ \E l \in Closed(link["logger"]), w \in Closed(link["web"]) :
          link' = [link EXCEPT !["logger"] = l, !["web"] = w]
    /\ UNCHANGED <<logVars, webVars, mishaps>>

DaemonStarts ==
    /\ ~daemon.up /\ daemon.run < MaxRuns
    /\ daemon' = [up |-> TRUE, run |-> daemon.run + 1, seq |-> 0]
    /\ UNCHANGED <<link, logVars, webVars, mishaps>>

\* MonitorHandler: sendall to an observer that does not read times out, and
\* the handler returns.
HandlerTimesOut(o) ==
    /\ mishaps.cuts < MaxCuts
    /\ link[o].open /\ Len(link[o].pipe) = PipeCapacity
    /\ \E l \in Closed(link[o]) : link' = [link EXCEPT ![o] = l]
    /\ mishaps' = [mishaps EXCEPT !.cuts = @ + 1]
    /\ UNCHANGED <<daemon, logVars, webVars>>

\* create_connection: refused when nobody listens.
Connected(o) == link' = [link EXCEPT ![o] = [pipe |-> <<>>, open |-> TRUE]]
Disconnected(o) == link' = [link EXCEPT ![o] = NoLink]

\* The stream is at its end.
AtEof(o) == link[o].pipe = <<>> /\ ~link[o].open

NextLine(o) == link[o].pipe # <<>>
LineRead(o) == link' = [link EXCEPT ![o].pipe = Tail(@)]

-----------------------------------------------------------------------------
(***************************************************************************)
(* The packet logger                                                       *)
(***************************************************************************)

LoggerConnects ==
    /\ logger.pc = "connecting" /\ daemon.up
    /\ Connected("logger")
    /\ logger' = [logger EXCEPT !.pc = "reading"]
    /\ UNCHANGED <<daemon, files, taken, webVars, mishaps>>

\* The connection was refused, or the stream has ended.
LoggerReconnects ==
    /\ \/ logger.pc = "connecting" /\ ~daemon.up
       \/ logger.pc = "reading" /\ AtEof("logger")
    /\ Disconnected("logger")
    /\ logger' = [logger EXCEPT !.pc = "waiting"]
    /\ UNCHANGED <<daemon, files, taken, webVars, mishaps>>

LoggerWaited ==
    /\ logger.pc = "waiting"
    /\ logger' = [logger EXCEPT !.pc = "connecting"]
    /\ UNCHANGED <<daemon, link, files, taken, webVars, mishaps>>

\* A line is taken off the stream; a fragment is reported and skipped.
LoggerReads ==
    /\ logger.pc = "reading" /\ NextLine("logger")
    /\ LineRead("logger")
    /\ LET event == Head(link["logger"].pipe) IN
       IF event = Fragment THEN UNCHANGED <<logger, taken>>
       ELSE /\ logger' = [pc |-> "human", event |-> event]
            /\ taken' = Append(taken, event)
    /\ UNCHANGED <<daemon, files, webVars, mishaps>>

\* One append to a file of the day, as far as it gets.
Appended(file, form) == [files EXCEPT ![file] =
                            Append(@, [event |-> logger.event, form |-> form])]

\* PacketLogWriter.write: the readable line, then the JSON line.
LoggerWrites ==
    /\ logger.pc \in {"human", "json"}
    /\ files' = Appended(logger.pc, "whole")
    /\ logger' = IF logger.pc = "human" THEN [logger EXCEPT !.pc = "json"]
                 ELSE [pc |-> "reading", event |-> Fragment]
    /\ UNCHANGED <<daemon, link, taken, webVars, mishaps>>

\* OSError out of the write: the line may be there in part, and the
\* connection is given up with the event.
Fault ==
    /\ mishaps.faults < MaxFaults
    /\ mishaps' = [mishaps EXCEPT !.faults = @ + 1]

PartOfLine ==
    \/ UNCHANGED files
    \/ /\ logger.pc \in {"human", "json"}
       /\ \E form \in {"unended", "torn"} :
             files' = Appended(logger.pc, form)

LoggerWriteFails ==
    /\ logger.pc \in {"human", "json"}
    /\ Fault
    /\ PartOfLine
    /\ Disconnected("logger")
    /\ logger' = [pc |-> "waiting", event |-> Fragment]
    /\ UNCHANGED <<daemon, taken, webVars>>

\* The logger dies with whatever it holds; the service is started again.
LoggerDies ==
    /\ logger.pc \notin {"off", "down"}
    /\ Fault
    /\ PartOfLine
    /\ Disconnected("logger")
    /\ logger' = [pc |-> "down", event |-> Fragment]
    /\ UNCHANGED <<daemon, taken, webVars>>

LoggerStarts ==
    /\ logger.pc = "down"
    /\ logger' = [logger EXCEPT !.pc = "connecting"]
    /\ UNCHANGED <<daemon, link, files, taken, webVars, mishaps>>

\* Lines begin behind a newline: an append to an unended line adds to it.
BeginsLine(file, i) == i = 1 \/ file[i - 1].form = "whole"

ReadableAt(file, i) ==
    /\ BeginsLine(file, i)
    /\ \/ file[i].form = "whole"
       \/ file[i].form = "unended" /\ i = Len(file)

\* Mutant: the first bad line ends the listing.
ReadableUpTo(file, i) == \A j \in 1..i : ReadableAt(file, j)

\* HistoryStore.events: lines that are not JSON are passed over.
Listed(file, i) == ReadableAt(file, i)

\* The lines it lists, in the order of the file.
HistoryLines == {i \in DOMAIN files.json : Listed(files.json, i)}

-----------------------------------------------------------------------------
(***************************************************************************)
(* The Web UI's reader and live state                                      *)
(***************************************************************************)

SetStatus(status) == live' = [live EXCEPT !.status = status]

ReaderAt(pc) == reader.pc = pc
ReaderMoves(pc) == reader' = [reader EXCEPT !.pc = pc]

ReaderConnects ==
    /\ ReaderAt("connecting") /\ daemon.up
    /\ Connected("web")
    /\ ReaderMoves("accepted")
    /\ UNCHANGED <<daemon, stop, live, browser, logVars, mishaps>>

\* Mutant: a reconnection keeps the generation.
SameGeneration == [live EXCEPT !.status = "connected",
                       !.generation = IF @ = 0 THEN 1 ELSE @]

\* set_connected
NewGeneration == [live EXCEPT !.status = "connected", !.generation = @ + 1]

ReaderAccepted ==
    /\ ReaderAt("accepted")
    /\ reader' = [reader EXCEPT !.pc = "reading", !.socket = TRUE]
    /\ live' = NewGeneration
    /\ UNCHANGED <<daemon, link, stop, browser, logVars, mishaps>>

\* Mutant: a failure to connect ends the thread.
GivesUp == ~daemon.up

\* After a failure the thread ends only if it was asked to.
Ends == stop

\* Refused, or the stream is at its end: closed by the daemon or by stop.
ReaderFails ==
    /\ \/ ReaderAt("connecting") /\ ~daemon.up
       \/ ReaderAt("reading") /\ AtEof("web")
    /\ Disconnected("web")
    /\ reader' = [reader EXCEPT !.socket = FALSE,
                     !.pc = IF Ends THEN "ended" ELSE "waiting"]
    /\ IF Ends THEN UNCHANGED live ELSE SetStatus("reconnecting")
    /\ UNCHANGED <<daemon, stop, browser, logVars, mishaps>>

ReaderWaited ==
    /\ ReaderAt("waiting")
    /\ IF stop THEN ReaderMoves("ended") /\ UNCHANGED live
       ELSE ReaderMoves("connecting") /\ SetStatus("connecting")
    /\ UNCHANGED <<daemon, link, stop, browser, logVars, mishaps>>

Subscribed == {b \in Browsers : browser[b].pc \in {"open", "writing"}}

\* publish, the locked part.
Published(event) ==
    LET record == [generation |-> live.generation, event |-> event]
        recent == Append(live.recent, record)
    IN  /\ live' = [live EXCEPT !.recent =
                       IF Len(recent) > RecentCapacity THEN Tail(recent)
                       ELSE recent]
        /\ reader' = [reader EXCEPT !.pc = "fanout", !.record = record,
                                    !.targets = Subscribed]

ReaderReads ==
    /\ ReaderAt("reading") /\ NextLine("web")
    /\ LET event == Head(link["web"].pipe) IN
       \/ /\ stop
          /\ Disconnected("web")
          /\ reader' = [reader EXCEPT !.pc = "ended", !.socket = FALSE]
          /\ UNCHANGED live
       \/ /\ ~stop
          /\ LineRead("web")
          /\ IF event # Fragment THEN Published(event)
             ELSE /\ live' = [live EXCEPT !.badJson = @ + 1]
                  /\ UNCHANGED reader
    /\ UNCHANGED <<daemon, stop, browser, logVars, mishaps>>

RoomFor(b) == Len(browser[b].queue) < SseCapacity

\* put_nowait never waits.
PutRecord(b) ==
    /\ ReaderAt("fanout") /\ b \in reader.targets
    /\ reader' = [reader EXCEPT !.targets = @ \ {b}]
    /\ browser' = [browser EXCEPT ![b].queue =
           IF RoomFor(b) /\ b \in Subscribed THEN Append(@, reader.record)
           ELSE @]
    /\ UNCHANGED <<daemon, link, stop, live, logVars, mishaps>>

PublishedToAll ==
    /\ ReaderAt("fanout") /\ reader.targets = {}
    /\ reader' = [reader EXCEPT !.pc = "reading", !.record = NoRecord]
    /\ UNCHANGED <<daemon, link, stop, live, browser, logVars, mishaps>>

\* main's way out, MonitorReader.stop: the flag, then the socket the reader
\* has stored so far; what it still holds is lost with it.
StopReader ==
    /\ ~stop
    /\ stop' = TRUE
    /\ IF reader.socket THEN Disconnected("web") ELSE UNCHANGED link
    /\ UNCHANGED <<daemon, reader, live, browser, logVars, mishaps>>

\* A browser's _stream: subscribe, wait for an event, write it; the write
\* has no time limit.
BrowserOpens(b) ==
    /\ browser[b].pc = "off" /\ ~stop
    /\ browser' = [browser EXCEPT ![b].pc = "open"]
    /\ UNCHANGED <<daemon, link, reader, stop, live, logVars, mishaps>>

StreamTakes(b) ==
    /\ browser[b].pc = "open" /\ browser[b].queue # <<>>
    /\ browser' = [browser EXCEPT ![b].pc = "writing", ![b].queue = Tail(@)]
    /\ UNCHANGED <<daemon, link, reader, stop, live, logVars, mishaps>>

StreamWrites(b) ==
    /\ browser[b].pc = "writing"
    /\ browser' = [browser EXCEPT ![b].pc = "open"]
    /\ UNCHANGED <<daemon, link, reader, stop, live, logVars, mishaps>>

StreamFails(b) ==
    /\ browser[b].pc \in {"open", "writing"}
    /\ browser' = [browser EXCEPT ![b] = [pc |-> "gone", queue |-> <<>>]]
    /\ UNCHANGED <<daemon, link, reader, stop, live, logVars, mishaps>>

-----------------------------------------------------------------------------
LoggerSteps == LoggerConnects \/ LoggerReconnects \/ LoggerWaited
                   \/ LoggerReads \/ LoggerWrites \/ LoggerStarts

ReaderSteps == ReaderConnects \/ ReaderAccepted \/ ReaderFails \/ ReaderWaited
                   \/ ReaderReads \/ PublishedToAll
                   \/ \E b \in Browsers : PutRecord(b)

ObserversNext ==
    \/ PublishEvent \/ DaemonDies \/ DaemonStarts
    \/ \E o \in ObserverNames : HandlerTimesOut(o)
    \/ LoggerSteps \/ LoggerWriteFails \/ LoggerDies
    \/ ReaderSteps \/ StopReader
    \/ \E b \in Browsers : BrowserOpens(b) \/ StreamTakes(b)
                               \/ StreamWrites(b) \/ StreamFails(b)

ObserversSpec == ObserversInit /\ [][ObserversNext]_observerVars

\* The two observers run; the daemon, the browsers and the operator owe
\* nothing.
ObserversFairSpec ==
    ObserversSpec /\ WF_observerVars(LoggerSteps) /\ WF_observerVars(ReaderSteps)

-----------------------------------------------------------------------------
(***************************************************************************)
(* Properties                                                              *)
(***************************************************************************)

Identity(r) == <<r.generation, r.event.seq>>

\* The identity generation:seq of a live event names it: two records the Web
\* UI holds, of however many lives of the daemon and connections to it, never
\* share it, and no event is there twice.
IdentityUnique ==
    \A i, j \in DOMAIN live.recent :
        i # j => Identity(live.recent[i]) # Identity(live.recent[j])

\* HistoryStore.console lists the lines of the readable file.
LinesOf(file) ==
    {file[i].event : i \in {k \in DOMAIN file : file[k].form # "torn"}}

InHand == IF logger.pc \in {"human", "json"} THEN 1 ELSE 0

\* The history the Web UI lists has the events the logger took, in order and
\* once.  A failed write or a crash costs at most two: its own, and the one
\* appended to the rest of its line.  Each listed event has its readable line.
HistoryFaithful ==
    LET Taken(m, i) == taken[m] = files.json[i].event IN
    /\ IsInjective(taken)
    /\ \A i, j \in HistoryLines :
          \E m, n \in DOMAIN taken :
              Taken(m, i) /\ Taken(n, j) /\ (i < j => m < n)
    /\ Len(taken) <= Cardinality(HistoryLines) + InHand + 2 * mishaps.faults
    /\ \A i \in HistoryLines : files.json[i].event \in LinesOf(files.human)

CaughtUp(o) ==
    \/ /\ link[o].pipe = <<>>
       /\ IF o = "logger" THEN logger.pc \in {"reading", "off"}
          ELSE ReaderAt("reading")
    \/ o = "web" /\ stop

\* While the daemon is up, each observer comes to be connected with nothing
\* left to read, whatever failed before and however slow the browsers are.
ObserversCatchUp ==
    \A o \in ObserverNames :
        daemon.up ~> ~daemon.up \/ CaughtUp(o)
=============================================================================
