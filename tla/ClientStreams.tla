---------------------------- MODULE ClientStreams ----------------------------
(***************************************************************************)
(* The TCP side of the daemon: KISS and AGW handler threads over one       *)
(* backend, and the modem worker that publishes received frames to them.   *)
(*                                                                         *)
(* A handler does everything for its client in one thread: it empties the  *)
(* client's queue, waits a short time for input, handles the input, and    *)
(* starts over.  Handing a frame to the backend takes the admission        *)
(* queue's lock, which the worker holds for a whole transmit cycle.        *)
(***************************************************************************)
EXTENDS Naturals, Sequences, SequencesExt, FiniteSets

CONSTANTS
    KissClients,
    AgwClients,
    SubscriberCapacity,     \* of a client's queue
    MaxFrames,              \* bound: frames received off the air
    MaxCycles,              \* bound: transmit cycles
    MaxMessages             \* bound: messages each client sends

Clients == KissClients \cup AgwClients

ASSUME ClientStreamsAssumption ==
    /\ KissClients \cap AgwClients = {}
    /\ SubscriberCapacity \in Nat \ {0}
    /\ {MaxFrames, MaxCycles} \subseteq Nat
    /\ MaxMessages \in [Clients -> Nat]

VARIABLES
    handler,    \* per client: [pc, open, event, batch]
    queue,      \* per client: the indices of published in its queue
    inbox,      \* per client: messages on their way to the handler
    sends,      \* per client: messages sent so far
    worker,     \* [pc, targets, full]
    published,  \* frames published
    cycles,     \* transmit cycles so far
    drops,      \* subscriber_drops
    account     \* history: per client, base, last event taken, missed

vars == <<handler, queue, inbox, sends, worker, published, cycles, drops,
          account>>

-----------------------------------------------------------------------------
\* What the decoders tell apart.  An AGW client sends a raw-monitor request,
\* a raw frame, something that is ignored (an empty raw frame, another port
\* or kind), or a header that is refused.
Messages(c) == IF c \in KissClients THEN {"data", "control"}
               ELSE {"monitor", "data", "ignored", "refused"}

AllMessages == UNION {Messages(c) : c \in Clients}

HandlerStates == {"away", "serving", "sending", "recv", "handling", "closed"}

TypeOK ==
    /\ handler \in [Clients -> [pc : HandlerStates, open : BOOLEAN,
                                event : 0..MaxFrames, batch : Seq(AllMessages)]]
    /\ queue \in [Clients -> Seq(1..MaxFrames)]
    /\ \A c \in Clients : Len(queue[c]) <= SubscriberCapacity
    /\ inbox \in [Clients -> Seq(AllMessages)]
    /\ sends \in [Clients -> Nat]
    /\ worker \in [pc : {"loop", "putting", "cycle"}, targets : SUBSET Clients,
                   full : Nat]
    /\ published \in 0..MaxFrames /\ cycles \in 0..MaxCycles
    /\ drops \in Nat
    /\ account \in [Clients -> [base : Nat, last : Nat, missed : SUBSET Nat]]

Init ==
    /\ handler = [c \in Clients |-> [pc |-> "away", open |-> FALSE,
                                     event |-> 0, batch |-> <<>>]]
    /\ queue = [c \in Clients |-> <<>>]
    /\ inbox = [c \in Clients |-> <<>>]
    /\ sends = [c \in Clients |-> 0]
    /\ worker = [pc |-> "loop", targets |-> {}, full |-> 0]
    /\ published = 0 /\ cycles = 0 /\ drops = 0
    /\ account = [c \in Clients |-> [base |-> 0, last |-> 0, missed |-> {}]]

-----------------------------------------------------------------------------
(***************************************************************************)
(* The backend                                                             *)
(***************************************************************************)

Open == {c \in Clients : handler[c].open}

\* open_stream; the product keeps no history to replay.
OpenStream(c, next) ==
    /\ handler' = [handler EXCEPT ![c] = [next EXCEPT !.open = TRUE]]
    /\ account' = [account EXCEPT ![c].base = published]

\* close_stream: nobody will look at the queue again, which stays as it is.
CloseStream(c) ==
    handler' = [handler EXCEPT ![c] = [pc |-> "closed", open |-> FALSE,
                                       event |-> 0, batch |-> <<>>]]

\* publish, the locked part: the subscribers of this moment.
Publish ==
    /\ worker.pc = "loop"
    /\ published < MaxFrames
    /\ published' = published + 1
    /\ worker' = [pc |-> "putting", targets |-> Open, full |-> 0]
    /\ UNCHANGED <<handler, queue, inbox, sends, cycles, drops, account>>

\* Mutant: a full queue loses its oldest frame, unseen.
PutEvicting(c) ==
    /\ worker' = [worker EXCEPT !.targets = @ \ {c}]
    /\ queue' = [queue EXCEPT ![c] =
           IF Len(@) < SubscriberCapacity THEN Append(@, published)
           ELSE Append(Tail(@), published)]
    /\ UNCHANGED account

\* put_nowait on the queue of a subscriber, whose stream may have been closed
\* meanwhile.
PutNowait(c) ==
    IF Len(queue[c]) < SubscriberCapacity
    THEN /\ queue' = [queue EXCEPT ![c] = Append(@, published)]
         /\ worker' = [worker EXCEPT !.targets = @ \ {c}]
         /\ UNCHANGED account
    ELSE /\ worker' = [worker EXCEPT !.targets = @ \ {c}, !.full = @ + 1]
         /\ account' = [account EXCEPT ![c].missed = @ \cup {published}]
         /\ UNCHANGED queue

Put(c) ==
    /\ worker.pc = "putting"
    /\ c \in worker.targets
    /\ PutNowait(c)
    /\ UNCHANGED <<handler, inbox, sends, published, cycles, drops>>

\* The second locked part.
CountDrops ==
    /\ worker.pc = "putting"
    /\ worker.targets = {}
    /\ drops' = drops + worker.full
    /\ worker' = [worker EXCEPT !.pc = "loop", !.full = 0]
    /\ UNCHANGED <<handler, queue, inbox, sends, published, cycles, account>>

\* The worker transmits: the admission queue's lock is taken and released.
BeginCycle ==
    /\ worker.pc = "loop"
    /\ cycles < MaxCycles
    /\ cycles' = cycles + 1
    /\ worker' = [worker EXCEPT !.pc = "cycle"]
    /\ UNCHANGED <<handler, queue, inbox, sends, published, drops, account>>

EndCycle ==
    /\ worker.pc = "cycle"
    /\ worker' = [worker EXCEPT !.pc = "loop"]
    /\ UNCHANGED <<handler, queue, inbox, sends, published, cycles, drops,
                   account>>

-----------------------------------------------------------------------------
(***************************************************************************)
(* The handlers                                                            *)
(***************************************************************************)

At(c, pc) == handler[c].pc = pc
Moves(c, pc) == handler' = [handler EXCEPT ![c].pc = pc]
RestOfDaemon == <<worker, published, cycles, drops>>

\* A KISS client is served from the start.
Connect(c) ==
    /\ At(c, "away")
    /\ LET next == [handler[c] EXCEPT !.pc = "serving"] IN
       IF c \in KissClients THEN OpenStream(c, next)
       ELSE handler' = [handler EXCEPT ![c] = next] /\ UNCHANGED account
    /\ UNCHANGED <<queue, inbox, sends, RestOfDaemon>>

\* get_nowait
Take(c) ==
    /\ At(c, "serving") /\ handler[c].open
    /\ queue[c] # <<>>
    /\ handler' = [handler EXCEPT ![c].pc = "sending", ![c].event = Head(queue[c])]
    /\ queue' = [queue EXCEPT ![c] = Tail(@)]
    /\ account' = [account EXCEPT ![c].last = Head(queue[c])]
    /\ UNCHANGED <<inbox, sends, RestOfDaemon>>

\* sendall returns, or fails or times out.
Emit(c) ==
    /\ At(c, "sending")
    /\ handler' = [handler EXCEPT ![c].pc = "serving", ![c].event = 0]
    /\ UNCHANGED <<queue, inbox, sends, RestOfDaemon, account>>

EmitFails(c) ==
    /\ At(c, "sending")
    /\ CloseStream(c)
    /\ UNCHANGED <<queue, inbox, sends, RestOfDaemon, account>>

\* The queue was empty, or the client never asked for frames.
Waits(c) ==
    /\ At(c, "serving")
    /\ handler[c].open => queue[c] = <<>>
    /\ Moves(c, "recv")
    /\ UNCHANGED <<queue, inbox, sends, RestOfDaemon, account>>

\* Mutant: the socket has no timeout.
RecvBlocks(c) ==
    /\ At(c, "recv") /\ inbox[c] # <<>>
    /\ Moves(c, "serving")
    /\ UNCHANGED <<queue, inbox, sends, RestOfDaemon, account>>

RecvTimesOut(c) ==
    /\ At(c, "recv")
    /\ Moves(c, "serving")
    /\ UNCHANGED <<queue, inbox, sends, RestOfDaemon, account>>

\* recv returns what has arrived, whole messages or the beginning of it.  A
\* refused header makes feed raise before any message of the chunk is handled.
Recv(c) ==
    /\ At(c, "recv")
    /\ \E n \in 1..Len(inbox[c]) :
          LET chunk == SubSeq(inbox[c], 1, n) IN
          /\ inbox' = [inbox EXCEPT ![c] = SubSeq(@, n + 1, Len(@))]
          /\ IF "refused" \in Range(chunk) THEN CloseStream(c)
             ELSE handler' = [handler EXCEPT ![c].pc = "handling",
                                             ![c].batch = chunk]
    /\ UNCHANGED <<queue, sends, RestOfDaemon, account>>

RecvFails(c) ==
    /\ At(c, "recv")
    /\ CloseStream(c)
    /\ UNCHANGED <<queue, inbox, sends, RestOfDaemon, account>>

\* One message of the chunk.  DATA waits for the admission queue; the first
\* raw-monitor request opens the stream, later ones change nothing.
Handle(c) ==
    /\ At(c, "handling")
    /\ LET rest == Tail(handler[c].batch)
           next == [handler[c] EXCEPT !.batch = rest,
                       !.pc = IF rest = <<>> THEN "serving" ELSE "handling"]
           message == Head(handler[c].batch)
       IN  /\ message = "data" => worker.pc # "cycle"
           /\ IF message = "monitor" /\ ~handler[c].open THEN OpenStream(c, next)
              ELSE handler' = [handler EXCEPT ![c] = next] /\ UNCHANGED account
    /\ UNCHANGED <<queue, inbox, sends, RestOfDaemon>>

\* The client sends a message.
Send(c) ==
    /\ sends[c] < MaxMessages[c]
    /\ ~At(c, "away") /\ ~At(c, "closed")
    /\ \E m \in Messages(c) : inbox' = [inbox EXCEPT ![c] = Append(@, m)]
    /\ sends' = [sends EXCEPT ![c] = @ + 1]
    /\ UNCHANGED <<handler, queue, RestOfDaemon, account>>

-----------------------------------------------------------------------------
WorkerSteps == CountDrops \/ EndCycle \/ \E c \in Clients : Put(c)

HandlerSteps(c) ==
    \/ Take(c) \/ Emit(c) \/ EmitFails(c) \/ Waits(c) \/ RecvTimesOut(c)
    \/ Handle(c)

Next ==
    \/ WorkerSteps \/ Publish \/ BeginCycle
    \/ \E c \in Clients : \/ HandlerSteps(c)
                          \/ Connect(c) \/ Send(c) \/ Recv(c) \/ RecvFails(c)

Spec == Init /\ [][Next]_vars

\* The worker goes on with what it began, a transmit cycle included, and every
\* handler thread runs; the clients and the air owe nothing.
FairSpec ==
    /\ Spec
    /\ WF_vars(WorkerSteps)
    /\ \A c \in Clients : WF_vars(HandlerSteps(c))

-----------------------------------------------------------------------------
(***************************************************************************)
(* Properties                                                              *)
(***************************************************************************)

\* What a client still has to get: what its queue holds and, while the
\* publication under way has not reached it, the frame of that one.
Held(c) == IF c \in worker.targets THEN Append(queue[c], published) ELSE queue[c]

\* What the client is due: every frame published since its stream was opened
\* that it has neither taken nor missed.
Due(c) == {i \in account[c].last + 1..published :
              i > account[c].base /\ i \notin account[c].missed}

Misses == {m \in Clients \X (1..published) : m[2] \in account[m[1]].missed}

\* A client that is being served finds every frame published since its stream
\* was opened in its queue, sent, or missed because its queue was full, in
\* order and once; subscriber_drops has every miss but those of the
\* publication under way.
ClientsAccounted ==
    /\ \A c \in Open :
          /\ Range(Held(c)) = Due(c)
          /\ \A i, j \in 1..Len(Held(c)) : i < j => Held(c)[i] < Held(c)[j]
    /\ drops + worker.full = Cardinality(Misses)

\* A frame in the queue of a client that is being served leaves it: the client
\* sends nothing, or floods the handler, or its frames wait for a transmit
\* cycle, and still its own queue is served or its connection closed.
FramesServed ==
    \A c \in Clients : \A i \in 1..MaxFrames :
        i \in Range(queue[c]) /\ handler[c].open
        ~> i \notin Range(queue[c]) \/ ~handler[c].open
=============================================================================
