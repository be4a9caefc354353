------------------------------ MODULE EventLoop ------------------------------
(***************************************************************************)
(* The dispatcher thread of a process, as in the memory: epoll over the    *)
(* file watcher of the configuration, the periodic timers, the listening   *)
(* socket and the connections of peers (EventDispatcher.c, FileWatcher.c,  *)
(* Timer.c, Socket.c, Memoria.c).  The callback of a worker timer (gossip, *)
(* and the dump of the file system) disarms its timer and starts a         *)
(* detached thread that arms it again when it ends; that of an inline      *)
(* timer (journal, DESCRIBE) runs in the dispatcher.                       *)
(*                                                                         *)
(* A descriptor is a number, and open, close and accept use the lowest     *)
(* free one, as the system does.  A packet travels as its header and then  *)
(* its body; of either part may have arrived when its peer ends or SIGINT  *)
(* interrupts the receive, and what is there is taken for all.  The        *)
(* contents of packets, addresses and the work of handlers and workers are *)
(* left out.                                                               *)
(***************************************************************************)
EXTENDS HashTable, Sequences

CONSTANTS WorkerTimers, InlineTimers,
          TimerOrder,      \* in which they are created and _reLoadConfig sets them again
          Intervals,       \* in milliseconds; 0 disarms
          FirstInterval,   \* of each timer
          StartedWith,     \* the timers whose callback ran before the loop (Gossip_Init)
          Workers,         \* ids for detached threads, of which the lowest free one is taken
          Peers,
          Packets,         \* what peers send, [size, opcode]
          Garbage,         \* headers that nobody sent, from bytes that were not initialized
          Width,           \* 2^16, of the header's size
          MaxSize,         \* 10240
          NumOpcodes, HandledOpcodes,
          InitialSize,     \* of a hashmap, 20
          MaxExpiries, MaxReloads, MaxConnections,
          MaxPackets       \* bounds, the last of the first connection; each other has one less

None       == "none"
Timers     == WorkerTimers \cup InlineTimers
Interfaces == {"watcher", "listener"} \cup Timers \cup Peers
Dispatcher == 0
Threads    == {Dispatcher} \cup Workers

ASSUME EventLoopAssumption ==
  /\ Keys \subseteq Nat /\ Workers \subseteq Nat \ {0}
  /\ TimerOrder \in Seq(Timers)
  /\ Intervals \subseteq Nat /\ FirstInterval \in [Timers -> Intervals]
  /\ Packets \subseteq [size : Nat, opcode : Nat] /\ Garbage \subseteq [size : Nat, opcode : Nat]
  /\ InitialSize \in Nat \ {0} /\ Width \in Nat \ {0}
  /\ StartedWith \in Seq(WorkerTimers)
  /\ MaxExpiries \in Nat

\* Interfaces are told apart, each timer is created once, and there are threads and descriptors for all.
ASSUME NamesAssumption ==
  /\ None \notin Interfaces /\ NULL \notin Interfaces
  /\ {"watcher", "listener"} \cap (Timers \cup Peers) = {} /\ Timers \cap Peers = {}
  /\ \A i, j \in DOMAIN TimerOrder : TimerOrder[i] = TimerOrder[j] => i = j
  /\ \A i, j \in DOMAIN StartedWith : StartedWith[i] = StartedWith[j] => i = j
  /\ DOMAIN StartedWith \subseteq Workers /\ IsFiniteSet(Workers)
  /\ IsFiniteSet(Keys) /\ IsFiniteSet(Interfaces) /\ Cardinality(Interfaces) <= Cardinality(Keys)

VARIABLES ProcessRunning,
          open,        \* the interface of each open descriptor
          epoll,       \* the descriptors that are watched
          fdiMap,      \* the dispatcher's hashmap from descriptors to interfaces
          pc,          \* of the dispatcher, with what it works on
          batch,       \* the events of epoll_wait that are not dispatched yet
          TimerEnabled, Interval,  \* of each PeriodicTimer
          armed,       \* the interval with which the system armed it, 0 if it did not
          expiries,    \* those the system counted and nobody read
          call,        \* of PeriodicTimer_SetEnabled, by each thread
          worker,      \* the timer for which each thread works
          changes,     \* of the configuration file, not read
          reloads,     \* how often it was changed
          disturbed,   \* timers that a reload set while a worker of theirs was active
          link,        \* of each peer: none, backlog, accepted, closed
          alive,       \* how each peer is: alive, or ended its connection by "fin" or "reset"
          sending,     \* peers of whose packet part of the header or of the body has not arrived
          stream,      \* the headers and bodies that arrived, of the last header perhaps a part
          garbled,     \* peers of whom a header was taken of which a part had arrived
          sent, handled,
          connections  \* how often a peer connected
procVars  == <<ProcessRunning, open, epoll, fdiMap>>
loopVars  == <<pc, batch>>
timerVars == <<TimerEnabled, Interval, armed, expiries, call, worker, disturbed>>
fileVars  == <<changes, reloads, connections>>
peerVars  == <<link, alive, sending, stream, garbled, sent, handled>>
vars == <<procVars, loopVars, timerVars, fileVars, peerVars>>

NoCall == [timer |-> None, enable |-> FALSE, step |-> None]
At(at) == [at |-> at, timer |-> None, left |-> 0, peer |-> None, header |-> None,
           todo |-> <<>>, new |-> 0]

Header(packet, whole) == [part |-> "header", whole |-> whole,
                          size |-> packet.size % Width, opcode |-> packet.opcode]
Body(whole) == [part |-> "body", whole |-> whole]

\* The types of descriptors, dispatcher, timers and connections of the event loop.
TypeOK ==
  /\ ProcessRunning \in BOOLEAN
  /\ epoll \subseteq Keys /\ open \in [Keys -> Interfaces \cup {None}]
  /\ pc.at \in {"wait", "dispatch", "fire", "spawn", "reload", "set", "header", "recv", "ended"}
  /\ \A event \in batch : event.fdi \in Interfaces
  /\ TimerEnabled \in [Timers -> BOOLEAN]
  /\ Interval \in [Timers -> Intervals] /\ armed \in [Timers -> Intervals \cup {0}]
  /\ expiries \in [Timers -> 0 .. MaxExpiries]
  /\ \A th \in Threads : call[th].step \in {None, "check", "settime", "store"}
  /\ worker \in [Workers -> WorkerTimers \cup {None}]
  /\ link \in [Peers -> {"none", "backlog", "accepted", "closed"}]
  /\ alive \in [Peers -> {"alive", "fin", "reset"}]
  /\ sending \subseteq Peers /\ garbled \subseteq Peers

-----------------------------------------------------------------------------
(***************************************************************************)
(* Descriptors and the dispatcher's map.                                   *)
(***************************************************************************)
Lowest(ids) == CHOOSE id \in ids : \A other \in ids : id <= other

FreeDescriptor == Lowest({fd \in Keys : open[fd] = None})

DescriptorOf(fdi) == CHOOSE fd \in Keys : open[fd] = fdi

EventDispatcher_AddFDI(fd, fdi) ==
  /\ open' = [open EXCEPT ![fd] = fdi]
  /\ epoll' = epoll \cup {fd}
  /\ fdiMap' = hashmap_put(fdiMap, fd, fdi)

\* Variant: the interface is taken out of epoll and stays in the map.
EventDispatcher_RemoveFDI_KeepsEntry(fdi) ==
  /\ open' = [open EXCEPT ![DescriptorOf(fdi)] = None]
  /\ epoll' = epoll \ {DescriptorOf(fdi)}
  /\ UNCHANGED fdiMap

\* The map's interface of that descriptor is destroyed, which closes it.
EventDispatcher_RemoveFDI(fdi) ==
  LET fd == DescriptorOf(fdi) IN
  /\ epoll' = epoll \ {fd}
  /\ open' = IF hashmap_get(fdiMap, fd) = NULL THEN open ELSE [open EXCEPT ![fd] = None]
  /\ fdiMap' = hashmap_remove(fdiMap, fd)

EventDispatcher_Terminate ==
  /\ open' = [fd \in Keys |-> IF open[fd] \in {e.value : e \in Elements(fdiMap)} THEN None ELSE open[fd]]
  /\ fdiMap' = Clean(fdiMap)
  /\ epoll' = {}

\* The watcher, the timers and the listening socket, in the order of SetupConfigInitial
\* and StartMemory.
AtStart == <<"watcher">> \o TimerOrder \o <<"listener">>
Descriptors == [i \in DOMAIN AtStart |-> Lowest({fd \in Keys : Cardinality({x \in Keys : x < fd}) = i - 1})]

MapAtStart[i \in 0 .. Len(AtStart)] ==
  IF i = 0 THEN Create(InitialSize) ELSE hashmap_put(MapAtStart[i - 1], Descriptors[i], AtStart[i])

Started(t) == \E i \in DOMAIN StartedWith : StartedWith[i] = t

Init ==
  /\ ProcessRunning = TRUE
  /\ open = [fd \in Keys |-> IF \E i \in DOMAIN AtStart : Descriptors[i] = fd
                             THEN AtStart[CHOOSE i \in DOMAIN AtStart : Descriptors[i] = fd] ELSE None]
  /\ epoll = {Descriptors[i] : i \in DOMAIN AtStart}
  /\ fdiMap = MapAtStart[Len(AtStart)]
  /\ pc = At("wait") /\ batch = {}
  /\ TimerEnabled = [t \in Timers |-> ~Started(t)]
  /\ Interval = FirstInterval
  /\ armed = [t \in Timers |-> IF Started(t) THEN 0 ELSE FirstInterval[t]]
  /\ expiries = [t \in Timers |-> 0]
  /\ call = [th \in Threads |-> NoCall]
  /\ worker = [w \in Workers |-> IF w \in DOMAIN StartedWith THEN StartedWith[w] ELSE None]
  /\ changes = 0 /\ reloads = 0 /\ connections = 0
  /\ disturbed = [t \in Timers |-> 0]
  /\ link = [p \in Peers |-> "none"]
  /\ alive = [p \in Peers |-> "alive"]
  /\ sending = {} /\ stream = [p \in Peers |-> <<>>] /\ garbled = {}
  /\ sent = [p \in Peers |-> <<>>] /\ handled = [p \in Peers |-> <<>>]

Running == pc.at # "ended"

-----------------------------------------------------------------------------
(***************************************************************************)
(* Timers.                                                                 *)
(***************************************************************************)
\* The system counts an expiration.
Expire(t) ==
  /\ Running /\ armed[t] > 0 /\ expiries[t] < MaxExpiries
  /\ expiries' = [expiries EXCEPT ![t] = @ + 1]
  /\ UNCHANGED <<procVars, loopVars, fileVars, peerVars, TimerEnabled, Interval, armed, call,
                 worker, disturbed>>

\* PeriodicTimer_SetEnabled in its three steps.
Calls(th, t, enable) == call' = [call EXCEPT ![th] = [timer |-> t, enable |-> enable, step |-> "check"]]

\* A worker's call is the last thing it does.
Returns(th) ==
  /\ call' = [call EXCEPT ![th] = NoCall]
  /\ worker' = IF th \in Workers THEN [worker EXCEPT ![th] = None] ELSE worker

SetEnabled_Check(th) ==
  LET c == call[th] IN
  /\ Running /\ c.step = "check"
  /\ IF TimerEnabled[c.timer] = c.enable THEN Returns(th)
     ELSE call' = [call EXCEPT ![th].step = "settime"] /\ UNCHANGED worker
  /\ UNCHANGED <<procVars, loopVars, fileVars, peerVars, TimerEnabled, Interval, armed, expiries,
                 disturbed>>

\* timerfd_settime: what was counted and not read is forgotten.
SetEnabled_Settime(th) ==
  LET c == call[th] IN
  /\ Running /\ c.step = "settime"
  /\ armed' = [armed EXCEPT ![c.timer] = IF c.enable THEN Interval[c.timer] ELSE 0]
  /\ expiries' = [expiries EXCEPT ![c.timer] = 0]
  /\ call' = [call EXCEPT ![th].step = "store"]
  /\ UNCHANGED <<procVars, loopVars, fileVars, peerVars, TimerEnabled, Interval, worker, disturbed>>

SetEnabled_Store(th) ==
  LET c == call[th] IN
  /\ Running /\ c.step = "store"
  /\ TimerEnabled' = [TimerEnabled EXCEPT ![c.timer] = c.enable]
  /\ Returns(th)
  /\ UNCHANGED <<procVars, loopVars, fileVars, peerVars, Interval, armed, expiries, disturbed>>

\* Variant: the worker does not enable its timer again.
WorkerEnds_NoEnable(w) ==
  /\ Running /\ worker[w] # None
  /\ worker' = [worker EXCEPT ![w] = None]
  /\ UNCHANGED <<procVars, loopVars, fileVars, peerVars, TimerEnabled, Interval, armed, expiries,
                 call, disturbed>>

\* _gossipWorkerTh or memtable_dump_thread has done its work.
WorkerEnds(w) ==
  /\ Running /\ worker[w] # None /\ call[w] = NoCall
  /\ Calls(w, worker[w], TRUE)
  /\ UNCHANGED <<procVars, loopVars, fileVars, peerVars, TimerEnabled, Interval, armed, expiries,
                 worker, disturbed>>

-----------------------------------------------------------------------------
(***************************************************************************)
(* The dispatcher.                                                         *)
(***************************************************************************)
Ready(fdi) ==
  \/ fdi = "watcher" /\ changes > 0
  \/ fdi = "listener" /\ \E p \in Peers : link[p] = "backlog"
  \/ fdi \in Timers /\ expiries[fdi] > 0
  \/ fdi \in Peers /\ (stream[fdi] # <<>> \/ alive[fdi] # "alive")

\* epoll_wait: "hup" tells EPOLLERR and EPOLLHUP from EPOLLIN.
EventDispatcher_Dispatch ==
  LET ready == {fdi \in {open[fd] : fd \in epoll} : Ready(fdi)} IN
  /\ pc.at = "wait" /\ ready # {}
  /\ batch' = {[fdi |-> fdi, hup |-> fdi \in Peers /\ alive[fdi] = "reset"] : fdi \in ready}
  /\ pc' = At("dispatch")
  /\ UNCHANGED <<procVars, timerVars, fileVars, peerVars>>

\* The loop goes on, or the process cleans up and ends.
EventDispatcher_Loop ==
  /\ pc.at = "dispatch" /\ batch = {}
  /\ IF ProcessRunning
     THEN pc' = At("wait") /\ UNCHANGED <<open, epoll, fdiMap>>
     ELSE pc' = At("ended") /\ EventDispatcher_Terminate
  /\ UNCHANGED <<ProcessRunning, batch, timerVars, fileVars, peerVars>>

Dispatched(fdi) == batch' = {event \in batch : event.fdi # fdi}

\* With the interface goes all that is on the connection, and what was kept of it here.
Close(p) ==
  /\ EventDispatcher_RemoveFDI(p)
  /\ link' = [link EXCEPT ![p] = "closed"]
  /\ alive' = [alive EXCEPT ![p] = "alive"] /\ sending' = sending \ {p}
  /\ stream' = [stream EXCEPT ![p] = <<>>]
  /\ sent' = [sent EXCEPT ![p] = <<>>] /\ handled' = [handled EXCEPT ![p] = <<>>]

\* The first branch of _dispatchEvent: what was not read is lost.
Dispatch_HangUp(p) ==
  /\ pc.at = "dispatch" /\ [fdi |-> p, hup |-> TRUE] \in batch
  /\ Dispatched(p) /\ Close(p)
  /\ UNCHANGED <<ProcessRunning, pc, timerVars, fileVars, garbled>>

Event(fdi) == pc.at = "dispatch" /\ [fdi |-> fdi, hup |-> FALSE] \in batch

\* Timer's _readCb; another thread may have set the timer since epoll_wait.
Timer_readCb(t) ==
  /\ Event(t) /\ Dispatched(t)
  /\ pc' = IF expiries[t] = 0 THEN pc ELSE [At("fire") EXCEPT !.timer = t, !.left = expiries[t]]
  /\ expiries' = [expiries EXCEPT ![t] = 0]
  /\ UNCHANGED <<procVars, fileVars, peerVars, TimerEnabled, Interval, armed, call, worker, disturbed>>

FiresAgain == pc.at = "fire" /\ TimerEnabled[pc.timer] /\ pc.left > 0

\* API_Journal and its like do their work here.
Callback_Inline ==
  /\ FiresAgain /\ pc.timer \in InlineTimers
  /\ pc' = [pc EXCEPT !.left = @ - 1]
  /\ UNCHANGED <<procVars, batch, timerVars, fileVars, peerVars>>

\* Variant: the timer stays enabled while its worker works.
Gossip_Do_StaysEnabled ==
  /\ FiresAgain /\ pc.timer \in WorkerTimers
  /\ pc' = [pc EXCEPT !.at = "spawn", !.left = @ - 1]
  /\ UNCHANGED <<procVars, batch, fileVars, peerVars, timerVars>>

\* Gossip_Do and _initDumpThread: SetEnabled(pt, false), and when that returned, the worker.
Gossip_Do ==
  /\ FiresAgain /\ pc.timer \in WorkerTimers
  /\ Calls(Dispatcher, pc.timer, FALSE)
  /\ pc' = [pc EXCEPT !.at = "spawn", !.left = @ - 1]
  /\ UNCHANGED <<procVars, batch, fileVars, peerVars, TimerEnabled, Interval, armed, expiries,
                 worker, disturbed>>

Threads_CreateDetached ==
  /\ pc.at = "spawn" /\ call[Dispatcher] = NoCall
  /\ \E w \in Workers : worker[w] = None
  /\ worker' = [worker EXCEPT ![Lowest({w \in Workers : worker[w] = None})] = pc.timer]
  /\ pc' = [pc EXCEPT !.at = "fire"]
  /\ UNCHANGED <<procVars, batch, fileVars, peerVars, TimerEnabled, Interval, armed, expiries, call,
                 disturbed>>

Callback_End ==
  /\ pc.at = "fire" /\ ~FiresAgain
  /\ pc' = At("dispatch")
  /\ UNCHANGED <<procVars, batch, timerVars, fileVars, peerVars>>

\* FileWatcher's _readCb: _reLoadConfig once for each change.
FileWatcher_readCb ==
  /\ Event("watcher") /\ Dispatched("watcher")
  /\ pc' = At("reload")
  /\ UNCHANGED <<procVars, timerVars, fileVars, peerVars>>

_reLoadConfig ==
  /\ pc.at = "reload" /\ pc.todo = <<>> /\ call[Dispatcher] = NoCall
  /\ IF changes = 0 THEN pc' = At("dispatch") /\ UNCHANGED changes
     ELSE /\ changes' = changes - 1
          /\ pc' = [pc EXCEPT !.todo = TimerOrder]
  /\ UNCHANGED <<procVars, batch, timerVars, reloads, connections, peerVars>>

\* PeriodicTimer_ReSetTimer with what the file says: an equal interval changes nothing,
\* another disables the timer...
ReSetTimer ==
  LET t == Head(pc.todo) IN
  /\ pc.at = "reload" /\ pc.todo # <<>> /\ call[Dispatcher] = NoCall
  /\ \/ /\ pc' = [pc EXCEPT !.todo = Tail(@)]
        /\ UNCHANGED <<call, disturbed>>
     \/ /\ \E new \in Intervals \ {Interval[t]} : pc' = [pc EXCEPT !.at = "set", !.new = new]
        /\ Calls(Dispatcher, t, FALSE)
        /\ disturbed' = [disturbed EXCEPT ![t] = IF \E w \in Workers : worker[w] = t THEN @ + 1 ELSE @]
  /\ UNCHANGED <<procVars, batch, fileVars, peerVars, TimerEnabled, Interval, armed, expiries, worker>>

\* Variant: the new interval is taken for seconds.
ReSetTimer_Enable_Seconds ==
  LET t == Head(pc.todo) IN
  /\ pc.at = "set" /\ call[Dispatcher] = NoCall
  /\ Interval' = [Interval EXCEPT ![t] = 1000 * pc.new]
  /\ Calls(Dispatcher, t, TRUE)
  /\ pc' = [pc EXCEPT !.at = "reload", !.todo = Tail(@), !.new = 0]
  /\ UNCHANGED <<procVars, batch, fileVars, peerVars, TimerEnabled, armed, expiries, worker, disturbed>>

\* ... sets the interval and enables it.
ReSetTimer_Enable ==
  LET t == Head(pc.todo) IN
  /\ pc.at = "set" /\ call[Dispatcher] = NoCall
  /\ Interval' = [Interval EXCEPT ![t] = pc.new]
  /\ Calls(Dispatcher, t, TRUE)
  /\ pc' = [pc EXCEPT !.at = "reload", !.todo = Tail(@), !.new = 0]
  /\ UNCHANGED <<procVars, batch, fileVars, peerVars, TimerEnabled, armed, expiries, worker, disturbed>>

-----------------------------------------------------------------------------
(***************************************************************************)
(* Sockets.                                                                *)
(***************************************************************************)
\* _acceptCb takes one connection.
_acceptCb ==
  /\ Event("listener") /\ Dispatched("listener")
  /\ \E p \in Peers :
       /\ link[p] = "backlog" /\ link' = [link EXCEPT ![p] = "accepted"]
       /\ EventDispatcher_AddFDI(FreeDescriptor, p)
  /\ UNCHANGED <<ProcessRunning, pc, timerVars, fileVars, alive, sending, stream, garbled, sent,
                 handled>>

\* Socket_HandlePacket once the packet is complete, or taken for it: one that has no handler
\* closes the connection.  What comes after a part of a packet is not read as its rest.
HandlePacket(p, header, whole, rest) ==
  IF header.opcode \in HandledOpcodes
  THEN /\ handled' = [handled EXCEPT ![p] =
            Append(@, [size |-> header.size, opcode |-> header.opcode, whole |-> whole])]
       /\ stream' = [stream EXCEPT ![p] = rest]
       /\ sending' = IF whole THEN sending ELSE sending \ {p}
       /\ UNCHANGED <<open, epoll, fdiMap, link, alive, sent>>
  ELSE Close(p)

\* Socket_RecvPacket: its first recv waits for all of the header...
Socket_RecvPacket(p) ==
  /\ Event(p) /\ Dispatched(p)
  /\ pc' = [At("header") EXCEPT !.peer = p]
  /\ UNCHANGED <<procVars, timerVars, fileVars, peerVars>>

Valid(header) == header.size < MaxSize /\ header.opcode < NumOpcodes

\* ... of which it checks no more than that it is valid: one that is not closes the
\* connection, and a packet without contents is complete.
TakeHeader(p, header, whole, rest) ==
  \/ /\ ~Valid(header)
     /\ Close(p) /\ pc' = At("dispatch")
  \/ /\ Valid(header) /\ header.size = 0
     /\ HandlePacket(p, header, whole, rest) /\ pc' = At("dispatch")
  \/ /\ Valid(header) /\ header.size > 0
     /\ stream' = [stream EXCEPT ![p] = rest]
     /\ pc' = [At("recv") EXCEPT !.peer = p, !.header = [size |-> header.size, opcode |-> header.opcode]]
     /\ UNCHANGED <<open, epoll, fdiMap, link, alive, sending, sent, handled>>

Recv_Header ==
  LET p == pc.peer IN
  /\ pc.at = "header" /\ stream[p] # <<>> /\ Head(stream[p]).whole
  /\ TakeHeader(p, Head(stream[p]), TRUE, Tail(stream[p]))
  /\ UNCHANGED <<ProcessRunning, batch, timerVars, fileVars, garbled>>

\* The peer ended: of one to three bytes no more is asked, the others are not initialized.
Recv_HeaderEnds ==
  LET p == pc.peer IN
  /\ pc.at = "header" /\ alive[p] # "alive"
  /\ \/ /\ stream[p] = <<>>
        /\ Close(p) /\ pc' = At("dispatch") /\ UNCHANGED garbled
     \/ /\ stream[p] # <<>> /\ ~Head(stream[p]).whole
        /\ \E header \in Garbage : TakeHeader(p, header, FALSE, <<>>)
        /\ garbled' = garbled \cup {p}
  /\ UNCHANGED <<ProcessRunning, batch, timerVars, fileVars>>

\* Variant: recv returns what there is (no MSG_WAITALL).
Recv_Body_NoWait ==
  LET p == pc.peer IN
  /\ pc.at = "recv" /\ stream[p] = <<>>
  /\ HandlePacket(p, pc.header, FALSE, <<>>)
  /\ pc' = At("dispatch")
  /\ UNCHANGED <<ProcessRunning, batch, timerVars, fileVars, garbled>>

\* Its second recv waits for the whole body or the end of the connection; part of a body
\* gives a positive length, and the packet is taken for complete.
Recv_Body ==
  LET p == pc.peer IN
  /\ pc.at = "recv"
  /\ \/ /\ stream[p] # <<>>
        /\ HandlePacket(p, pc.header, Head(stream[p]).whole, Tail(stream[p]))
     \/ /\ stream[p] = <<>> /\ alive[p] # "alive"
        /\ Close(p)
  /\ pc' = At("dispatch")
  /\ UNCHANGED <<ProcessRunning, batch, timerVars, fileVars, garbled>>

-----------------------------------------------------------------------------
(***************************************************************************)
(* What happens outside: peers, the configuration file, the console.  It   *)
(* happens when the dispatcher looks, in epoll_wait (and in recv, for the  *)
(* rest of a packet, its end and signals): while it does something else it *)
(* does not see the difference between that and later.  As a bound, either *)
(* peers connect or the configuration changes.                             *)
(***************************************************************************)
Waits    == pc.at = "wait"
Receives == pc.at \in {"header", "recv"}

\* A peer connects, or connects again.
Connect(p) ==
  /\ Waits /\ reloads = 0 /\ connections < MaxConnections /\ link[p] \in {"none", "closed"}
  /\ link' = [link EXCEPT ![p] = "backlog"] /\ connections' = connections + 1
  /\ garbled' = garbled \ {p}
  /\ UNCHANGED <<procVars, loopVars, timerVars, changes, reloads, alive, sending, stream, sent,
                 handled>>

Connected(p) == link[p] \in {"backlog", "accepted"} /\ alive[p] = "alive"

\* Socket_SendPacket of the peer: header and contents have the size of sixteen bits.  Some
\* of the header arrives, or all.
Socket_SendPacket(p) ==
  /\ Waits /\ Connected(p) /\ p \notin sending /\ connections + Len(sent[p]) <= MaxPackets
  /\ \E packet \in Packets, whole \in BOOLEAN :
       /\ sent' = [sent EXCEPT ![p] = Append(@, packet)]
       /\ stream' = [stream EXCEPT ![p] = Append(@, Header(packet, whole))]
       /\ sending' = IF whole /\ packet.size % Width = 0 THEN sending ELSE sending \cup {p}
  /\ UNCHANGED <<procVars, loopVars, timerVars, fileVars, link, alive, garbled, handled>>

HeaderArrived(p) == stream[p] # <<>> => stream[p][Len(stream[p])].whole

\* The rest of the header.
Arrive_Header(p) ==
  LET last == Len(stream[p]) IN
  /\ ~HeaderArrived(p)
  /\ stream' = [stream EXCEPT ![p][last].whole = TRUE]
  /\ sending' = IF stream[p][last].size = 0 THEN sending \ {p} ELSE sending

Arrive_Body(p) ==
  /\ HeaderArrived(p)
  /\ stream' = [stream EXCEPT ![p] = Append(@, Body(TRUE))]
  /\ sending' = sending \ {p}

Arrive(p) ==
  /\ Waits \/ Receives
  /\ Connected(p) /\ p \in sending \ garbled
  /\ Arrive_Header(p) \/ Arrive_Body(p)
  /\ UNCHANGED <<procVars, loopVars, timerVars, fileVars, link, alive, garbled, sent, handled>>

\* The peer ends, between packets or in one of which part of the header, or part of the body
\* or none of it, has arrived, or its connection breaks.
PeerEnds(p) ==
  /\ Waits \/ Receives
  /\ Connected(p)
  /\ \E how \in {"fin", "reset"} : alive' = [alive EXCEPT ![p] = how]
  /\ \/ UNCHANGED stream
     \/ p \in sending /\ HeaderArrived(p) /\ stream' = [stream EXCEPT ![p] = Append(@, Body(FALSE))]
  /\ sending' = sending \ {p}
  /\ UNCHANGED <<procVars, loopVars, timerVars, fileVars, link, garbled, sent, handled>>

ChangeConfig ==
  /\ Waits /\ reloads < MaxReloads /\ connections = 0
  /\ changes' = changes + 1 /\ reloads' = reloads + 1
  /\ UNCHANGED <<connections, procVars, loopVars, timerVars, peerVars>>

\* SIGINT, which may interrupt epoll_wait, or the end of the console's input, before the
\* loop checks or while it waits.  A recv that has no byte yet starts again (SA_RESTART).
Stop ==
  /\ ProcessRunning /\ ProcessRunning' = FALSE
  /\ \/ (Waits \/ Receives \/ (pc.at = "dispatch" /\ batch = {})) /\ UNCHANGED pc
     \/ Waits /\ pc' = At("dispatch")
  /\ UNCHANGED <<open, epoll, fdiMap, batch, timerVars, fileVars, peerVars>>

\* SIGINT in a recv that has some bytes, which returns with them: of a header the others are
\* not initialized...
Interrupt_Header ==
  LET p == pc.peer IN
  /\ pc.at = "header" /\ alive[p] = "alive" /\ stream[p] # <<>> /\ ~Head(stream[p]).whole
  /\ \E header \in Garbage : TakeHeader(p, header, FALSE, <<>>)
  /\ garbled' = garbled \cup {p} /\ ProcessRunning' = FALSE
  /\ UNCHANGED <<batch, timerVars, fileVars>>

\* ... and a body is taken for whole.  After a header that nobody sent the rest of the true one
\* is taken for the body as well, as soon as it is enough or another SIGINT comes.
Interrupt_Body ==
  LET p == pc.peer IN
  /\ pc.at = "recv" /\ alive[p] = "alive" /\ stream[p] = <<>> /\ p \in sending
  /\ HandlePacket(p, pc.header, FALSE, <<>>)
  /\ pc' = At("dispatch") /\ ProcessRunning' = FALSE
  /\ UNCHANGED <<batch, timerVars, fileVars, garbled>>

-----------------------------------------------------------------------------
SetEnabled(th) == SetEnabled_Check(th) \/ SetEnabled_Settime(th) \/ SetEnabled_Store(th)

DispatcherStep ==
  \/ EventDispatcher_Dispatch \/ EventDispatcher_Loop
  \/ \E p \in Peers : Dispatch_HangUp(p) \/ Socket_RecvPacket(p)
  \/ \E t \in Timers : Timer_readCb(t)
  \/ Callback_Inline \/ Gossip_Do \/ Threads_CreateDetached \/ Callback_End
  \/ FileWatcher_readCb \/ _reLoadConfig \/ ReSetTimer \/ ReSetTimer_Enable
  \/ _acceptCb \/ Recv_Header \/ Recv_HeaderEnds \/ Recv_Body
  \/ SetEnabled(Dispatcher)

WorkerStep(w) == WorkerEnds(w) \/ SetEnabled(w)

Outside ==
  \/ \E t \in Timers : Expire(t)
  \/ \E p \in Peers : Connect(p) \/ Socket_SendPacket(p) \/ Arrive(p) \/ PeerEnds(p)
  \/ ChangeConfig \/ Stop \/ Interrupt_Header \/ Interrupt_Body

Next == DispatcherStep \/ (\E w \in Workers : WorkerStep(w)) \/ Outside

Spec == Init /\ [][Next]_vars

\* Threads are scheduled, armed timers expire, and a peer that began a packet sends the
\* rest of it or ends.
FairSpec ==
  /\ Spec /\ WF_vars(DispatcherStep)
  /\ \A w \in Workers : WF_vars(WorkerStep(w))
  /\ \A t \in Timers : WF_vars(Expire(t))
  /\ \A p \in Peers : WF_vars(Arrive(p))
-----------------------------------------------------------------------------
(***************************************************************************)
(* Properties.                                                             *)
(***************************************************************************)
WorkersOf(t) == {w \in Workers : worker[w] = t}

\* "aviso que termine para que el siguiente pueda ejecutar" (Gossip.c:348): a timer fires
\* or has one worker, not both; each reload that set it while a worker of its was active
\* may add one more. Without such a reload it is armed with its interval exactly when it
\* has no worker, whenever nobody is setting it.
OneWorkerPerTimer ==
  \A t \in WorkerTimers :
    /\ Cardinality(WorkersOf(t)) <= 1 + disturbed[t]
    /\ Running /\ disturbed[t] = 0 /\ (\A th \in Threads : call[th].timer # t)
       /\ ~(pc.at \in {"spawn", "set"}) =>
         /\ TimerEnabled[t] <=> WorkersOf(t) = {}
         /\ armed[t] = IF TimerEnabled[t] THEN Interval[t] ELSE 0

\* Without that exception; a reload while a worker is active makes it false.
ATimerHasOneWorker == \A t \in WorkerTimers : Cardinality(WorkersOf(t)) <= 1

\* What the handlers get of a peer are its packets in order, once each, whole and with their
\* own contents, although headers and bodies arrive in parts, and as far as sixteen bits can
\* tell their size.  Only the last can be short, of a peer that ended within it or when SIGINT
\* came within it, and only if that was within its header is the opcode not the packet's.
PacketsArriveWhole ==
  \A p \in Peers : \A i \in DOMAIN handled[p] :
    LET itsHeader == /\ handled[p][i].opcode = sent[p][i].opcode
                     /\ handled[p][i].size = sent[p][i].size % Width
        last      == i = Len(sent[p]) /\ (alive[p] # "alive" \/ ~ProcessRunning)
    IN /\ i <= Len(sent[p])
       /\ handled[p][i].whole \/ last
       /\ itsHeader \/ (last /\ p \in garbled)

\* The descriptors that are open, those epoll watches and those of the map are the same,
\* with the same interfaces, through the reuse of their numbers and the growth of the map;
\* an event that was not dispatched is of one of them, and none is open at the end.
EveryDescriptorHasItsInterface ==
  /\ epoll = {fd \in Keys : open[fd] # None}
  /\ \A fd \in Keys : hashmap_get(fdiMap, fd) = IF fd \in epoll THEN open[fd] ELSE NULL
  /\ fdiMap.amount = Cardinality(epoll)
  /\ \A event \in batch : \E fd \in epoll : open[fd] = event.fdi
  /\ pc.at = "ended" => epoll = {}

\* SIGINT within a header may make the dispatcher wait for a body that nobody sends.
WaitsForNothing == pc.at = "recv" /\ pc.peer \in garbled /\ alive[pc.peer] = "alive"

\* The loop goes on whatever its peers do: a timer that has an interval and that no reload
\* disturbed goes on firing, what a peer sent whole is handled or its connection
\* closed, and the process ends when it is told to and a timer wakes it, unless a header was
\* taken of which SIGINT let no more than a part arrive.
TheLoopGoesOn ==
  /\ \A t \in Timers :
       []<>(\/ \E w \in Workers : worker[w] = t
            \/ pc.at = "fire" /\ pc.timer = t
            \/ Interval[t] = 0 \/ disturbed[t] > 0 \/ pc.at = "ended" \/ WaitsForNothing)
  /\ \A p \in Peers : \A i \in 1 .. MaxPackets :
       Len(sent[p]) >= i ~>
         (Len(handled[p]) >= i \/ link[p] = "closed" \/ pc.at = "ended" \/ WaitsForNothing)
  /\ ~ProcessRunning ~>
       (pc.at = "ended" \/ WaitsForNothing \/ \A t \in Timers : Interval[t] = 0 \/ disturbed[t] > 0)
=============================================================================
