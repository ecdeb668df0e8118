------------------------------- MODULE Controller -------------------------------
(***************************************************************************)
(* The controller of the aquarium: the poll loop of server.c, the requests *)
(* of protocol.c, its broadcast and timeout threads, and the views and the  *)
(* fishes of state.c, with the clients and the operator as environment.              *)
(*                                                                         *)
(* Three threads share everything; only `observers' has a mutex, which     *)
(* only the broadcast thread keeps from one action to the next.  An action *)
(* is a call that reads or writes the shared state once: a descriptor is   *)
(* read and used in one action, a command of the operator is one action.   *)
(*                                                                         *)
(* Left out: where the fishes are, and the growth of the arrays (fd_array  *)
(* has POLL_INIT_SIZE entries at first, ten views and twenty fishes have   *)
(* room).  A client reads what it is sent, sends its next request when the *)
(* last one has been read, and leaves by closing its socket.               *)
(***************************************************************************)
EXTENDS Integers, Sequences, SequencesExt, FiniteSetsExt

CONSTANTS Client,       \* the connections that are made: bound
          View, Fish,   \* names of views and of fishes
          Sents,        \* what is sent in a run: bound
          MaxObservers, \* length of observers: bound (BUFF_SIZE - 1 in C)
          None

Closed == -1                       \* an empty entry of fd_array
Slot == 2 .. 1 + Cardinality(Client)  \* its entries for connections
Fd == 3 .. 2 + Cardinality(Client)    \* descriptors

Request == {"hello", "ping", "getFishes", "getFishesContinously", "log",
            "addFish", "delFish", "startFish", "other"}
Name == View \cup {None}  \* what hello asks for

ASSUME ControllerAssumption ==
  /\ IsFiniteSet(Client) /\ Client # {} /\ IsFiniteSet(View)
  /\ Sents \subseteq SUBSET (Request \cup {"command"})
  /\ MaxObservers \in Nat
  /\ None \notin Client \cup View

VARIABLES
  server,   \* "up", or how the process ended
  sent,     \* the requests of this run besides "other", and "command"
  \* The clients and TCP
  net,      \* net[c]: the state of the connection of c
  inbox,    \* inbox[c]: does a request of c wait to be read?
  \* Shared by the threads
  fd,       \* fd[s]: fd_array[s].fd
  conn,     \* conn[f]: the connection that descriptor f is
  used,     \* first_empty_fd - 2
  views,    \* aquarium.views: id, fd_socket, and whether the ping is late
  fishes,   \* aquarium.fishes: name, started
  observers, \* what stands before the -1
  \* Local to a thread
  events,   \* the revents of poll that are not handled yet
  main,     \* the main thread: program point, ind_socket, params[2], i
  bc,       \* the broadcast thread: program point, i
  to,       \* the timeout thread: program point, i
  timedOut  \* has the timeout thread disconnected somebody?

clients == <<net, inbox>>
shared == <<fd, conn, used, views, fishes, observers>>
vars == <<server, sent, clients, shared, events, main, bc, to, timedOut>>

FishRecord == [name : Fish, started : BOOLEAN]
ViewRecord == [id : View, fd : Fd \cup {Closed}, late : BOOLEAN]

TypeOK ==
  /\ server \in {"up", "exited", "crashed", "killed"} /\ sent \in Sents
  /\ net \in [Client -> {"new", "backlog", "up", "gone", "reset", "closed"}]
  /\ inbox \in [Client -> BOOLEAN]
  /\ fd \in [Slot -> Fd \cup {Closed}]
  /\ conn \in [Fd -> Client \cup {None}]
  /\ used \in 0 .. Cardinality(Client)
  /\ views \in Seq(ViewRecord) /\ fishes \in Seq(FishRecord)
  /\ observers \in Seq(Slot) /\ Len(observers) <= MaxObservers
  /\ events \in [hup : SUBSET Slot, in : SUBSET ({1} \cup Slot)]
  /\ main \in [at : Request \cup {"accept", "scan", "command", "recv",
                       "allocate", "list", "register", "send",
                       "free", "unregister", "close"},
               slot : Slot, id : Name, i : 0 .. MaxObservers]
  /\ bc \in [at : {"asleep", "list", "write"}, i : 0 .. MaxObservers]
  /\ to \in [at : {"scan", "bye", "free", "unregister", "close", "erase"}, slot : Slot]
  /\ timedOut \in BOOLEAN

Init ==
  /\ server = "up"
  /\ sent \in Sents
  /\ net = [c \in Client |-> "new"]
  /\ inbox = [c \in Client |-> FALSE]
  /\ fd = [s \in Slot |-> Closed]
  /\ conn = [f \in Fd |-> None]
  /\ used = 0
  /\ views = <<>> /\ fishes = <<>>
  /\ observers = <<>>
  /\ events = [hup |-> {}, in |-> {}]
  /\ main = [at |-> "scan", slot |-> 2, id |-> None, i |-> 0]
  /\ bc = [at |-> "asleep", i |-> 0]
  /\ to = [at |-> "scan", slot |-> 2]
  /\ timedOut = FALSE

-----------------------------------------------------------------------------
(* Views (state.c). *)

(* get_view_by_socket: the index of the first view with that fd_socket, or 0. *)
ViewOf(f) == SelectInSeq(views, LAMBDA v : v.fd = f)

(* free_view *)
FreeView(f) ==
  views' = [k \in DOMAIN views |->
              IF views[k].fd = f
              THEN [views[k] EXCEPT !.fd = Closed, !.late = FALSE] ELSE views[k]]

(* allocate_view_extended; without a name it is allocate_view. *)
AllocateView(f, id) ==
  LET wanted == SelectInSeq(views, LAMBDA v : v.id = id /\ v.fd = Closed)
      k == IF wanted # 0 THEN wanted ELSE ViewOf(Closed)
  IN views' = IF k = 0 THEN views
              ELSE [views EXCEPT ![k].fd = f, ![k].late = FALSE]

NewView(id) == [id |-> id, fd |-> Closed, late |-> FALSE]

(* add_view *)
AddView(id) ==
  /\ \A k \in DOMAIN views : views[k].id # id
  /\ views' = Append(views, NewView(id))

(* remove_view: the last view takes the place of the removed one. *)
RemoveView(id) ==
  \E k \in DOMAIN views :
    /\ views[k].id = id
    /\ views' = Front([views EXCEPT ![k] = Last(views)])

(* command_load: a new aquarium with the views of the file, each name once. *)
Load ==
  /\ \E n \in 0 .. Cardinality(View) : \E ids \in [1 .. n -> View] :
       /\ \A j, k \in 1 .. n : ids[j] = ids[k] => j = k
       /\ views' = [k \in 1 .. n |-> NewView(ids[k])]
  /\ fishes' = <<>>

-----------------------------------------------------------------------------
(* Fishes (state.c). *)

HasFish(name) == \E k \in DOMAIN fishes : fishes[k].name = name

AddFish(name) ==
  /\ ~HasFish(name)
  /\ fishes' = Append(fishes, [name |-> name, started |-> FALSE])

(* remove_fish: the last fish takes the place of the removed one. *)
RemoveFish(name) ==
  \E k \in DOMAIN fishes :
    /\ fishes[k].name = name
    /\ fishes' = Front([fishes EXCEPT ![k] = Last(fishes)])

StartFish(name) ==
  \E k \in DOMAIN fishes :
    /\ fishes[k].name = name
    /\ fishes' = [fishes EXCEPT ![k].started = TRUE]

-----------------------------------------------------------------------------
(* Observers (protocol.c). *)

MutexIsFree == bc.at = "asleep"

Observing == Range(observers)

(* close_socket; a slot that does not observe is taken for the first one. *)
CloseSocket(s) ==
  LET last == SelectLastInSeq(observers, LAMBDA o : o = s)
  IN /\ MutexIsFree
     /\ observers' = IF observers = <<>> THEN observers
                     ELSE RemoveAt(observers, IF last = 0 THEN 1 ELSE last)

-----------------------------------------------------------------------------
(* Descriptors: what the kernel does. *)

IsOpen(f) == f # Closed /\ conn[f] # None

(* write: a client that has left answers by a reset, and a write after that *)
(* is a SIGPIPE, which nobody catches.                                      *)
Write(f) ==
  IF IsOpen(f)
  THEN /\ server' = IF net[conn[f]] = "reset" THEN "killed" ELSE server
       /\ \/ net' = net
          \/ net[conn[f]] = "gone" /\ net' = [net EXCEPT ![conn[f]] = "reset"]
  ELSE UNCHANGED <<server, net>>

(* close *)
CloseFd(f) ==
  IF IsOpen(f)
  THEN /\ net' = [net EXCEPT ![conn[f]] = "closed"]
       /\ inbox' = [inbox EXCEPT ![conn[f]] = FALSE]
       /\ conn' = [conn EXCEPT ![f] = None]
  ELSE UNCHANGED <<net, inbox, conn>>

(* What poll reports. *)
Readable(s) == IsOpen(fd[s]) /\ (inbox[conn[fd[s]]] \/ net[conn[fd[s]]] # "up")
HungUp(s) == IsOpen(fd[s]) /\ net[conn[fd[s]]] = "reset"

-----------------------------------------------------------------------------
(* The main thread: the loop of server.c. *)

GoTo(place) == main' = [main EXCEPT !.at = place]
ToScan == main' = [main EXCEPT !.at = "scan", !.slot = 2]
MyFd == fd[main.slot]
MyView == ViewOf(MyFd)

Polls == main.at = "scan" /\ events.hup \cup events.in = {}

(* The loop over fd_array has ended, and poll returns: `line' if the operator *)
(* has typed something.                                                       *)
Poll(line) ==
  LET in == {s \in Slot : Readable(s)} \cup (IF line THEN {1} ELSE {})
      accept == \E c \in Client : net[c] = "backlog"
  IN /\ Polls
     /\ line => "command" \in sent
     /\ accept \/ in # {}
     /\ events' = [hup |-> {s \in Slot : HungUp(s)}, in |-> in]
     /\ GoTo(IF accept THEN "accept" ELSE "scan")
     /\ UNCHANGED <<server, clients, shared, bc, to, timedOut>>

(* The kernel gives the lowest free descriptor; the server a new entry. *)
Accept ==
  LET f == Min({g \in Fd : conn[g] = None})
  IN /\ main.at = "accept"
     /\ \E c \in Client :
          /\ net[c] = "backlog"
          /\ net' = [net EXCEPT ![c] = "up"]
          /\ conn' = [conn EXCEPT ![f] = c]
     /\ fd' = [fd EXCEPT ![used + 2] = f]
     /\ used' = used + 1
     /\ GoTo("scan")
     /\ UNCHANGED <<server, inbox, views, fishes, observers, events, bc, to, timedOut>>

(* Mutant: "if" for "else if": after a hang-up the entry is read as well. *)
HandledBoth(s) == IF s \in events.hup THEN [events EXCEPT !.hup = @ \ {s}]
                                      ELSE [events EXCEPT !.in = @ \ {s}]

Handled(s) == [hup |-> events.hup \ {s}, in |-> events.in \ {s}]

(* The loop over fd_array goes to the next entry with an event. *)
Scan ==
  LET s == Min(events.hup \cup events.in)
  IN /\ main.at = "scan" /\ events.hup \cup events.in # {}
     /\ events' = Handled(s)
     /\ main' = [main EXCEPT !.at = CASE s \in events.hup -> "free"
                                      [] s = 1 -> "command"
                                      [] OTHER -> "recv",
                             !.slot = IF s = 1 THEN @ ELSE s]
     /\ UNCHANGED <<server, clients, shared, bc, to, timedOut>>

(* command_execute; the other commands, and those that fail, change nothing. *)
Command ==
  /\ main.at = "command"
  /\ \/ \E id \in View : (AddView(id) \/ RemoveView(id)) /\ UNCHANGED fishes
     \/ Load
     \/ UNCHANGED <<views, fishes>>
  /\ GoTo("scan")
  /\ UNCHANGED <<server, clients, fd, conn, used, observers, events, bc, to, timedOut>>

(* do_recv and the choice of protocol_execute; the end of the file reads as *)
(* an empty message.                                                        *)
Recv(r, id) ==
  LET c == conn[MyFd]
  IN /\ main.at = "recv" /\ IsOpen(MyFd)
     /\ IF inbox[c] THEN r # "hello" => id = None
                    ELSE net[c] # "up" /\ r = "other" /\ id = None
     /\ r \in sent \cup {"other"}
     /\ r = "getFishesContinously" => Len(observers) < MaxObservers
     /\ main' = [main EXCEPT !.at = r, !.id = id]
     /\ inbox' = [inbox EXCEPT ![c] = FALSE]
     /\ UNCHANGED <<server, net, shared, events, bc, to, timedOut>>

(* do_send; log out goes on with close_connection, the other requests that *)
(* nobody else sees with the next entry.                                   *)
Send ==
  /\ main.at \in {"send", "log", "other"} /\ IsOpen(MyFd)
  /\ Write(MyFd)
  /\ IF main.at = "log" THEN GoTo("free") ELSE ToScan
  /\ UNCHANGED <<inbox, shared, events, bc, to, timedOut>>

(* error: read or write failed. *)
Error ==
  /\ main.at \in {"recv", "send", "log", "other"} /\ ~IsOpen(MyFd)
  /\ server' = "exited"
  /\ UNCHANGED <<clients, shared, events, main, bc, to, timedOut>>

(* Mutant: the view is not given back. *)
CloseKeepsView ==
  /\ main.at = "free"
  /\ GoTo("unregister")
  /\ UNCHANGED <<server, clients, shared, events, bc, to, timedOut>>

(* close_connection, in three steps. *)
CloseFree ==
  /\ main.at = "free"
  /\ FreeView(MyFd)
  /\ GoTo("unregister")
  /\ UNCHANGED <<server, clients, fd, conn, used, fishes, observers, events, bc, to, timedOut>>

CloseUnregister ==
  /\ main.at = "unregister"
  /\ CloseSocket(main.slot)
  /\ GoTo("close")
  /\ UNCHANGED <<server, clients, fd, conn, used, views, fishes, events, bc, to, timedOut>>

CloseEnd ==
  /\ main.at = "close"
  /\ CloseFd(MyFd)
  /\ fd' = [fd EXCEPT ![main.slot] = Closed]
  /\ ToScan
  /\ UNCHANGED <<server, used, views, fishes, observers, events, bc, to, timedOut>>

-----------------------------------------------------------------------------
(* The main thread: the requests of protocol.c. *)

Outside == <<clients, fd, conn, used, events, bc, to, timedOut>>

(* Mutant: has_view_by_socket is not called. *)
HelloAgain ==
  /\ main.at = "hello"
  /\ GoTo("allocate")
  /\ UNCHANGED <<server, views, fishes, observers, Outside>>

Hello ==
  /\ main.at = "hello"
  /\ main' = IF MyView # 0 THEN [main EXCEPT !.at = "send", !.id = None]
                           ELSE [main EXCEPT !.at = "allocate"]
  /\ UNCHANGED <<server, views, fishes, observers, Outside>>

Allocate ==
  /\ main.at = "allocate"
  /\ AllocateView(MyFd, main.id)
  /\ main' = [main EXCEPT !.at = "send", !.id = None]
  /\ UNCHANGED <<server, fishes, observers, Outside>>

Ping ==
  /\ main.at = "ping"
  /\ views' = [k \in DOMAIN views |->
                 IF k = MyView THEN [views[k] EXCEPT !.late = FALSE] ELSE views[k]]
  /\ GoTo("send")
  /\ UNCHANGED <<server, fishes, observers, Outside>>

GetFishes ==
  /\ main.at = "getFishes"
  /\ GoTo(IF MyView = 0 THEN "send" ELSE "list")
  /\ UNCHANGED <<server, views, fishes, observers, Outside>>

(* get_fishes_by_socket: without a view, the first fish is compared with *)
(* the fields of a null pointer.                                         *)
List(f) == server' = IF ViewOf(f) = 0 /\ fishes # <<>> THEN "crashed" ELSE "up"

ListMine ==
  /\ main.at = "list"
  /\ List(MyFd)
  /\ GoTo("send")
  /\ UNCHANGED <<views, fishes, observers, Outside>>

(* add_fish, remove_fish and start_fish; a name that is taken, or not, or a *)
(* strategy that is not supported, change nothing.                          *)
FishRequest ==
  /\ main.at \in {"addFish", "delFish", "startFish"}
  /\ \/ \E name \in Fish :
          \/ main.at = "addFish" /\ AddFish(name)
          \/ main.at = "delFish" /\ RemoveFish(name)
          \/ main.at = "startFish" /\ StartFish(name)
     \/ UNCHANGED fishes
  /\ GoTo("send")
  /\ UNCHANGED <<server, views, observers, Outside>>

(* The end of observers is searched before the mutex is taken; what is     *)
(* written behind the -1 is not read before it is written again.           *)
GetFishesContinously ==
  /\ main.at = "getFishesContinously"
  /\ main' = [main EXCEPT !.at = "register", !.i = Len(observers)]
  /\ UNCHANGED <<server, views, fishes, observers, Outside>>

Register ==
  /\ main.at = "register"
  /\ MutexIsFree
  /\ observers' = IF main.i <= Len(observers)
                  THEN Append(SubSeq(observers, 1, main.i), main.slot) ELSE observers
  /\ main' = [main EXCEPT !.at = "send", !.i = 0]
  /\ UNCHANGED <<server, views, fishes, Outside>>

-----------------------------------------------------------------------------
(* The broadcast thread. *)

Served == observers[bc.i + 1]

BroadcastBegin ==
  /\ bc.at = "asleep" /\ observers # <<>>
  /\ bc' = [at |-> "list", i |-> 0]
  /\ UNCHANGED <<server, clients, shared, events, main, to, timedOut>>

BroadcastList ==
  /\ bc.at = "list"
  /\ List(fd[Served])
  /\ bc' = [bc EXCEPT !.at = "write"]
  /\ UNCHANGED <<clients, shared, events, main, to, timedOut>>

(* Mutant: the loop begins again without leaving the mutex. *)
NextServedForEver == [at |-> "list", i |-> (bc.i + 1) % Len(observers)]

(* Mutant: only the first observer is served. *)
NextServedNobody == [at |-> "asleep", i |-> 0]

NextServed == IF bc.i + 1 = Len(observers) THEN [at |-> "asleep", i |-> 0]
                                           ELSE [at |-> "list", i |-> bc.i + 1]

(* An error of write is only printed. *)
BroadcastWrite ==
  /\ bc.at = "write"
  /\ Write(fd[Served])
  /\ bc' = NextServed
  /\ UNCHANGED <<inbox, shared, events, main, to, timedOut>>

-----------------------------------------------------------------------------
(* The timeout thread. *)

Late(s) == fd[s] # Closed /\ ViewOf(fd[s]) # 0 /\ views[ViewOf(fd[s])].late
ToGoTo(place) == to' = [to EXCEPT !.at = place]

TimeoutFind(s) ==
  /\ to.at = "scan" /\ Late(s)
  /\ to' = [at |-> "bye", slot |-> s]
  /\ timedOut' = TRUE
  /\ UNCHANGED <<server, clients, shared, events, main, bc>>

TimeoutBye ==
  /\ to.at = "bye"
  /\ Write(fd[to.slot])
  /\ ToGoTo("free")
  /\ UNCHANGED <<inbox, shared, events, main, bc, timedOut>>

TimeoutFree ==
  /\ to.at = "free"
  /\ FreeView(fd[to.slot])
  /\ ToGoTo("unregister")
  /\ UNCHANGED <<server, clients, fd, conn, used, fishes, observers, events, main, bc, timedOut>>

TimeoutUnregister ==
  /\ to.at = "unregister"
  /\ CloseSocket(to.slot)
  /\ ToGoTo("close")
  /\ UNCHANGED <<server, clients, fd, conn, used, views, fishes, events, main, bc, timedOut>>

TimeoutClose ==
  /\ to.at = "close"
  /\ CloseFd(fd[to.slot])
  /\ ToGoTo("erase")
  /\ UNCHANGED <<server, fd, used, views, fishes, observers, events, main, bc, timedOut>>

(* Mutant: the thread returns after its first client. *)
TimeoutReturns ==
  /\ to.at = "erase"
  /\ fd' = [fd EXCEPT ![to.slot] = Closed]
  /\ UNCHANGED <<server, clients, conn, used, views, fishes, observers, events, main, bc, to, timedOut>>

TimeoutErase ==
  /\ to.at = "erase"
  /\ fd' = [fd EXCEPT ![to.slot] = Closed]
  /\ to' = [at |-> "scan", slot |-> 2]
  /\ UNCHANGED <<server, clients, conn, used, views, fishes, observers, events, main, bc, timedOut>>

-----------------------------------------------------------------------------
(* The clients and the clock. *)

Server == <<server, shared, events, main, bc, to, timedOut>>

Connect(c) ==
  /\ net[c] = "new"
  /\ net' = [net EXCEPT ![c] = "backlog"]
  /\ UNCHANGED <<inbox, Server>>

(* Which request it is shows when it is read. *)
SendRequest(c) ==
  /\ net[c] = "up" /\ ~inbox[c]
  /\ inbox' = [inbox EXCEPT ![c] = TRUE]
  /\ UNCHANGED <<net, Server>>

Leave(c) ==
  /\ net[c] = "up"
  /\ net' = [net EXCEPT ![c] = "gone"]
  /\ UNCHANGED <<inbox, Server>>

(* display_timeout_value seconds pass without a ping for the k-th view. *)
Silence(k) ==
  /\ views[k].fd # Closed /\ ~views[k].late
  /\ views' = [views EXCEPT ![k].late = TRUE]
  /\ UNCHANGED <<server, clients, fd, conn, used, fishes, observers, events, main, bc, to, timedOut>>

-----------------------------------------------------------------------------

MainRuns ==
  \/ Poll(FALSE) \/ Accept \/ Scan \/ Command \/ Send \/ Error
  \/ \E r \in Request, id \in Name : Recv(r, id)
  \/ CloseFree \/ CloseEnd
  \/ Hello \/ Allocate \/ Ping \/ GetFishes \/ ListMine
  \/ GetFishesContinously \/ FishRequest
BroadcastRuns == BroadcastBegin \/ BroadcastList \/ BroadcastWrite
TimeoutRuns == TimeoutBye \/ TimeoutFree \/ TimeoutClose \/ TimeoutErase
Environment ==
  \/ Poll(TRUE)
  \/ \E c \in Client : Connect(c) \/ Leave(c) \/ SendRequest(c)
  \/ \E k \in DOMAIN views : Silence(k)

Next ==
  /\ server = "up" /\ UNCHANGED sent
  /\ \/ MainRuns \/ Register \/ CloseUnregister
     \/ BroadcastRuns
     \/ TimeoutRuns \/ TimeoutUnregister \/ \E s \in Slot : TimeoutFind(s)
     \/ Environment

Spec == Init /\ [][Next]_vars

(* The operating system runs the three threads, and a thread that asks for *)
(* the mutex again and again gets it: the broadcast thread sleeps five     *)
(* seconds with the mutex free.                                            *)
Up(A) == server = "up" /\ UNCHANGED sent /\ A
FairSpec ==
  /\ Spec
  /\ WF_vars(Up(MainRuns)) /\ SF_vars(Up(Register)) /\ SF_vars(Up(CloseUnregister))
  /\ WF_vars(Up(BroadcastRuns))
  /\ WF_vars(Up(TimeoutRuns)) /\ SF_vars(Up(TimeoutUnregister))
  /\ \A s \in Slot : WF_vars(Up(TimeoutFind(s)))

-----------------------------------------------------------------------------
(* Properties. *)

(* A view shows in one place: no two views have the same name, and no two  *)
(* are linked to the same connection (hello, load, add and del view); and  *)
(* no two fishes have the same name (addFish, delFish).                    *)
AquariumIsSound ==
  /\ TypeOK
  /\ \A j, k \in DOMAIN views : j # k =>
       /\ views[j].id # views[k].id
       /\ views[j].fd # Closed => views[j].fd # views[k].fd
  /\ \A j, k \in DOMAIN fishes : j # k => fishes[j].name # fishes[k].name

(* No connection is forgotten: its descriptor is in fd_array until it is   *)
(* closed, whatever the threads do.  And as long as the timeout thread has *)
(* not disconnected anybody, the entries of fd_array are open and differ,  *)
(* and a view is linked to one of them: whatever way a client leaves, its  *)
(* view is given back.                                                     *)
Linked(f) == IsOpen(f) /\ \E s \in Slot : fd[s] = f

DescriptorsAreRight ==
  /\ \A f \in Fd : conn[f] # None => \E s \in Slot : fd[s] = f
  /\ ~timedOut =>
       /\ \A s \in Slot : fd[s] # Closed => IsOpen(fd[s])
       /\ \A s, t \in Slot : s # t /\ fd[s] = fd[t] => fd[s] = Closed
       /\ \A k \in DOMAIN views : views[k].fd # Closed => Linked(views[k].fd)

(* A failing read or write ends the server (error in server.c), which no   *)
(* order of requests, departures and commands brings about by itself: the  *)
(* timeout thread has closed a connection under the main thread.           *)
ExitsOnlyByTimeout == server = "exited" => timedOut

(* A request is read, or its connection closed, and the main thread comes  *)
(* back to poll: it never waits for ever for the mutex of the observers,   *)
(* nor for a message.  The second needs the entries of fd_array to have    *)
(* different descriptors: of two that share one (see TimeoutClose), the    *)
(* first reads the message for which poll has reported both.               *)
NoneShared == \A s, t \in Slot : s # t => fd[s] # fd[t] \/ fd[s] = Closed

RequestsAreHandled ==
  []NoneShared =>
    /\ \A c \in Client : inbox[c] ~> ~inbox[c] \/ server # "up"
    /\ []<>(Polls \/ server # "up")

(* The broadcast thread writes to an observer as long as it is one. *)
ObserversAreServed ==
  \A s \in Slot : s \in Observing ~>
    (bc.at = "write" /\ Served = s) \/ s \notin Observing \/ server # "up"

(* A client that does not ping is disconnected (or pings after all). *)
SilentClientsLeave == \A s \in Slot : Late(s) ~> ~Late(s) \/ server # "up"

(* protocol.c:172 promises the fishes every 5 seconds: a slot leaves the   *)
(* observers only when its own connection is closed.  close_socket removes *)
(* the first observer when the connection that is closed does not observe. *)
ObserverKept ==
  [][\A s \in Slot : s \in Observing /\ s \notin Observing' =>
       \/ main.at = "unregister" /\ main.slot = s
       \/ to.at = "unregister" /\ to.slot = s]_vars
=============================================================================
