------------------------------ MODULE InfoShare ------------------------------
(***************************************************************************)
(* One process that uses the information sharing library                   *)
(* (devInfoshare/InfoShare/infoshare.{h,cpp}).  Two threads run in it:     *)
(*                                                                         *)
(*   - the application thread calls setup, the getters, changeColor and    *)
(*     terminate, one call after the other;                                *)
(*   - the server thread, which the constructor of UDPServer starts, runs  *)
(*     receivedDataHandler once for every datagram.                        *)
(*                                                                         *)
(* They share the table of the other robots' data (robot_data_list_) and   *)
(* our_color_.  The handler updates a row of the table field after field:  *)
(* a store for an atomic field, a critical section of the field's own      *)
(* mutex for any other, so that the application reads rows that are half   *)
(* updated but must never read a field that is.                            *)
(*                                                                         *)
(* Data: the datagrams the handler accepts are numbered in the order of    *)
(* their arrival, and a field holds the number of the datagram its value   *)
(* came from (0: the value the constructor gave).  A field that is written *)
(* in several machine steps (a vector cleared and refilled, a struct, a    *)
(* string) is a pair: head is the datagram its first part comes from, tail *)
(* the one its last part comes from; they differ while it is half written. *)
(***************************************************************************)
EXTENDS Integers, Sequences, FiniteSets

CONSTANTS
  NUM_PLAYERS,   \* number of rows of the table
  FieldOrder,    \* the fields of a row, in the order the handler writes them
  SetupIds,      \* the ids an application passes to setup
  Datagrams,     \* the datagrams that may reach the port
  MaxAccepted    \* bound of the model: datagrams accepted in a behaviour

Ids == 1 .. NUM_PLAYERS

\* our_color_ and the argument of changeColor; "invalid" stands for every
\* value that is neither COLOR_MAGENTA nor COLOR_CYAN.
Colors == {"magenta", "cyan"}
ColorArgs == Colors \union {"invalid"}

\* The order of receivedDataHandler: setRecv_time, then the fields.
SourceFieldOrder ==
  << "recv_time",
     "status", "fps", "voltage", "temperature", "highest_servo",
     "command", "current_behavior_name",
     "our_robot_gl", "enemy_robot_gl", "black_pole_gl", "target_pos_vec",
     "ball_gl_cf", "self_pos_cf" >>

AtomicFields == {"status", "fps", "voltage", "temperature", "highest_servo"}
VectorFields == {"our_robot_gl", "enemy_robot_gl", "black_pole_gl", "target_pos_vec"}

Fields == {FieldOrder[i] : i \in 1 .. Len(FieldOrder)}
LockedFields == Fields \ AtomicFields

ASSUME PlayersAssumption == NUM_PLAYERS \in Nat \ {0}

\* setRecv_time comes first and no field is written twice.
ASSUME FieldOrderAssumption ==
  /\ FieldOrder \in Seq(STRING)
  /\ Len(FieldOrder) > 1
  /\ FieldOrder[1] = "recv_time"
  /\ \A i, j \in 1 .. Len(FieldOrder) : FieldOrder[i] = FieldOrder[j] => i = j

\* A datagram names its sender and the sender's team; team is "none" when the
\* field is missing (a datagram cut at the size of the receive buffer loses
\* it first).  lists are the repeated fields that have an element: every
\* other field is set by every sender.
ASSUME DatagramsAssumption ==
  Datagrams \subseteq [id : Int, team : Colors \union {"none"}, lists : SUBSET VectorFields]

ASSUME BoundAssumption == SetupIds \subseteq Int /\ MaxAccepted \in Nat

VARIABLES
  already_setup, \* the static flag of setup: one setup in a process
  app,           \* where the application thread is
  rows,          \* number of rows pushed onto robot_data_list_
  self_id,       \* self_id_
  our_color,     \* our_color_
  server,        \* server_: null, running, closing, stopped, joined, or
                 \* threadless: an object whose thread could not be started
  client,        \* client_: null, open or closed
  armed,         \* an async_receive_from is outstanding
  log,           \* the datagrams accepted so far, in order (history)
  pos,           \* the field the handler writes next, 0 between datagrams
  half,          \* the handler is inside that field's critical section
  table,         \* robot_data_list_
  mutex,         \* dataMutexes_ of every row: free, server or app
  target,        \* the row and field of the getter that holds a mutex
  result         \* what the last getter returned (history)

vars == <<already_setup, app, rows, self_id, our_color, server, client, armed,
          log, pos, half, table, mutex, target, result>>

-----------------------------------------------------------------------------
(* Setting up *)

Untouched == [head |-> 0, tail |-> 0]

Init ==
  /\ already_setup \in BOOLEAN      \* another instance may have been set up before
  /\ app = "fresh"
  /\ rows = 0
  /\ self_id = 1
  /\ our_color = "magenta"
  /\ server = "null" /\ client = "null"
  /\ armed = FALSE
  /\ log = << >> /\ pos = 0 /\ half = FALSE
  /\ table = [id \in Ids |-> [f \in Fields |-> Untouched]]
  /\ mutex = [id \in Ids |-> [f \in LockedFields |-> "free"]]
  /\ target = <<0, "recv_time">>
  /\ result = [id |-> 0, field |-> "recv_time", head |-> 0, tail |-> 0]

\* The assertion on self_id: it is a disjunction, so that every integer passes.
SetupAssertion(id) == NUM_PLAYERS >= id \/ id >= 1

\* setup, up to the loop that creates the rows.  A second setup of the process
\* returns at once and leaves the object as its constructor made it.
SetupEnter(id, color) ==
  /\ app = "fresh"
  /\ IF already_setup
     THEN /\ app' = "up"
          /\ UNCHANGED <<already_setup, self_id, our_color>>
     ELSE /\ already_setup' = TRUE
          /\ SetupAssertion(id)
          /\ self_id' = id
          /\ our_color' = color
          /\ app' = "rows"
  /\ UNCHANGED <<rows, server, client, armed, log, pos, half, table, mutex, target, result>>

PushRow ==
  /\ app = "rows"
  /\ rows' = rows + 1
  /\ app' = IF rows' = NUM_PLAYERS THEN "client" ELSE "rows"
  /\ UNCHANGED <<already_setup, self_id, our_color, server, client, armed,
                 log, pos, half, table, mutex, target, result>>

\* The constructor of UDPClient.  The system may refuse it its thread: the
\* exception passes through the constructor to setup, which returns.
MakeClient ==
  /\ app = "client"
  /\ \/ client' = "open" /\ app' = "server"
     \/ app' = "up" /\ UNCHANGED client
  /\ UNCHANGED <<already_setup, rows, self_id, our_color, server, armed,
                 log, pos, half, table, mutex, target, result>>

\* The constructor of UDPServer binds the port, starts the thread and arms the
\* first receive.  When the port is taken the bind throws, setup catches the
\* exception and returns, and server_ stays null.  When the thread cannot be
\* started the constructor catches the exception itself and goes on: a server
\* whose receives nobody completes.
MakeServer ==
  /\ app = "server"
  /\ app' = "up"
  /\ \/ server' \in {"running", "threadless"} /\ armed' = TRUE
     \/ UNCHANGED <<server, armed>>
  /\ UNCHANGED <<already_setup, rows, self_id, our_color, client,
                 log, pos, half, table, mutex, target, result>>

-----------------------------------------------------------------------------
(* The server thread: receivedDataHandler *)

Alive == app \notin {"crashed", "destroyed"}

\* The datagram in the handler's hands, and the field it has reached.
Current == log[Len(log)]
\* Mutant of Field: setRecv_time called after the fields instead of before.
Field_TimeLast == FieldOrder[(pos % Len(FieldOrder)) + 1]
Field == FieldOrder[pos]

\* The handler returns after the last field; receiveHandler then arms the
\* next receive unless terminate was called in the meantime.
StepOn ==
  IF pos = Len(FieldOrder)
  THEN pos' = 0 /\ armed' = (server = "running")
  ELSE pos' = pos + 1 /\ UNCHANGED armed

\* The early returns of the handler: no team (at(0) throws and the handler
\* catches), the other team, our own datagram.
Accepts(d) == d.team = our_color /\ d.id # self_id

\* A datagram arrives.  The io_service completes an outstanding receive until
\* it is stopped, whatever terminated_ says.
Receive(d) ==
  /\ Alive
  /\ server \in {"running", "closing"}
  /\ armed /\ pos = 0
  /\ Len(log) < MaxAccepted
  /\ IF ~Accepts(d)
     THEN /\ armed' = (server = "running")
          /\ UNCHANGED <<app, log, pos>>
     ELSE IF d.id \in 1 .. rows
     THEN /\ log' = Append(log, d)
          /\ pos' = 1
          /\ armed' = FALSE
          /\ UNCHANGED app
     ELSE /\ app' = "crashed"                \* operator[] past the end
          /\ UNCHANGED <<log, pos, armed>>
  /\ UNCHANGED <<already_setup, rows, self_id, our_color, server, client,
                 half, table, mutex, target, result>>

\* The receive completes with an error that is not eof: receiveHandler returns
\* and arms no other receive.
ReceiveFails ==
  /\ Alive
  /\ server \in {"running", "closing"}
  /\ armed /\ pos = 0
  /\ armed' = FALSE
  /\ UNCHANGED <<already_setup, app, rows, self_id, our_color, server, client,
                 log, pos, half, table, mutex, target, result>>

\* Mutant of HandlerSkip: the vector is cleared before its size is looked at.
HandlerSkip_Clears ==
  /\ Alive /\ pos # 0 /\ ~half
  /\ Field \in VectorFields
  /\ Field \notin Current.lists
  /\ table' = [table EXCEPT ![Current.id][Field] = Untouched]
  /\ StepOn
  /\ UNCHANGED <<already_setup, app, rows, self_id, our_color, server, client,
                 log, half, mutex, target, result>>

\* An empty repeated field leaves what an earlier datagram put there.
HandlerSkip ==
  /\ Alive /\ pos # 0 /\ ~half
  /\ Field \in VectorFields
  /\ Field \notin Current.lists
  /\ StepOn
  /\ UNCHANGED <<already_setup, app, rows, self_id, our_color, server, client,
                 log, half, table, mutex, target, result>>

HandlerStore ==
  /\ Alive /\ pos # 0 /\ ~half
  /\ Field \in AtomicFields
  /\ table' = [table EXCEPT ![Current.id][Field] = [head |-> Len(log), tail |-> Len(log)]]
  /\ StepOn
  /\ UNCHANGED <<already_setup, app, rows, self_id, our_color, server, client,
                 log, half, mutex, target, result>>

\* Mutant of HandlerLock: the handler writes without taking the mutex.
HandlerLock_Unguarded ==
  /\ Alive /\ pos # 0 /\ ~half
  /\ Field \in LockedFields
  /\ Field \in VectorFields => Field \in Current.lists
  /\ table' = [table EXCEPT ![Current.id][Field] = [head |-> Len(log), tail |-> @.tail]]
  /\ half' = TRUE
  /\ UNCHANGED <<already_setup, app, rows, self_id, our_color, server, client, armed,
                 log, pos, mutex, target, result>>

\* lock_guard, then the first write of the critical section.
HandlerLock ==
  /\ Alive /\ pos # 0 /\ ~half
  /\ Field \in LockedFields
  /\ Field \in VectorFields => Field \in Current.lists
  /\ mutex[Current.id][Field] = "free"
  /\ mutex' = [mutex EXCEPT ![Current.id][Field] = "server"]
  /\ table' = [table EXCEPT ![Current.id][Field] = [head |-> Len(log), tail |-> @.tail]]
  /\ half' = TRUE
  /\ UNCHANGED <<already_setup, app, rows, self_id, our_color, server, client, armed,
                 log, pos, target, result>>

\* The last write of the critical section and the release of the mutex.
HandlerUnlock ==
  /\ Alive /\ half
  /\ table' = [table EXCEPT ![Current.id][Field] = [head |-> @.head, tail |-> Len(log)]]
  /\ mutex' = [mutex EXCEPT ![Current.id][Field] = "free"]
  /\ half' = FALSE
  /\ StepOn
  /\ UNCHANGED <<already_setup, app, rows, self_id, our_color, server, client,
                 log, target, result>>

-----------------------------------------------------------------------------
(* The application thread: the getters and changeColor *)

\* Our own id and ids out of range yield a default value.
Guarded(id) == id = self_id \/ id < 1 \/ NUM_PLAYERS < id

GetDefault(id, f) ==
  /\ app = "up"
  /\ Guarded(id)
  /\ result' = [id |-> id, field |-> f, head |-> 0, tail |-> 0]
  /\ UNCHANGED <<already_setup, app, rows, self_id, our_color, server, client, armed,
                 log, pos, half, table, mutex, target>>

\* After a setup that returned early the table has no rows: operator[] past the end.
GetNoRow(id) ==
  /\ app = "up"
  /\ ~Guarded(id) /\ rows < id
  /\ app' = "crashed"
  /\ UNCHANGED <<already_setup, rows, self_id, our_color, server, client, armed,
                 log, pos, half, table, mutex, target, result>>

GetAtomic(id, f) ==
  /\ app = "up"
  /\ ~Guarded(id) /\ id <= rows
  /\ f \in AtomicFields
  /\ result' = [id |-> id, field |-> f, head |-> table[id][f].head, tail |-> table[id][f].tail]
  /\ UNCHANGED <<already_setup, app, rows, self_id, our_color, server, client, armed,
                 log, pos, half, table, mutex, target>>

\* Mutant of GetLock: the getter reads without taking the mutex.
GetLock_Unguarded(id, f) ==
  /\ app = "up"
  /\ ~Guarded(id) /\ id <= rows
  /\ f \in LockedFields
  /\ target' = <<id, f>>
  /\ app' = "getting"
  /\ UNCHANGED <<already_setup, rows, self_id, our_color, server, client, armed,
                 log, pos, half, table, mutex, result>>

GetLock(id, f) ==
  /\ app = "up"
  /\ ~Guarded(id) /\ id <= rows
  /\ f \in LockedFields
  /\ mutex[id][f] = "free"
  /\ mutex' = [mutex EXCEPT ![id][f] = "app"]
  /\ target' = <<id, f>>
  /\ app' = "getting"
  /\ UNCHANGED <<already_setup, rows, self_id, our_color, server, client, armed,
                 log, pos, half, table, result>>

\* Mutant of GetReturn: lock() without an unlock().
GetReturn_KeepsMutex ==
  /\ app = "getting"
  /\ LET id == target[1]
         f == target[2]
     IN result' = [id |-> id, field |-> f, head |-> table[id][f].head, tail |-> table[id][f].tail]
  /\ app' = "up"
  /\ UNCHANGED <<already_setup, rows, self_id, our_color, server, client, armed,
                 log, pos, half, table, mutex, target>>

\* The value is copied into the return value, then the lock_guard releases.
GetReturn ==
  /\ app = "getting"
  /\ LET id == target[1]
         f == target[2]
     IN /\ result' = [id |-> id, field |-> f, head |-> table[id][f].head, tail |-> table[id][f].tail]
        /\ mutex' = [mutex EXCEPT ![id][f] = "free"]
  /\ app' = "up"
  /\ UNCHANGED <<already_setup, rows, self_id, our_color, server, client, armed,
                 log, pos, half, table, target>>

changeColor(color) ==
  /\ app = "up"
  /\ our_color' = IF color \in Colors THEN color ELSE our_color
  /\ UNCHANGED <<already_setup, app, rows, self_id, server, client, armed,
                 log, pos, half, table, mutex, target, result>>

-----------------------------------------------------------------------------
(* The application thread: terminate and the destructor *)

\* terminate calls server_ without a test: null when setup failed or never ran.
\* UDPServer::terminate first sets terminated_.  No thread waits for it in a
\* threadless server, which stays what it is.
Terminate ==
  /\ app \in {"fresh", "up"}
  /\ IF server = "null"
     THEN app' = "crashed" /\ UNCHANGED server
     ELSE /\ app' = "stopping"
          /\ server' = IF server = "threadless" THEN server ELSE "closing"
  /\ UNCHANGED <<already_setup, rows, self_id, our_color, client, armed,
                 log, pos, half, table, mutex, target, result>>

\* socket_.close() and io_service_.stop(): no receive completes any more.
StopServer ==
  /\ app = "stopping"
  /\ server' = IF server = "threadless" THEN server ELSE "stopped"
  /\ app' = "joining"
  /\ UNCHANGED <<already_setup, rows, self_id, our_color, client, armed,
                 log, pos, half, table, mutex, target, result>>

\* Mutant of JoinServer: the thread is detached instead of joined.
JoinServer_Detaches ==
  /\ app = "joining"
  /\ server = "stopped"
  /\ server' = "joined"
  /\ app' = "closing"
  /\ UNCHANGED <<already_setup, rows, self_id, our_color, client, armed,
                 log, pos, half, table, mutex, target, result>>

\* join: run() returns once the handler it is in has returned.
JoinServer ==
  /\ app = "joining"
  /\ server = "stopped" /\ pos = 0
  /\ server' = "joined"
  /\ app' = "closing"
  /\ UNCHANGED <<already_setup, rows, self_id, our_color, client, armed,
                 log, pos, half, table, mutex, target, result>>

\* server_thread_ is null when the thread could not be started.
JoinServerCrashes ==
  /\ app = "joining"
  /\ server = "threadless"
  /\ app' = "crashed"
  /\ UNCHANGED <<already_setup, rows, self_id, our_color, server, client, armed,
                 log, pos, half, table, mutex, target, result>>

TerminateClient ==
  /\ app = "closing"
  /\ client' = "closed"
  /\ app' = "terminated"
  /\ UNCHANGED <<already_setup, rows, self_id, our_color, server, armed,
                 log, pos, half, table, mutex, target, result>>

\* The destructor calls terminate again; terminated_ makes that a no-op.
Destroy ==
  /\ app = "terminated"
  /\ app' = "destroyed"
  /\ UNCHANGED <<already_setup, rows, self_id, our_color, server, client, armed,
                 log, pos, half, table, mutex, target, result>>

-----------------------------------------------------------------------------
ServerThread ==
  \/ \E d \in Datagrams : Receive(d)
  \/ ReceiveFails
  \/ HandlerSkip
  \/ HandlerStore
  \/ HandlerLock
  \/ HandlerUnlock

Setup ==
  \/ \E id \in SetupIds, color \in Colors : SetupEnter(id, color)
  \/ PushRow
  \/ MakeClient
  \/ MakeServer

Getter ==
  \/ \E id \in 0 .. NUM_PLAYERS + 1, f \in Fields : GetDefault(id, f)
  \/ \E id \in Ids : GetNoRow(id)
  \/ \E id \in Ids, f \in Fields : GetAtomic(id, f)
  \/ \E id \in Ids, f \in Fields : GetLock(id, f)
  \/ GetReturn

Terminating ==
  \/ Terminate
  \/ StopServer
  \/ JoinServer
  \/ JoinServerCrashes
  \/ TerminateClient
  \/ Destroy

Next ==
  \/ ServerThread
  \/ Setup
  \/ Getter
  \/ \E color \in ColorArgs : changeColor(color)
  \/ Terminating

Spec == Init /\ [][Next]_vars

\* The operating system keeps running both threads: a handler that has begun
\* and a call that has begun go on.  Nothing makes the application call
\* anything, and nothing makes a datagram arrive.
Fairness ==
  /\ WF_vars(HandlerSkip \/ HandlerStore \/ HandlerLock \/ HandlerUnlock)
  /\ WF_vars(PushRow \/ MakeClient \/ MakeServer)
  /\ WF_vars(GetReturn)
  /\ WF_vars(StopServer \/ JoinServer \/ JoinServerCrashes \/ TerminateClient)

FairSpec == Spec /\ Fairness

-----------------------------------------------------------------------------
(* Properties *)

FlagsOK == already_setup \in BOOLEAN /\ armed \in BOOLEAN /\ half \in BOOLEAN
ControlOK ==
  /\ app \in {"fresh", "rows", "client", "server", "up", "getting", "stopping",
             "joining", "closing", "terminated", "destroyed", "crashed"}
  /\ rows \in 0 .. NUM_PLAYERS
  /\ self_id \in Int
  /\ our_color \in Colors
  /\ server \in {"null", "running", "threadless", "closing", "stopped", "joined"}
  /\ client \in {"null", "open", "closed"}

LogOK == log \in Seq(Datagrams) /\ pos \in 0 .. Len(FieldOrder)
TableOK == table \in [Ids -> [Fields -> [head : Nat, tail : Nat]]]
MutexOK == mutex \in [Ids -> [LockedFields -> {"free", "server", "app"}]]
ReadOK ==
  /\ target \in (Ids \union {0}) \X Fields
  /\ result \in [id : Int, field : Fields, head : Nat, tail : Nat]

\* The type invariant.
TypeOK == FlagsOK /\ ControlOK /\ LogOK /\ TableOK /\ MutexOK /\ ReadOK

\* A getter returns the value of one datagram, never the first part of one and
\* the last part of another, whatever the handler is doing to the same row.
ReadsAreWhole == result.head = result.tail

\* recv_time is written first: no field of a row holds data that arrived later
\* than the row's receive time says, not even between two writes of the handler.
DataNotNewerThanRecvTime ==
  \A id \in Ids, f \in Fields \ {"recv_time"} :
    table[id][f].head <= table[id]["recv_time"].tail

\* Datagram k says something about field f of robot id.
Carries(k, id, f) == log[k].id = id /\ (f \in VectorFields => f \in log[k].lists)

\* v is the newest datagram among the first n that carries the field, 0 if none.
IsLatest(v, n, id, f) ==
  /\ v # 0 => v \in 1 .. n /\ Carries(v, id, f)
  /\ \A k \in 1 .. n : Carries(k, id, f) => k <= v

\* Between two datagrams every field of every row, whoever sent what in which
\* order, holds what the newest accepted datagram that carries it said; an
\* empty list counts as saying nothing.
IdleTableIsLatest ==
  pos = 0 => \A id \in Ids, f \in Fields :
               /\ table[id][f].head = table[id][f].tail
               /\ IsLatest(table[id][f].tail, Len(log), id, f)

\* The server thread, which runs before setup returns, never finds the table
\* shorter than NUM_PLAYERS.
ServerFindsRows == server # "null" => rows = NUM_PLAYERS

\* Reading a field and then the same field again, or the receive time of the
\* same robot, never goes back in time.
ReadsMoveForward ==
  [][ result'.id = result.id /\ result'.field \in {result.field, "recv_time"}
        => result'.tail >= result.tail ]_result

\* Once terminate has joined the server thread, no datagram changes the table.
QuietAfterJoin == [][server = "joined" => UNCHANGED table]_vars

\* terminate returns, although the handler may be in the middle of a datagram
\* and a getter may have held its mutex; only a datagram whose id has no row,
\* handled while the server thread is being joined, and the join of a thread
\* that could not be started end the process first.
TerminateReturns == app = "stopping" ~> app \in {"terminated", "crashed"}

\* What the documentation of terminate says: it may be called whenever one
\* wants to stop, and the destructor calls it; it then stops the sockets.
TerminateStops == [][Terminate => app' = "stopping"]_vars

\* Every field of every row is an atomic register that only moves forward and
\* never overtakes the receive time: a process implements FieldRegisters, a
\* field counting as written when its critical section ends.
Registers == INSTANCE FieldRegisters WITH
  reg <- [id \in Ids |-> [f \in Fields |-> table[id][f].tail]],
  read <- [id |-> result.id, field |-> result.field,
           num |-> IF result.head = result.tail THEN result.tail ELSE -1]

ImplementsRegisters == Registers!Spec
=============================================================================
