-------------------------- MODULE InfoShare_proofs ---------------------------
(***************************************************************************)
(* Proofs about one process of the information sharing library, for every  *)
(* number of players, every order of the fields that begins with recv_time *)
(* and every set of datagrams.  The invariants come in four layers, each   *)
(* inductive on top of the ones before it.                                 *)
(***************************************************************************)
EXTENDS InfoShare, TLAPS

-----------------------------------------------------------------------------
(* Layer 1: types, and the progress of setup *)

\* Where the application thread is says how many rows there are.
SetupProgress ==
  /\ app = "fresh" => rows = 0 /\ server = "null" /\ result.tail = 0
  /\ app = "rows" => rows < NUM_PLAYERS /\ server = "null"
  /\ app \in {"client", "server"} => rows = NUM_PLAYERS
  /\ server # "null" => rows = NUM_PLAYERS
  /\ app \in {"rows", "client", "server"} => result.tail = 0
  /\ app = "stopping" => server \in {"closing", "threadless"}
  /\ app = "joining" => server \in {"stopped", "threadless"}

\* A handler that has begun has a datagram of a robot that has a row, and is
\* inside a critical section only of a field that has a mutex.
HandlerOK ==
  /\ pos # 0 => Len(log) # 0 /\ Current.id \in Ids
  /\ half => pos # 0 /\ Field \in LockedFields

\* A getter inside a critical section has a row and a field that has a mutex.
GetterOK ==
  app = "getting" =>
    target[1] \in Ids /\ target[2] \in LockedFields /\ ~Guarded(target[1])

TypeInv == TypeOK /\ SetupProgress /\ HandlerOK /\ GetterOK

\* The fields the handler and the getters name are fields of a row.
LEMMA FieldFacts ==
  /\ \A i \in 1 .. Len(FieldOrder) : FieldOrder[i] \in Fields
  /\ "recv_time" \in Fields
  /\ "recv_time" \notin AtomicFields
  /\ "recv_time" \notin VectorFields
  /\ LockedFields \subseteq Fields
  /\ Len(FieldOrder) \in Nat
BY FieldOrderAssumption DEF Fields, LockedFields, AtomicFields, VectorFields

\* An accepted datagram is one of those that may arrive.
LEMMA LogElement ==
  ASSUME TypeOK, NEW k \in 1 .. Len(log)
  PROVE  log[k] \in Datagrams /\ log[k].id \in Int
BY DatagramsAssumption DEF TypeOK, LogOK

\* Writing the head, the tail or both of an entry keeps the table a table.
LEMMA TableWrite ==
  ASSUME TableOK, NEW id \in Ids, NEW f \in Fields, NEW v \in Nat
  PROVE  /\ [table EXCEPT ![id][f] = [head |-> v, tail |-> @.tail]]
              \in [Ids -> [Fields -> [head : Nat, tail : Nat]]]
         /\ [table EXCEPT ![id][f] = [head |-> @.head, tail |-> v]]
              \in [Ids -> [Fields -> [head : Nat, tail : Nat]]]
         /\ [table EXCEPT ![id][f] = [head |-> v, tail |-> v]]
              \in [Ids -> [Fields -> [head : Nat, tail : Nat]]]
BY DEF TableOK

LEMMA TypeInit == Init => TypeInv
<1> SUFFICES ASSUME Init PROVE TypeInv
  OBVIOUS
<1>1. ControlOK
  BY PlayersAssumption DEF Init, ControlOK, Colors
<1>7. FlagsOK
  BY Zenon DEF Init, FlagsOK
<1>2. LogOK
  BY FieldFacts DEF Init, LogOK
<1>3. TableOK
  BY DEF Init, TableOK, Untouched
<1>4. MutexOK
  BY DEF Init, MutexOK
<1>5. ReadOK
  BY FieldFacts DEF Init, ReadOK
<1>6. SetupProgress
  BY PlayersAssumption DEF Init, SetupProgress
<1>8. HandlerOK /\ GetterOK
  BY DEF Init, HandlerOK, GetterOK
<1> QED BY <1>1, <1>2, <1>3, <1>4, <1>5, <1>6, <1>7, <1>8 DEF TypeInv, TypeOK

\* Which actions change the handler's position, the table, the mutexes and
\* what the getters returned.
LEMMA Frame ==
  ASSUME [Next]_vars
  PROVE  /\ \/ UNCHANGED <<log, pos>>
            \/ \E d \in Datagrams : Receive(d)
            \/ HandlerSkip \/ HandlerStore \/ HandlerUnlock
         /\ \/ UNCHANGED <<table, half>>
            \/ HandlerStore \/ HandlerLock \/ HandlerUnlock
         /\ \/ UNCHANGED mutex
            \/ HandlerLock \/ HandlerUnlock \/ GetReturn
            \/ \E id \in Ids, f \in Fields : GetLock(id, f)
         /\ self_id' = self_id \/ app = "fresh"
         /\ server' # "joined" \/ server' = server \/ JoinServer
         /\ \/ app' # "getting"
            \/ UNCHANGED <<app, target, self_id>>
            \/ \E id \in Ids, f \in Fields : GetLock(id, f)
         /\ \/ UNCHANGED <<target, result>>
            \/ \E id \in 0 .. NUM_PLAYERS + 1, f \in Fields : GetDefault(id, f)
            \/ \E id \in Ids, f \in Fields : GetAtomic(id, f) \/ GetLock(id, f)
            \/ GetReturn
<1>1. UNCHANGED vars \/ Next
  OBVIOUS
<1>2. CASE UNCHANGED vars
  BY <1>2 DEF vars
<1>3. CASE ServerThread
  BY <1>3, Zenon DEF ServerThread, Receive, ReceiveFails, HandlerSkip,
            HandlerStore, HandlerLock, HandlerUnlock
<1>4. CASE Setup
  BY <1>4, Zenon DEF Setup, SetupEnter, PushRow, MakeClient, MakeServer
<1>5. CASE Getter
  BY <1>5, Zenon DEF Getter, GetDefault, GetNoRow, GetAtomic, GetLock, GetReturn
<1>6. CASE \E color \in ColorArgs : changeColor(color)
  BY <1>6, Zenon DEF changeColor
<1>7. CASE Terminating
  BY <1>7, Zenon DEF Terminating, Terminate, StopServer, JoinServer, JoinServerCrashes,
            TerminateClient, Destroy
<1> QED BY <1>1, <1>2, <1>3, <1>4, <1>5, <1>6, <1>7 DEF Next

LEMMA TypeStep == TypeInv /\ [Next]_vars => TypeInv'
<1> SUFFICES ASSUME TypeInv, [Next]_vars PROVE TypeInv'
  OBVIOUS
<1> USE DEF TypeInv, TypeOK
<1>1. FlagsOK'
  BY Zenon DEF FlagsOK, Next, vars, Setup, SetupEnter, PushRow, MakeClient, MakeServer,
       ServerThread, Receive, ReceiveFails, HandlerSkip, HandlerStore, HandlerLock, HandlerUnlock, StepOn,
       Getter, GetDefault, GetNoRow, GetAtomic, GetLock, GetReturn, changeColor,
       Terminating, Terminate, StopServer, JoinServer, JoinServerCrashes,
            TerminateClient, Destroy
<1>2. ControlOK' /\ SetupProgress'
  <2> USE DEF ControlOK, SetupProgress
  <2>1. CASE UNCHANGED vars
    BY <2>1 DEF vars
  <2>2. CASE Setup
    <3>1. CASE \E id \in SetupIds, color \in Colors : SetupEnter(id, color)
      BY <3>1, BoundAssumption, PlayersAssumption DEF SetupEnter
    <3>2. CASE PushRow
      BY <3>2, PlayersAssumption DEF PushRow
    <3>3. CASE MakeClient \/ MakeServer
      BY <3>3 DEF MakeClient, MakeServer
    <3> QED BY <2>2, <3>1, <3>2, <3>3 DEF Setup
  <2>3. CASE ServerThread
    BY <2>3 DEF ServerThread, Receive, ReceiveFails, HandlerSkip,
            HandlerStore, HandlerLock, HandlerUnlock
  <2>4. CASE Getter
    BY <2>4 DEF Getter, GetDefault, GetNoRow, GetAtomic, GetLock, GetReturn
  <2>5. CASE \E color \in ColorArgs : changeColor(color)
    BY <2>5 DEF changeColor, ColorArgs, Colors
  <2>6. CASE Terminating
    BY <2>6 DEF Terminating, Terminate, StopServer, JoinServer, JoinServerCrashes,
            TerminateClient, Destroy
  <2> QED BY <2>1, <2>2, <2>3, <2>4, <2>5, <2>6 DEF Next
<1>3. LogOK'
  <2> USE FieldFacts DEF LogOK
  <2>1. CASE UNCHANGED <<log, pos>>
    BY <2>1
  <2>2. ASSUME NEW d \in Datagrams, Receive(d) PROVE LogOK'
    <3>1. Append(log, d) \in Seq(Datagrams)
      OBVIOUS
    <3>2. (log' = log /\ pos' = pos) \/ (log' = Append(log, d) /\ pos' = 1)
      BY <2>2, Zenon DEF Receive
    <3>3. 1 \in 0 .. Len(FieldOrder)
      BY FieldOrderAssumption
    <3> QED BY <3>1, <3>2, <3>3
  <2>3. CASE HandlerSkip \/ HandlerStore \/ HandlerUnlock
    BY <2>3 DEF HandlerSkip, HandlerStore, HandlerUnlock, StepOn
  <2> QED BY <2>1, <2>2, <2>3, Frame
<1>4. TableOK'
  <2>1. CASE UNCHANGED <<table, half>>
    BY <2>1 DEF TableOK
  <2>2. Len(log) \in Nat
    BY DEF LogOK
  <2>3. CASE HandlerStore \/ HandlerLock \/ HandlerUnlock
    <3>1. Current.id \in Ids /\ Field \in Fields
      BY <2>3, FieldFacts DEF HandlerOK, HandlerStore, HandlerLock, HandlerUnlock, Field, LogOK
    <3>2. CASE HandlerStore
      BY <2>2, <3>1, <3>2, TableWrite DEF HandlerStore, TableOK
    <3>3. CASE HandlerLock
      BY <2>2, <3>1, <3>3, TableWrite DEF HandlerLock, TableOK
    <3>4. CASE HandlerUnlock
      BY <2>2, <3>1, <3>4, TableWrite DEF HandlerUnlock, TableOK
    <3> QED BY <2>3, <3>2, <3>3, <3>4
  <2> QED BY <2>1, <2>3, Frame
<1>5. MutexOK'
  <2> USE DEF MutexOK
  <2>1. CASE UNCHANGED mutex
    BY <2>1
  <2>2. CASE HandlerLock
    BY <2>2 DEF HandlerLock
  <2>3. CASE HandlerUnlock
    BY <2>3 DEF HandlerUnlock
  <2>4. CASE GetReturn
    BY <2>4 DEF GetReturn
  <2>5. ASSUME NEW id \in Ids, NEW f \in Fields, GetLock(id, f) PROVE MutexOK'
    BY <2>5 DEF GetLock
  <2> QED BY <2>1, <2>2, <2>3, <2>4, <2>5, Frame
<1>6. ReadOK'
  <2> USE DEF ReadOK, TableOK
  <2>1. CASE UNCHANGED <<target, result>>
    BY <2>1
  <2>2. ASSUME NEW id \in 0 .. NUM_PLAYERS + 1, NEW f \in Fields, GetDefault(id, f) PROVE ReadOK'
    BY <2>2 DEF GetDefault
  <2>3. ASSUME NEW id \in Ids, NEW f \in Fields, GetAtomic(id, f) PROVE ReadOK'
    BY <2>3 DEF GetAtomic, Ids
  <2>4. ASSUME NEW id \in Ids, NEW f \in Fields, GetLock(id, f) PROVE ReadOK'
    BY <2>4 DEF GetLock
  <2>5. CASE GetReturn
    <3>1. /\ target[1] \in Ids /\ target[2] \in Fields
          /\ table[target[1]][target[2]] \in [head : Nat, tail : Nat]
          /\ target[1] \in Int
      BY <2>5, FieldFacts DEF GetReturn, GetterOK, Ids
    <3>2. /\ target' = target
          /\ result' = [id |-> target[1], field |-> target[2],
                        head |-> table[target[1]][target[2]].head,
                        tail |-> table[target[1]][target[2]].tail]
      BY <2>5 DEF GetReturn
    <3> QED BY <3>1, <3>2
  <2> QED BY <2>1, <2>2, <2>3, <2>4, <2>5, Frame
<1>7. HandlerOK'
  <2> USE FieldFacts DEF HandlerOK, LogOK
  <2>1. CASE UNCHANGED <<log, pos>> /\ UNCHANGED <<table, half>>
    BY <2>1 DEF Current, Field
  <2>2. ASSUME NEW d \in Datagrams, Receive(d) PROVE HandlerOK'
    <3>1. ~half' /\ pos = 0
      BY <2>2, Zenon DEF Receive
    <3>2. CASE log' = log /\ pos' = 0
      BY <3>1, <3>2
    <3>3. CASE log' = Append(log, d) /\ d.id \in 1 .. rows
      <4>1. Len(log') = Len(log) + 1 /\ log'[Len(log')] = d
        BY <3>3
      <4>2. d.id \in Ids
        BY <3>3, PlayersAssumption DEF ControlOK, Ids
      <4> QED BY <3>1, <4>1, <4>2 DEF Current
    <3> QED BY <2>2, <3>1, <3>2, <3>3, Zenon DEF Receive
  <2>3. CASE HandlerSkip \/ HandlerStore \/ HandlerUnlock
    <3>1. ~half' /\ log' = log
      <4>1. CASE HandlerSkip
        BY <4>1, Zenon DEF HandlerSkip
      <4>2. CASE HandlerStore
        BY <4>2, Zenon DEF HandlerStore
      <4>3. CASE HandlerUnlock
        BY <4>3, Zenon DEF HandlerUnlock
      <4> QED BY <2>3, <4>1, <4>2, <4>3
    <3>2. pos # 0
      BY <2>3 DEF HandlerSkip, HandlerStore, HandlerUnlock
    <3> QED BY <3>1, <3>2 DEF Current
  <2>4. CASE HandlerLock
    BY <2>4, Zenon DEF HandlerLock, Current, Field
  <2> QED BY <2>1, <2>2, <2>3, <2>4, Frame
<1>8. GetterOK'
  <2> USE DEF GetterOK
  <2>1. ASSUME NEW id \in Ids, NEW f \in Fields, GetLock(id, f) PROVE GetterOK'
    BY <2>1 DEF GetLock, Guarded
  <2>2. CASE app' # "getting"
    BY <2>2
  <2>3. CASE UNCHANGED <<app, target, self_id>>
    BY <2>3 DEF Guarded
  <2> QED BY <2>1, <2>2, <2>3, Frame
<1> QED BY <1>1, <1>2, <1>3, <1>4, <1>5, <1>6, <1>7, <1>8

-----------------------------------------------------------------------------
(* Layer 2: who holds a mutex *)

\* A thread inside a critical section holds the mutex of its field.
OwnersInv ==
  /\ half => mutex[Current.id][Field] = "server"
  /\ app = "getting" => mutex[target[1]][target[2]] = "app"

LEMMA OwnersInit == Init => OwnersInv
BY DEF Init, OwnersInv

\* Outside HandlerLock the handler enters no critical section, and the
\* datagram and the field of the one it is in stay what they are.
LEMMA HalfFrame ==
  ASSUME TypeInv, [Next]_vars
  PROVE  ~half' \/ HandlerLock \/ UNCHANGED <<log, pos, half>>
<1>1. ASSUME NEW d \in Datagrams, Receive(d) PROVE ~half'
  BY <1>1, Zenon DEF Receive, TypeInv, HandlerOK
<1>2. ASSUME HandlerSkip PROVE ~half'
  BY <1>2, Zenon DEF HandlerSkip
<1>3. ASSUME HandlerStore PROVE ~half'
  BY <1>3, Zenon DEF HandlerStore
<1>4. ASSUME HandlerUnlock PROVE ~half'
  BY <1>4, Zenon DEF HandlerUnlock
<1> QED BY <1>1, <1>2, <1>3, <1>4, Frame

LEMMA OwnersStep == TypeInv /\ OwnersInv /\ [Next]_vars => OwnersInv'
<1> SUFFICES ASSUME TypeInv, OwnersInv, [Next]_vars PROVE OwnersInv'
  OBVIOUS
<1> USE DEF OwnersInv
<1>0. MutexOK
  BY DEF TypeInv, TypeOK
<1>1. CASE HandlerLock
  <2>1. /\ mutex' = [mutex EXCEPT ![Current.id][Field] = "server"]
        /\ mutex[Current.id][Field] = "free"
        /\ UNCHANGED <<log, pos, app, target>>
    BY <1>1 DEF HandlerLock
  <2>2. Current.id \in Ids /\ Field \in LockedFields
    BY <1>1, Zenon DEF HandlerLock, TypeInv, HandlerOK
  <2>3. mutex'[Current'.id][Field'] = "server"
    BY <1>0, <2>1, <2>2 DEF MutexOK, Current, Field
  <2>4. app' = "getting" => mutex'[target'[1]][target'[2]] = "app"
    BY <1>0, <2>1, <2>2 DEF MutexOK, TypeInv, GetterOK
  <2> QED BY <2>3, <2>4
<1>2. CASE HandlerUnlock
  <2>1. /\ mutex' = [mutex EXCEPT ![Current.id][Field] = "free"]
        /\ mutex[Current.id][Field] = "server"
        /\ UNCHANGED <<app, target>>
    BY <1>2 DEF HandlerUnlock
  <2>2. ~half' /\ half
    BY <1>2, Zenon DEF HandlerUnlock
  <2>3. Current.id \in Ids /\ Field \in LockedFields
    BY <2>2, Zenon DEF TypeInv, HandlerOK
  <2>4. app' = "getting" => mutex'[target'[1]][target'[2]] = "app"
    BY <1>0, <2>1, <2>3 DEF MutexOK, TypeInv, GetterOK
  <2> QED BY <2>2, <2>4
<1>3. CASE GetReturn
  <2>1. /\ mutex' = [mutex EXCEPT ![target[1]][target[2]] = "free"]
        /\ mutex[target[1]][target[2]] = "app"
        /\ UNCHANGED <<log, pos, half>>
        /\ app' = "up"
        /\ target[1] \in Ids /\ target[2] \in LockedFields
    BY <1>3 DEF GetReturn, TypeInv, GetterOK
  <2>2. half => mutex'[Current.id][Field] = "server"
    BY <1>0, <2>1, Zenon DEF MutexOK, TypeInv, HandlerOK
  <2> QED BY <2>1, <2>2 DEF Current, Field
<1>4. ASSUME NEW id \in Ids, NEW f \in Fields, GetLock(id, f) PROVE OwnersInv'
  <2>1. /\ mutex' = [mutex EXCEPT ![id][f] = "app"]
        /\ mutex[id][f] = "free"
        /\ UNCHANGED <<log, pos, half>>
        /\ app' = "getting"
        /\ f \in LockedFields
        /\ target' = <<id, f>>
    BY <1>4 DEF GetLock
  <2>2. half => mutex'[Current.id][Field] = "server"
    BY <1>0, <2>1 DEF MutexOK, TypeInv, HandlerOK
  <2>3. mutex'[target'[1]][target'[2]] = "app"
    BY <1>0, <2>1 DEF MutexOK
  <2> QED BY <2>1, <2>2, <2>3 DEF Current, Field
<1>5. CASE UNCHANGED mutex
  <2>1. half' => mutex'[Current'.id][Field'] = "server"
    BY <1>1, <1>5, HalfFrame, Zenon DEF Current, Field
  <2>2. app' = "getting" => mutex'[target'[1]][target'[2]] = "app"
    BY <1>4, <1>5, Frame
  <2> QED BY <2>1, <2>2
<1> QED BY <1>1, <1>2, <1>3, <1>4, <1>5, Frame

-----------------------------------------------------------------------------
(* Layer 3: what the table holds *)

\* Fields before the handler's position have seen the current datagram.
Upto(i) == IF pos = 0 \/ i < pos THEN Len(log) ELSE Len(log) - 1

\* Only the entry inside the handler's critical section may be half written.
Settled ==
  \A id \in Ids, f \in Fields :
    IF half /\ id = Current.id /\ f = Field
    THEN table[id][f].head = Len(log)
    ELSE table[id][f].head = table[id][f].tail

RowsLatest ==
  \A id \in Ids, i \in 1 .. Len(FieldOrder) :
    IsLatest(table[id][FieldOrder[i]].tail, Upto(i), id, FieldOrder[i])

\* The handler is inside a critical section only of a field the datagram carries.
HalfCarries == half => Carries(Len(log), Current.id, Field)

DataInv == Settled /\ RowsLatest /\ HalfCarries

LEMMA DataInit == Init => DataInv
<1> SUFFICES ASSUME Init PROVE DataInv
  OBVIOUS
<1>1. Settled
  BY DEF Init, Settled, Untouched
<1>2. RowsLatest
  BY FieldFacts DEF Init, RowsLatest, IsLatest, Upto, Untouched
<1>3. HalfCarries
  BY DEF Init, HalfCarries
<1> QED BY <1>1, <1>2, <1>3 DEF DataInv

\* A datagram that does not carry the field leaves the newest one that does;
\* one that does becomes the newest.
LEMMA LatestExtend ==
  ASSUME TypeInv, NEW v, NEW id, NEW f, Len(log) # 0,
         IsLatest(v, Len(log) - 1, id, f), ~Carries(Len(log), id, f)
  PROVE  IsLatest(v, Len(log), id, f)
BY DEF IsLatest, TypeInv, TypeOK, LogOK

LEMMA LatestTop ==
  ASSUME TypeInv, NEW id, NEW f, Len(log) # 0, Carries(Len(log), id, f)
  PROVE  IsLatest(Len(log), Len(log), id, f)
BY DEF IsLatest, TypeInv, TypeOK, LogOK

\* Moving on from field pos, once its entries have seen the datagram.
LEMMA MovingOn ==
  ASSUME TypeInv, RowsLatest, pos # 0, StepOn, log' = log,
         \A id \in Ids, f \in Fields : f # Field => table'[id][f].tail = table[id][f].tail,
         \A id \in Ids : IsLatest(table'[id][Field].tail, Len(log), id, Field)
  PROVE  RowsLatest'
<1> SUFFICES ASSUME NEW id \in Ids, NEW i \in 1 .. Len(FieldOrder)
             PROVE  IsLatest(table[id][FieldOrder[i]].tail, Upto(i), id, FieldOrder[i])'
  BY DEF RowsLatest
<1>1. pos \in 1 .. Len(FieldOrder) /\ Len(log) \in Nat
  BY FieldFacts DEF TypeInv, TypeOK, LogOK
<1>2. CASE i = pos
  <2>1. Upto(i)' = Len(log)
    BY <1>1, <1>2 DEF StepOn, Upto
  <2> QED BY <1>2, <2>1 DEF Field, IsLatest, Carries
<1>3. CASE i # pos
  <2>1. Upto(i)' = Upto(i)
    BY <1>1, <1>3 DEF StepOn, Upto
  <2>2. FieldOrder[i] # Field /\ FieldOrder[i] \in Fields
    BY <1>1, <1>3, FieldOrderAssumption, FieldFacts DEF Field
  <2>3. IsLatest(table[id][FieldOrder[i]].tail, Upto(i), id, FieldOrder[i])
    BY DEF RowsLatest
  <2> QED BY <2>1, <2>2, <2>3 DEF IsLatest, Carries
<1> QED BY <1>2, <1>3

\* Before the handler writes field pos of the datagram it has in its hands,
\* every row is up to date in that field up to the datagram before.
LEMMA BeforeWrite ==
  ASSUME TypeInv, RowsLatest, pos # 0
  PROVE  /\ Current.id \in Ids /\ Field \in Fields /\ Len(log) \in Nat \ {0}
         /\ \A id \in Ids : IsLatest(table[id][Field].tail, Len(log) - 1, id, Field)
<1>1. pos \in 1 .. Len(FieldOrder) /\ Len(log) \in Nat \ {0} /\ Current.id \in Ids
  BY FieldFacts DEF TypeInv, TypeOK, LogOK, HandlerOK
<1>2. Upto(pos) = Len(log) - 1
  BY <1>1 DEF Upto
<1> QED BY <1>1, <1>2, FieldFacts DEF RowsLatest, Field

LEMMA DataStep == TypeInv /\ DataInv /\ [Next]_vars => DataInv'
<1> SUFFICES ASSUME TypeInv, DataInv, [Next]_vars PROVE DataInv'
  OBVIOUS
<1> USE DEF DataInv
<1>0. TableOK /\ Len(log) \in Nat
  BY DEF TypeInv, TypeOK, LogOK
<1>1. ASSUME NEW d \in Datagrams, Receive(d) PROVE DataInv'
  <2>1. table' = table /\ ~half' /\ pos = 0 /\ ~half
    BY <1>1, Zenon DEF Receive, TypeInv, HandlerOK
  <2>2. Settled'
    BY <2>1 DEF Settled
  <2>3. RowsLatest'
    <3>1. CASE log' = log /\ pos' = pos
      BY <2>1, <3>1 DEF RowsLatest, Upto, IsLatest, Carries
    <3>2. CASE log' = Append(log, d) /\ pos' = 1
      <4>1. /\ Len(log') = Len(log) + 1
            /\ \A k \in 1 .. Len(log) : log'[k] = log[k]
        BY <1>0, <3>2
      <4>2. \A i \in 1 .. Len(FieldOrder) : Upto(i) = Len(log) /\ Upto(i)' = Len(log)
        BY <1>0, <2>1, <3>2, <4>1, FieldFacts DEF Upto
      <4> QED BY <2>1, <4>1, <4>2 DEF RowsLatest, IsLatest, Carries
    <3> QED BY <1>1, <3>1, <3>2, Zenon DEF Receive
  <2>4. HalfCarries'
    BY <2>1 DEF HalfCarries
  <2> QED BY <2>2, <2>3, <2>4
<1>2. CASE HandlerSkip
  <2>1. /\ table' = table /\ log' = log /\ pos # 0 /\ StepOn
        /\ Field \in VectorFields /\ Field \notin Current.lists
    BY <1>2 DEF HandlerSkip
  <2>2. ~half /\ ~half'
    BY <1>2, Zenon DEF HandlerSkip
  <2>3. Settled'
    BY <2>1, <2>2 DEF Settled
  <2>4. \A id \in Ids : IsLatest(table[id][Field].tail, Len(log), id, Field)
    BY <2>1, BeforeWrite, LatestExtend DEF Carries, Current
  <2>5. RowsLatest'
    BY <2>1, <2>4, MovingOn
  <2>6. HalfCarries'
    BY <2>2 DEF HalfCarries
  <2> QED BY <2>3, <2>5, <2>6
<1>3. CASE HandlerStore
  <2>1. /\ table' = [table EXCEPT ![Current.id][Field] = [head |-> Len(log), tail |-> Len(log)]]
        /\ log' = log /\ pos # 0 /\ StepOn /\ Field \in AtomicFields
    BY <1>3 DEF HandlerStore
  <2>2. ~half /\ ~half'
    BY <1>3, Zenon DEF HandlerStore
  <2>3. Current.id \in Ids /\ Field \in Fields /\ Len(log) \in Nat \ {0}
    BY <2>1, BeforeWrite
  <2>4. /\ \A id \in Ids, f \in Fields :
              ~(id = Current.id /\ f = Field) => table'[id][f] = table[id][f]
        /\ table'[Current.id][Field] = [head |-> Len(log), tail |-> Len(log)]
    BY <1>0, <2>1, <2>3 DEF TableOK
  <2>5. Settled'
    BY <2>2, <2>4 DEF Settled
  <2>6. Carries(Len(log), Current.id, Field)
    BY <2>1 DEF Carries, Current, AtomicFields, VectorFields
  <2>7. \A id \in Ids : IsLatest(table'[id][Field].tail, Len(log), id, Field)
    <3> TAKE id \in Ids
    <3>1. CASE id = Current.id
      BY <2>3, <2>4, <2>6, <3>1, LatestTop
    <3>2. CASE id # Current.id
      BY <2>1, <2>3, <2>4, <3>2, BeforeWrite, LatestExtend DEF Carries, Current
    <3> QED BY <3>1, <3>2
  <2>8. RowsLatest'
    BY <2>1, <2>4, <2>7, MovingOn
  <2>9. HalfCarries'
    BY <2>2 DEF HalfCarries
  <2> QED BY <2>5, <2>8, <2>9
<1>4. CASE HandlerLock
  <2>1. /\ table' = [table EXCEPT ![Current.id][Field] = [head |-> Len(log), tail |-> @.tail]]
        /\ log' = log /\ pos' = pos /\ pos # 0
        /\ Field \in VectorFields => Field \in Current.lists
    BY <1>4 DEF HandlerLock
  <2>2. ~half /\ half'
    BY <1>4, Zenon DEF HandlerLock
  <2>3. Current.id \in Ids /\ Field \in Fields
    BY <2>1, BeforeWrite
  <2>4. /\ \A id \in Ids, f \in Fields :
              ~(id = Current.id /\ f = Field) => table'[id][f] = table[id][f]
        /\ table'[Current.id][Field] = [head |-> Len(log), tail |-> table[Current.id][Field].tail]
    BY <1>0, <2>1, <2>3 DEF TableOK
  <2>5. Settled'
    BY <2>1, <2>2, <2>4 DEF Settled, Current, Field
  <2>6. \A id \in Ids, f \in Fields : table'[id][f].tail = table[id][f].tail
    BY <2>4
  <2>7. RowsLatest'
    <3>1. \A k, id, f : Carries(k, id, f)' <=> Carries(k, id, f)
      BY <2>1 DEF Carries
    <3>2. \A v, n, id, f : IsLatest(v, n, id, f) => IsLatest(v, n, id, f)'
      BY <3>1 DEF IsLatest
    <3>3. \A i : Upto(i)' = Upto(i)
      BY <2>1 DEF Upto
    <3>4. \A i \in 1 .. Len(FieldOrder) : FieldOrder[i] \in Fields
      BY FieldFacts
    <3>5. ASSUME NEW id \in Ids, NEW i \in 1 .. Len(FieldOrder)
          PROVE  IsLatest(table[id][FieldOrder[i]].tail, Upto(i), id, FieldOrder[i])'
      <4>1. IsLatest(table[id][FieldOrder[i]].tail, Upto(i), id, FieldOrder[i])
        BY <3>5 DEF RowsLatest
      <4>2. table'[id][FieldOrder[i]].tail = table[id][FieldOrder[i]].tail
        BY <2>6, <3>4, <3>5
      <4> QED BY <3>2, <3>3, <4>1, <4>2
    <3> QED BY <3>5 DEF RowsLatest
  <2>8. HalfCarries'
    BY <2>1 DEF HalfCarries, Carries, Current, Field
  <2> QED BY <2>5, <2>7, <2>8
<1>5. CASE HandlerUnlock
  <2>1. /\ table' = [table EXCEPT ![Current.id][Field] = [head |-> @.head, tail |-> Len(log)]]
        /\ log' = log /\ StepOn
    BY <1>5 DEF HandlerUnlock
  <2>2. half /\ ~half'
    BY <1>5, Zenon DEF HandlerUnlock
  <2>3. pos # 0 /\ Carries(Len(log), Current.id, Field)
    BY <2>2 DEF TypeInv, HandlerOK, HalfCarries
  <2>4. Current.id \in Ids /\ Field \in Fields /\ Len(log) \in Nat \ {0}
    BY <2>3, BeforeWrite
  <2>5. table[Current.id][Field].head = Len(log)
    BY <2>2, <2>4 DEF Settled
  <2>6. /\ \A id \in Ids, f \in Fields :
              ~(id = Current.id /\ f = Field) => table'[id][f] = table[id][f]
        /\ table'[Current.id][Field] = [head |-> Len(log), tail |-> Len(log)]
    BY <1>0, <2>1, <2>4, <2>5 DEF TableOK
  <2>7. Settled'
    BY <2>2, <2>6 DEF Settled
  <2>8. \A id \in Ids : IsLatest(table'[id][Field].tail, Len(log), id, Field)
    <3> TAKE id \in Ids
    <3>1. CASE id = Current.id
      BY <2>3, <2>4, <2>6, <3>1, LatestTop
    <3>2. CASE id # Current.id
      BY <2>3, <2>4, <2>6, <3>2, BeforeWrite, LatestExtend DEF Carries, Current
    <3> QED BY <3>1, <3>2
  <2>9. RowsLatest'
    BY <2>1, <2>3, <2>6, <2>8, MovingOn
  <2>10. HalfCarries'
    BY <2>2 DEF HalfCarries
  <2> QED BY <2>7, <2>9, <2>10
<1>6. CASE UNCHANGED <<log, pos>> /\ UNCHANGED <<table, half>>
  BY <1>6 DEF Settled, RowsLatest, HalfCarries, Upto, IsLatest, Carries, Current, Field
<1> QED BY <1>1, <1>2, <1>3, <1>4, <1>5, <1>6, Frame

\* No field is newer than the receive time of its row, be it settled (tail) or
\* half written (head).
LEMMA TimeCovers ==
  ASSUME TypeInv, DataInv, NEW id \in Ids, NEW f \in Fields \ {"recv_time"}
  PROVE  /\ table[id][f].head <= table[id]["recv_time"].tail
         /\ table[id][f].tail <= table[id]["recv_time"].tail
<1> DEFINE time == table[id]["recv_time"].tail
           data == table[id][f].tail
<1>1. PICK i \in 1 .. Len(FieldOrder) : f = FieldOrder[i]
  BY DEF Fields
<1>2. i > 1 /\ 1 \in 1 .. Len(FieldOrder)
  BY <1>1, FieldFacts, FieldOrderAssumption
<1>3. /\ Len(log) \in Nat /\ pos \in 0 .. Len(FieldOrder)
      /\ time \in Nat /\ data \in Nat
  BY FieldFacts DEF TypeInv, TypeOK, LogOK, TableOK
<1>4. IsLatest(time, Upto(1), id, "recv_time") /\ IsLatest(data, Upto(i), id, f)
  BY <1>1, <1>2, FieldOrderAssumption DEF DataInv, RowsLatest
<1>5. Upto(i) \in Int /\ Upto(1) \in Int /\ Upto(i) <= Upto(1)
  BY <1>2, <1>3 DEF Upto
<1>6. data <= time
  <2>1. CASE data = 0
    BY <1>3, <2>1
  <2>2. CASE data # 0
    <3>1. data \in 1 .. Upto(i) /\ Carries(data, id, "recv_time")
      BY <1>4, <2>2, FieldFacts DEF IsLatest, Carries
    <3>2. data \in 1 .. Upto(1)
      BY <1>3, <1>5, <3>1
    <3> QED BY <1>4, <3>1, <3>2 DEF IsLatest
  <2> QED BY <2>1, <2>2
<1>7. CASE half /\ id = Current.id /\ f = Field
  <2>1. pos # 0 /\ Len(log) # 0
    BY <1>7, Zenon DEF TypeInv, HandlerOK
  <2>2. table[id][f].head = Len(log)
    BY <1>7, Zenon DEF DataInv, Settled
  <2>3. pos = i
    <3>1. pos \in 1 .. Len(FieldOrder)
      BY <1>3, <2>1, FieldFacts
    <3>2. FieldOrder[pos] = FieldOrder[i]
      BY <1>1, <1>7, Zenon DEF Field
    <3> QED BY <3>1, <3>2, FieldOrderAssumption
  <2>4. Upto(1) = Len(log)
    BY <1>2, <1>3, <2>3 DEF Upto
  <2>5. Carries(Len(log), id, "recv_time")
    BY <1>7, FieldFacts DEF Carries, Current
  <2> QED BY <1>3, <1>4, <1>6, <2>1, <2>2, <2>4, <2>5 DEF IsLatest
<1>8. CASE ~(half /\ id = Current.id /\ f = Field)
  <2>1. table[id][f].head = data
    BY <1>8, Zenon DEF DataInv, Settled
  <2> QED BY <1>6, <2>1
<1> QED BY <1>7, <1>8

LEMMA IdleLatest == TypeInv /\ DataInv => IdleTableIsLatest
<1> SUFFICES ASSUME TypeInv, DataInv, pos = 0, NEW id \in Ids, NEW f \in Fields
             PROVE  /\ table[id][f].head = table[id][f].tail
                    /\ IsLatest(table[id][f].tail, Len(log), id, f)
  BY DEF IdleTableIsLatest
<1>1. table[id][f].head = table[id][f].tail
  BY DEF TypeInv, HandlerOK, DataInv, Settled
<1>2. PICK i \in 1 .. Len(FieldOrder) : f = FieldOrder[i]
  BY DEF Fields
<1>3. IsLatest(table[id][f].tail, Len(log), id, f)
  BY <1>2 DEF DataInv, RowsLatest, Upto
<1> QED BY <1>1, <1>3

\* No step takes a field back.
LEMMA TailsForward ==
  ASSUME TypeInv, DataInv, [Next]_vars, NEW id \in Ids, NEW f \in Fields
  PROVE  table[id][f].tail <= table'[id][f].tail
<1>0. TableOK /\ table[id][f].tail \in Nat /\ Len(log) \in Nat
  BY DEF TypeInv, TypeOK, TableOK, LogOK
<1>1. table[id][f].tail <= Len(log)
  <2>1. PICK i \in 1 .. Len(FieldOrder) : f = FieldOrder[i]
    BY DEF Fields
  <2>2. IsLatest(table[id][f].tail, Upto(i), id, f)
    BY <2>1 DEF DataInv, RowsLatest
  <2> QED BY <1>0, <2>2 DEF IsLatest, Upto
<1>2. CASE UNCHANGED <<table, half>>
  BY <1>0, <1>2
<1>3. CASE HandlerStore \/ HandlerLock \/ HandlerUnlock
  <2>1. Current.id \in Ids /\ Field \in Fields
    BY <1>3, BeforeWrite DEF HandlerStore, HandlerLock, HandlerUnlock, DataInv, TypeInv, HandlerOK
  <2>2. CASE HandlerStore
    BY <1>0, <1>1, <2>1, <2>2 DEF HandlerStore, TableOK
  <2>3. CASE HandlerLock
    BY <1>0, <1>1, <2>1, <2>3 DEF HandlerLock, TableOK
  <2>4. CASE HandlerUnlock
    BY <1>0, <1>1, <2>1, <2>4 DEF HandlerUnlock, TableOK
  <2> QED BY <1>3, <2>2, <2>3, <2>4
<1> QED BY <1>2, <1>3, Frame

-----------------------------------------------------------------------------
(* Layer 4: what the getters returned *)

\* A result is whole, is a default when it should be, and is never newer than
\* the table it was read from.
ResultInv ==
  /\ result.head = result.tail
  /\ Guarded(result.id) => result.tail = 0
  /\ result.id \in Ids => result.tail <= table[result.id][result.field].tail

LEMMA ResultInit == Init => ResultInv
BY DEF Init, ResultInv, Ids, Guarded

\* What a getter finds while it holds the mutex of the field, or in an atomic
\* field, is one whole value.
LEMMA WholeEntry ==
  ASSUME TypeInv, OwnersInv, DataInv, NEW id \in Ids, NEW f \in Fields,
         \/ f \in AtomicFields
         \/ f \in LockedFields /\ mutex[id][f] = "app"
  PROVE  table[id][f].head = table[id][f].tail
<1>1. ~(half /\ id = Current.id /\ f = Field)
  <2> SUFFICES ASSUME half, id = Current.id, f = Field PROVE FALSE
    OBVIOUS
  <2>1. f \in LockedFields /\ mutex[id][f] = "server"
    BY Zenon DEF TypeInv, HandlerOK, OwnersInv
  <2> QED BY <2>1 DEF LockedFields
<1> QED BY <1>1, Zenon DEF DataInv, Settled

\* Every step that produces a result reads one whole entry of the table, or
\* answers a guarded id with a default.
LEMMA ResultCases ==
  ASSUME TypeInv, OwnersInv, DataInv, [Next]_vars
  PROVE  \/ result' = result
         \/ /\ table' = table /\ log' = log /\ self_id' = self_id
            /\ \/ \E id \in 0 .. NUM_PLAYERS + 1, f \in Fields :
                    /\ Guarded(id)
                    /\ result' = [id |-> id, field |-> f, head |-> 0, tail |-> 0]
               \/ \E id \in Ids, f \in Fields :
                    /\ ~Guarded(id)
                    /\ table[id][f].head = table[id][f].tail
                    /\ result' = [id |-> id, field |-> f,
                                  head |-> table[id][f].tail, tail |-> table[id][f].tail]
<1>1. ASSUME NEW id \in 0 .. NUM_PLAYERS + 1, NEW f \in Fields, GetDefault(id, f)
      PROVE  /\ Guarded(id)
             /\ result' = [id |-> id, field |-> f, head |-> 0, tail |-> 0]
             /\ table' = table /\ log' = log /\ self_id' = self_id
  BY <1>1 DEF GetDefault
<1>2. ASSUME NEW id \in Ids, NEW f \in Fields, GetAtomic(id, f)
      PROVE  /\ ~Guarded(id)
             /\ table[id][f].head = table[id][f].tail
             /\ result' = [id |-> id, field |-> f,
                           head |-> table[id][f].tail, tail |-> table[id][f].tail]
             /\ table' = table /\ log' = log /\ self_id' = self_id
  BY <1>2, WholeEntry DEF GetAtomic
<1>3. ASSUME NEW id \in Ids, NEW f \in Fields, GetLock(id, f) PROVE result' = result
  BY <1>3 DEF GetLock
<1>4. ASSUME GetReturn
      PROVE  \E id \in Ids, f \in Fields :
               /\ ~Guarded(id)
               /\ table[id][f].head = table[id][f].tail
               /\ result' = [id |-> id, field |-> f,
                             head |-> table[id][f].tail, tail |-> table[id][f].tail]
               /\ table' = table /\ log' = log /\ self_id' = self_id
  <2>1. /\ target[1] \in Ids /\ target[2] \in LockedFields
        /\ mutex[target[1]][target[2]] = "app"
        /\ ~Guarded(target[1])
    BY <1>4 DEF GetReturn, TypeInv, GetterOK, OwnersInv
  <2>2. table[target[1]][target[2]].head = table[target[1]][target[2]].tail
    BY <2>1, WholeEntry, FieldFacts
  <2> QED BY <1>4, <2>1, <2>2, FieldFacts DEF GetReturn
<1> QED BY <1>1, <1>2, <1>3, <1>4, Frame

LEMMA ResultStep ==
  TypeInv /\ OwnersInv /\ DataInv /\ ResultInv /\ [Next]_vars => ResultInv'
<1> SUFFICES ASSUME TypeInv, OwnersInv, DataInv, ResultInv, [Next]_vars PROVE ResultInv'
  OBVIOUS
<1>0. TableOK /\ result.field \in Fields /\ result.tail \in Nat
  BY DEF TypeInv, TypeOK, ReadOK
<1>1. CASE result' = result
  <2>1. Guarded(result.id)' => result.tail = 0
    BY <1>1, Frame DEF Guarded, ResultInv, TypeInv, SetupProgress
  <2>2. result.id \in Ids => result.tail <= table'[result.id][result.field].tail
    <3> SUFFICES ASSUME result.id \in Ids
                 PROVE  result.tail <= table'[result.id][result.field].tail
      OBVIOUS
    <3>1. table[result.id][result.field].tail <= table'[result.id][result.field].tail
      BY <1>0, TailsForward
    <3>2. TableOK'
      BY TypeStep DEF TypeInv, TypeOK
    <3> QED BY <1>0, <3>1, <3>2 DEF ResultInv, TableOK
  <2> QED BY <1>1, <2>1, <2>2 DEF ResultInv
<1>2. ASSUME NEW id \in 0 .. NUM_PLAYERS + 1, NEW f \in Fields, Guarded(id),
             table' = table, self_id' = self_id,
             result' = [id |-> id, field |-> f, head |-> 0, tail |-> 0]
      PROVE  ResultInv'
  BY <1>0, <1>2 DEF ResultInv, TableOK
<1>3. ASSUME NEW id \in Ids, NEW f \in Fields, ~Guarded(id),
             table' = table, self_id' = self_id,
             result' = [id |-> id, field |-> f,
                        head |-> table[id][f].tail, tail |-> table[id][f].tail]
      PROVE  ResultInv'
  BY <1>0, <1>3 DEF ResultInv, TableOK, Guarded
<1> QED BY <1>1, <1>2, <1>3, ResultCases

\* Once the server thread is joined the handler is between two datagrams.
JoinedInv == server = "joined" => pos = 0

LEMMA JoinedStep == TypeInv /\ JoinedInv /\ [Next]_vars => JoinedInv'
<1> SUFFICES ASSUME TypeInv, JoinedInv, [Next]_vars, server' = "joined" PROVE pos' = 0
  BY DEF JoinedInv
<1>1. CASE JoinServer
  BY <1>1 DEF JoinServer
<1>2. CASE server' = server
  <2>1. pos = 0
    BY <1>2 DEF JoinedInv
  <2>2. ~(\E d \in Datagrams : Receive(d))
    BY <1>2 DEF Receive
  <2>3. ~HandlerSkip /\ ~HandlerStore
    BY <2>1 DEF HandlerSkip, HandlerStore
  <2>4. ~HandlerUnlock
    BY <2>1, Zenon DEF HandlerUnlock, TypeInv, HandlerOK
  <2> QED BY <2>1, <2>2, <2>3, <2>4, Frame
<1> QED BY <1>1, <1>2, Frame

-----------------------------------------------------------------------------
(* The theorems *)

\* The inductive invariant of a process.
IInv == TypeInv /\ OwnersInv /\ DataInv /\ ResultInv /\ JoinedInv

LEMMA Invariance == Spec => []IInv
<1>1. Init => IInv
  BY TypeInit, OwnersInit, DataInit, ResultInit DEF Init, IInv, JoinedInv
<1>2. IInv /\ [Next]_vars => IInv'
  BY TypeStep, OwnersStep, DataStep, ResultStep, JoinedStep DEF IInv
<1> QED BY <1>1, <1>2, PTL DEF Spec

\* The variables keep their types.
THEOREM TypeCorrect == Spec => []TypeOK
<1>1. IInv => TypeOK
  BY DEF IInv, TypeInv
<1> QED BY <1>1, Invariance, PTL

\* A getter never returns a half written value, wherever the handler is.
THEOREM WholeReads == Spec => []ReadsAreWhole
<1>1. IInv => ReadsAreWhole
  BY DEF IInv, ResultInv, ReadsAreWhole
<1> QED BY <1>1, Invariance, PTL

\* The receive time of a row covers all the data in the row.
THEOREM TimeCoversData == Spec => []DataNotNewerThanRecvTime
<1>1. IInv => DataNotNewerThanRecvTime
  BY TimeCovers DEF IInv, DataNotNewerThanRecvTime
<1> QED BY <1>1, Invariance, PTL

\* Between two datagrams the table is the newest accepted data of every robot.
THEOREM LatestWins == Spec => []IdleTableIsLatest
<1>1. IInv => IdleTableIsLatest
  BY IdleLatest DEF IInv
<1> QED BY <1>1, Invariance, PTL

\* setup creates the rows before the server thread can index them.
THEOREM RowsExist == Spec => []ServerFindsRows
<1>1. IInv => ServerFindsRows
  BY DEF IInv, TypeInv, SetupProgress, ServerFindsRows
<1> QED BY <1>1, Invariance, PTL

\* terminate is final for the table.
THEOREM Quiet == Spec => QuietAfterJoin
<1>1. IInv /\ [Next]_vars => [server = "joined" => UNCHANGED table]_vars
  <2> SUFFICES ASSUME IInv, [Next]_vars, server = "joined" PROVE UNCHANGED table
    OBVIOUS
  <2>1. pos = 0
    BY DEF IInv, JoinedInv
  <2>2. ~HandlerStore /\ ~HandlerLock
    BY <2>1 DEF HandlerStore, HandlerLock
  <2>3. ~HandlerUnlock
    BY <2>1, Zenon DEF HandlerUnlock, IInv, TypeInv, HandlerOK
  <2> QED BY <2>2, <2>3, Frame
<1> QED BY <1>1, Invariance, PTL DEF Spec, QuietAfterJoin

\* Two reads of the same field, or of a field and then of its robot's receive
\* time, are in order.
THEOREM ReadsInOrder == Spec => ReadsMoveForward
<1> DEFINE Forward ==
      result'.id = result.id /\ result'.field \in {result.field, "recv_time"}
        => result'.tail >= result.tail
<1>1. IInv /\ [Next]_vars => [Forward]_result
  <2> SUFFICES ASSUME IInv, [Next]_vars, result' # result,
                      result'.id = result.id, result'.field \in {result.field, "recv_time"}
               PROVE  result'.tail >= result.tail
    OBVIOUS
  <2> USE DEF IInv
  <2>0. TableOK /\ result.field \in Fields /\ result.tail \in Nat
    BY DEF TypeInv, TypeOK, ReadOK
  <2>1. ASSUME NEW id \in 0 .. NUM_PLAYERS + 1, NEW f \in Fields, Guarded(id),
               result' = [id |-> id, field |-> f, head |-> 0, tail |-> 0]
        PROVE  result'.tail >= result.tail
    BY <2>0, <2>1 DEF ResultInv
  <2>2. ASSUME NEW id \in Ids, NEW f \in Fields,
               result' = [id |-> id, field |-> f,
                          head |-> table[id][f].tail, tail |-> table[id][f].tail]
        PROVE  result'.tail >= result.tail
    <3>1. result.tail <= table[id][result.field].tail
      BY <2>2 DEF ResultInv
    <3>2. /\ table[id][f].tail \in Nat
          /\ table[id][result.field].tail \in Nat
      BY <2>0 DEF TableOK
    <3>3. CASE f = result.field
      BY <2>0, <2>2, <3>1, <3>2, <3>3
    <3>4. CASE f = "recv_time" /\ f # result.field
      <4>1. table[id][result.field].tail <= table[id]["recv_time"].tail
        BY <2>0, <3>4, TimeCovers
      <4> QED BY <2>0, <2>2, <3>1, <3>2, <3>4, <4>1
    <3> QED BY <2>2, <3>3, <3>4
  <2> QED BY <2>1, <2>2, ResultCases
<1> QED BY <1>1, Invariance, PTL DEF Spec, ReadsMoveForward

-----------------------------------------------------------------------------
(* The refinement *)

LEMMA RefinesInit == Init => Registers!Init
BY DEF Init, Registers!Init, Registers!Ids, Ids, Untouched

\* The end of the handler's work on a field publishes it.
LEMMA RefinesWrite ==
  ASSUME IInv, pos # 0, table' \in [Ids -> [Fields -> [head : Nat, tail : Nat]]],
         log' = log, result' = result,
         Carries(Len(log), Current.id, Field),
         table'[Current.id][Field].tail = Len(log),
         \A id \in Ids, f \in Fields :
           ~(id = Current.id /\ f = Field) => table'[id][f] = table[id][f]
  PROVE  Registers!Publish(Current.id, Field)
<1> DEFINE reg == [id \in Ids |-> [f \in Fields |-> table[id][f].tail]]
<1>1. /\ Current.id \in Ids /\ Field \in Fields /\ Len(log) \in Nat \ {0}
      /\ IsLatest(table[Current.id][Field].tail, Len(log) - 1, Current.id, Field)
      /\ TableOK
  BY BeforeWrite DEF IInv, DataInv, TypeInv, TypeOK
<1>2. log # << >>
  BY <1>1
<1>3. reg[Current.id][Field] < Len(log)
  BY <1>1 DEF IsLatest, TableOK
<1>4. log[Len(log)].id = Current.id /\ (Field \in VectorFields => Field \in log[Len(log)].lists)
  BY DEF Carries
<1>5. Field # "recv_time" => reg[Current.id]["recv_time"] = Len(log)
  <2> SUFFICES ASSUME Field # "recv_time" PROVE table[Current.id]["recv_time"].tail = Len(log)
    BY <1>1, FieldFacts
  <2>1. pos \in 1 .. Len(FieldOrder) /\ pos # 1 /\ 1 \in 1 .. Len(FieldOrder)
    BY FieldFacts, FieldOrderAssumption DEF IInv, TypeInv, TypeOK, LogOK, Field
  <2>2. Upto(1) = Len(log)
    BY <2>1 DEF Upto
  <2>3. IsLatest(table[Current.id]["recv_time"].tail, Len(log), Current.id, "recv_time")
    BY <1>1, <2>1, <2>2, FieldOrderAssumption DEF IInv, DataInv, RowsLatest
  <2>4. Carries(Len(log), Current.id, "recv_time")
    BY FieldFacts DEF Carries, Current
  <2>5. table[Current.id]["recv_time"].tail \in Nat
    BY <1>1, FieldFacts DEF TableOK
  <2> QED BY <1>1, <2>3, <2>4, <2>5 DEF IsLatest
<1>6. [id \in Ids |-> [f \in Fields |-> table'[id][f].tail]]
        = [reg EXCEPT ![Current.id][Field] = Len(log)]
  <2> DEFINE next == [id \in Ids |-> [f \in Fields |-> table'[id][f].tail]]
             written == [reg EXCEPT ![Current.id][Field] = Len(log)]
             row(id) == [f \in Fields |-> table'[id][f].tail]
             old(id) == [f \in Fields |-> table[id][f].tail]
  <2>1. ASSUME NEW id \in Ids, id # Current.id PROVE row(id) = old(id)
    BY <2>1
  <2>2. row(Current.id) = [old(Current.id) EXCEPT ![Field] = Len(log)]
    BY <1>1
  <2>3. ASSUME NEW id \in Ids
        PROVE  row(id) = IF id = Current.id THEN [old(id) EXCEPT ![Field] = Len(log)] ELSE old(id)
    BY <2>1, <2>2, <2>3
  <2> HIDE DEF row, old
  <2>4. reg = [id \in Ids |-> old(id)] /\ next = [id \in Ids |-> row(id)]
    BY DEF row, old
  <2> HIDE DEF next, reg
  <2>5. written = [id \in Ids |-> IF id = Current.id THEN [old(id) EXCEPT ![Field] = Len(log)]
                                                   ELSE old(id)]
    BY <1>1, <2>4
  <2>6. next = written
    BY <2>3, <2>4, <2>5
  <2> QED BY <2>6 DEF next
<1> QED BY <1>2, <1>3, <1>4, <1>5, <1>6 DEF Registers!Publish

\* A datagram that is accepted arrives; one that is not, or that crashes the
\* process, leaves everything the registers show alone.
LEMMA RefinesReceive ==
  ASSUME NEW d \in Datagrams, Receive(d)
  PROVE  Registers!Arrive \/ UNCHANGED Registers!vars
<1>1. table' = table /\ result' = result
  BY DEF Receive
<1>2. log' = log \/ log' = Append(log, d)
  BY DEF Receive
<1> QED BY <1>1, <1>2 DEF Registers!Arrive, Registers!vars

\* Entering a critical section publishes nothing yet.
LEMMA RefinesLock ==
  ASSUME IInv, HandlerLock
  PROVE  UNCHANGED Registers!vars
<1>1. log' = log /\ result' = result
  BY DEF HandlerLock
<1>2. ASSUME NEW id \in Ids, NEW f \in Fields PROVE table'[id][f].tail = table[id][f].tail
  BY DEF HandlerLock, IInv, TypeInv, TypeOK, TableOK
<1> QED BY <1>1, <1>2 DEF Registers!vars

\* What a getter returns is what the register held.
LEMMA RefinesRead ==
  ASSUME IInv, [Next]_vars, table' = table, log' = log
  PROVE  Registers!Next \/ UNCHANGED Registers!vars
<1> DEFINE shown(r) == [id |-> r.id, field |-> r.field,
                        num |-> IF r.head = r.tail THEN r.tail ELSE -1]
<1>1. CASE result' = result
  BY <1>1 DEF Registers!vars
<1>2. ASSUME NEW id \in 0 .. NUM_PLAYERS + 1, NEW f \in Fields,
             result' = [id |-> id, field |-> f, head |-> 0, tail |-> 0]
      PROVE  Registers!Next
  <2>1. shown(result') = [id |-> id, field |-> f, num |-> 0]
    BY <1>2
  <2>2. Registers!ReadDefault(id, f)
    BY <2>1 DEF Registers!ReadDefault
  <2> QED BY <2>2 DEF Registers!Next
<1>3. ASSUME NEW id \in Ids, NEW f \in Fields,
             result' = [id |-> id, field |-> f,
                        head |-> table[id][f].tail, tail |-> table[id][f].tail]
      PROVE  Registers!Next
  <2>1. shown(result') = [id |-> id, field |-> f, num |-> table[id][f].tail]
    BY <1>3
  <2>2. Registers!Read(id, f)
    BY <2>1 DEF Registers!Read
  <2>3. id \in Registers!Ids
    BY DEF Registers!Ids, Ids
  <2> QED BY <2>2, <2>3 DEF Registers!Next
<1> QED BY <1>1, <1>2, <1>3, ResultCases DEF IInv

LEMMA RefinesStep ==
  IInv /\ [Next]_vars => [Registers!Next]_(Registers!vars)
<1> SUFFICES ASSUME IInv, [Next]_vars PROVE Registers!Next \/ UNCHANGED Registers!vars
  OBVIOUS
<1>0. TableOK' /\ (pos # 0 => Current.id \in Ids /\ Current.id \in Registers!Ids /\ Field \in Fields)
  BY TypeStep, FieldFacts
     DEF IInv, TypeInv, TypeOK, LogOK, HandlerOK, Registers!Ids, Ids, Field
<1>1. ASSUME NEW d \in Datagrams, Receive(d) PROVE Registers!Next \/ UNCHANGED Registers!vars
  BY <1>1, RefinesReceive DEF Registers!Next
<1>2. CASE HandlerSkip
  BY <1>2 DEF HandlerSkip, Registers!vars
<1>3. CASE HandlerLock
  BY <1>3, RefinesLock
<1>4. CASE HandlerStore
  <2>1. pos # 0 /\ log' = log /\ result' = result /\ Field \in AtomicFields
    BY <1>4 DEF HandlerStore
  <2>2. Carries(Len(log), Current.id, Field)
    BY <2>1 DEF Carries, Current, AtomicFields, VectorFields
  <2>3. /\ table'[Current.id][Field].tail = Len(log)
        /\ \A id \in Ids, f \in Fields :
             ~(id = Current.id /\ f = Field) => table'[id][f] = table[id][f]
    BY <1>0, <1>4, <2>1 DEF HandlerStore, IInv, TypeInv, TypeOK, TableOK
  <2>4. Registers!Publish(Current.id, Field)
    BY <1>0, <2>1, <2>2, <2>3, RefinesWrite DEF TableOK
  <2>5. Current.id \in Registers!Ids /\ Field \in Fields
    BY <1>0, <2>1
  <2> QED BY <2>4, <2>5, Zenon DEF Registers!Next, Registers!Publish
<1>5. CASE HandlerUnlock
  <2>1. pos # 0 /\ log' = log /\ result' = result
    BY <1>5, Zenon DEF HandlerUnlock, IInv, TypeInv, HandlerOK
  <2>2. Carries(Len(log), Current.id, Field)
    BY <1>5, Zenon DEF HandlerUnlock, IInv, DataInv, HalfCarries
  <2>3. /\ table'[Current.id][Field].tail = Len(log)
        /\ \A id \in Ids, f \in Fields :
             ~(id = Current.id /\ f = Field) => table'[id][f] = table[id][f]
    BY <1>0, <1>5, <2>1 DEF HandlerUnlock, IInv, TypeInv, TypeOK, TableOK
  <2>4. Registers!Publish(Current.id, Field)
    BY <1>0, <2>1, <2>2, <2>3, RefinesWrite DEF TableOK
  <2>5. Current.id \in Registers!Ids /\ Field \in Fields
    BY <1>0, <2>1
  <2> QED BY <2>4, <2>5, Zenon DEF Registers!Next, Registers!Publish
<1>6. CASE table' = table /\ log' = log
  BY <1>6, RefinesRead
<1> QED BY <1>1, <1>2, <1>3, <1>4, <1>5, <1>6, Frame

\* A process of the library implements the abstract registers: whatever the
\* handler interleaves with the getters, the application sees every field as
\* an atomic register that only moves forward, behind the receive time.
THEOREM Refinement == Spec => ImplementsRegisters
<1>1. Init => Registers!Init
  BY RefinesInit
<1>2. IInv /\ [Next]_vars => [Registers!Next]_(Registers!vars)
  BY RefinesStep
<1> QED BY <1>1, <1>2, Invariance, PTL DEF Spec, ImplementsRegisters, Registers!Spec
=============================================================================
