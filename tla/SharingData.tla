----------------------------- MODULE SharingData -----------------------------
(***************************************************************************)
(* What becomes of the arguments of sendCommonInfo on their way to the     *)
(* getters of a team mate: the narrowing to bytes and integers, the wire   *)
(* format of infoshare.proto, the receive buffer of fixed size that cuts a *)
(* long datagram, and the widening in receivedDataHandler.  One sender,    *)
(* one receiver of the same team, one datagram on the way at a time; it    *)
(* may be lost.                                                            *)
(*                                                                         *)
(* Data: an x in tenths of a millimetre and a theta in thousandths of a    *)
(* radian, so that the parts that are cut off show; a list of poses is its *)
(* length; the two texts are left to SerializeDict.                        *)
(***************************************************************************)
EXTENDS Integers, Sequences

CONSTANTS
  Calls,          \* the arguments an application may pass to sendCommonInfo
  buffer_size_,   \* size of the receive buffer: 1024 on the robots
  PoseSize        \* bytes of an encoded Pos2D in a list

Lists == {"our_robot_gl", "enemy_robot_gl", "black_pole_gl", "target_pos_vec"}
\* A Pos2DCf of the application; is_detect is the set of what a read of the flag
\* may give.
Places == [is_detect : SUBSET BOOLEAN \ {{}}, cf : Int, x : Int, th : Int]

ASSUME SizeAssumption == buffer_size_ \in Nat /\ PoseSize \in Nat \ {0}
ASSUME CallsAssumption ==
  Calls \subseteq [ball_gl_cf : Places, self_pos_cf : Places, lists : [Lists -> Nat],
                   fps : Int, fallen : BOOLEAN, idle : BOOLEAN, Temperature : Int,
                   servo1temp : Int, MotorVoltage : Int]

VARIABLES
  wire,           \* the datagram on the way, as sent; none when there is none
  row,            \* what the getters of the receiver return for the sender
  said,           \* the arguments of the call whose datagram was last on the way (history)
  heard           \* the arguments of the last call the receiver accepted (history)

dataVars == <<wire, row, said, heard>>

-----------------------------------------------------------------------------
(* The application: a place and its confidence *)

\* The constructor from a Pos2D leaves is_detect uninitialised.
FromPos2D(x, th, cf) == [is_detect |-> BOOLEAN, cf |-> cf, x |-> x, th |-> th]

\* The constructor from five numbers does the same.
setPosition(x, th, cf) == [FromPos2D(x, th, cf) EXCEPT !.is_detect = {TRUE}]

\* Whatever else the place holds stays.
resetPosition(place) == [place EXCEPT !.is_detect = {FALSE}]

-----------------------------------------------------------------------------
(* The sender: sendCommonInfo *)

\* A cast to unsigned char, and the sign of a char turned into an int32_t.
Byte(n) == n % 256
FromChar(byte) == IF byte >= 128 THEN byte - 256 ELSE byte

\* A cast of a float to an integer cuts towards zero.
Cut(n, unit) == IF n >= 0 THEN n \div unit ELSE -((-n) \div unit)

\* A float outside 0 .. 255 has no defined value as a uint8_t: the conversion
\* of the PC keeps the low byte, the one of the ARM boards cuts negatives off.
Casts(cf) == {Byte(cf), IF cf < 0 THEN 0 ELSE Byte(cf)}

\* std::clamp, on the uint8_t.
ClampedConfidence(byte) == IF byte > 100 THEN 100 ELSE byte

Pos2DCfsetter(place, byte, detected) ==
  [confidence |-> ClampedConfidence(byte), is_detect |-> detected,
   pos_x |-> Cut(place.x, 10), pos_theta |-> Cut(place.th, 10)]

\* Mutant of Status: the second flag replaces the first.
Status_Replaced(call) == IF call.idle THEN 2 ELSE IF call.fallen THEN 1 ELSE 0

\* The posture flag, or-ed with the idle flag.
Status(call) == (IF call.fallen THEN 1 ELSE 0) + (IF call.idle THEN 2 ELSE 0)

\* The message: both places are made from ball_gl_cf.
Message(call, byte, detected) ==
  [status |-> Status(call),
   fps |-> Byte(call.fps),
   voltage |-> Byte(call.MotorVoltage \div 8),
   temperature |-> Byte(call.Temperature),
   highest_servo |-> Byte(call.servo1temp \div 256),
   lists |-> call.lists,
   ball_gl_cf |-> Pos2DCfsetter(call.ball_gl_cf, byte, detected),
   self_pos_cf |-> Pos2DCfsetter(call.ball_gl_cf, byte, detected)]

None == [status |-> -1]

sendCommonInfo(call) ==
  /\ wire = None
  /\ \E byte \in Casts(call.ball_gl_cf.cf), detected \in call.ball_gl_cf.is_detect :
       wire' = Message(call, byte, detected)
  /\ said' = call
  /\ UNCHANGED <<row, heard>>

-----------------------------------------------------------------------------
(* The wire: the fields in the order of their tags, in a buffer of fixed size *)

\* Mutant of TagOrder: team_color numbered after id.
TagOrder_TeamFirst ==
  << "id", "team_color", "status", "fps", "voltage", "temperature", "highest_servo",
     "our_robot_gl", "enemy_robot_gl", "black_pole_gl", "target_pos_vec",
     "ball_gl_cf", "self_pos_cf" >>

TagOrder ==
  << "id", "status", "fps", "voltage", "temperature", "highest_servo",
     "our_robot_gl", "enemy_robot_gl", "black_pole_gl", "target_pos_vec",
     "ball_gl_cf", "self_pos_cf", "team_color" >>

\* One byte of tag, one of length, one of data; tags from 16 take two bytes,
\* and a place holds a pose, a confidence, which as 0 is an empty string, and a
\* flag.
Size(field, message) ==
  CASE field \in Lists -> message.lists[field] * PoseSize
    [] field \in {"ball_gl_cf", "self_pos_cf"} ->
         PoseSize + (IF message[field].confidence = 0 THEN 7 ELSE 8)
    [] field = "team_color" -> 4
    [] OTHER -> 3

\* Bytes up to the end of field n.
Length(n, message) ==
  LET upTo[m \in 0 .. Len(TagOrder)] ==
        IF m = 0 THEN 0 ELSE upTo[m - 1] + Size(TagOrder[m], message)
  IN  upTo[n]

\* The fields that end inside the buffer.
Present(message) ==
  {TagOrder[i] : i \in {n \in 1 .. Len(TagOrder) :
     Length(n, message) <= buffer_size_}}

-----------------------------------------------------------------------------
(* The receiver: receivedDataHandler *)

Stored(place) ==
  [is_detect |-> place.is_detect, cf |-> FromChar(place.confidence),
   x |-> place.pos_x, th |-> place.pos_theta]

\* The row after the fields that are present have been stored: the lists only
\* when they have an element.
Updated(message, present) ==
  [status |-> IF "status" \in present THEN FromChar(message.status) ELSE row.status,
   fps |-> IF "fps" \in present THEN FromChar(message.fps) ELSE row.fps,
   voltage |-> IF "voltage" \in present THEN FromChar(message.voltage) ELSE row.voltage,
   temperature |-> IF "temperature" \in present THEN FromChar(message.temperature)
                   ELSE row.temperature,
   highest_servo |-> IF "highest_servo" \in present THEN FromChar(message.highest_servo)
                     ELSE row.highest_servo,
   lists |-> [l \in Lists |-> IF l \in present /\ message.lists[l] > 0
                              THEN message.lists[l] ELSE row.lists[l]],
   ball_gl_cf |-> IF "ball_gl_cf" \in present THEN Stored(message.ball_gl_cf)
                  ELSE row.ball_gl_cf,
   self_pos_cf |-> IF "self_pos_cf" \in present THEN Stored(message.self_pos_cf)
                   ELSE row.self_pos_cf]

\* Without the team's color at(0) throws, and the handler catches and returns.
receivedDataHandler ==
  /\ wire # None
  /\ IF "team_color" \in Present(wire)
     THEN row' = Updated(wire, Present(wire)) /\ heard' = said
     ELSE UNCHANGED <<row, heard>>
  /\ wire' = None
  /\ UNCHANGED said

Lose ==
  /\ wire # None
  /\ wire' = None
  /\ UNCHANGED <<row, said, heard>>

-----------------------------------------------------------------------------
\* What the constructors leave.
NoPlace == [is_detect |-> FALSE, cf |-> 0, x |-> 0, th |-> 0]
NoCall == [fps |-> 0]

DataInit ==
  /\ wire = None
  /\ row = [status |-> 0, fps |-> 0, voltage |-> 0, temperature |-> 0, highest_servo |-> 0,
            lists |-> [l \in Lists |-> 0], ball_gl_cf |-> NoPlace, self_pos_cf |-> NoPlace]
  /\ said = NoCall /\ heard = NoCall

DataNext == (\E call \in Calls : sendCommonInfo(call)) \/ receivedDataHandler \/ Lose

DataSpec == DataInit /\ [][DataNext]_dataVars

-----------------------------------------------------------------------------
(* Properties *)

StoredPlaces == [is_detect : BOOLEAN, cf : 0 .. 100, x : Int, th : Int]

\* The type invariant: what a receiver can find in a row.
DataTypeOK ==
  /\ wire = None \/ wire \in [status : 0 .. 3, fps : 0 .. 255, voltage : 0 .. 255,
                              temperature : 0 .. 255, highest_servo : 0 .. 255,
                              lists : [Lists -> Nat],
                              ball_gl_cf : [confidence : 0 .. 100, is_detect : BOOLEAN,
                                            pos_x : Int, pos_theta : Int],
                              self_pos_cf : [confidence : 0 .. 100, is_detect : BOOLEAN,
                                             pos_x : Int, pos_theta : Int]]
  /\ row \in [status : 0 .. 3, fps : -128 .. 127, voltage : -128 .. 127,
              temperature : -128 .. 127, highest_servo : -128 .. 127,
              lists : [Lists -> Nat], ball_gl_cf : StoredPlaces, self_pos_cf : StoredPlaces]
  /\ said \in Calls \union {NoCall} /\ heard \in Calls \union {NoCall}

\* A stored coordinate is the sent one without its fraction: never farther
\* from the origin, less than one unit away.
CutOff(stored, sent, unit) ==
  LET magnitude(n) == IF n < 0 THEN -n ELSE n
  IN /\ magnitude(stored) * unit <= magnitude(sent)
     /\ magnitude(stored * unit - sent) < unit

\* Figures that mean the same as a byte and as a char.
Small == 0 .. 127
Confidences == 0 .. 100

\* After any sequence of calls, losses and cut datagrams, what the getters
\* return is what the last accepted call said, never a mixture of two: the
\* flags, every figure and confidence that is in its range, the ball without
\* its fractions, its flag where the application gave it one, and every list of
\* that call that was not empty.  It says nothing of the sender's own position,
\* which the code does not send, nor of figures out of their ranges.
RowIsOneCall ==
  heard # NoCall =>
    /\ (row.status % 2 = 1) = heard.fallen
    /\ (row.status >= 2) = heard.idle
    /\ heard.fps \in Small => row.fps = heard.fps
    /\ heard.MotorVoltage \div 8 \in Small => row.voltage = heard.MotorVoltage \div 8
    /\ heard.Temperature \in Small => row.temperature = heard.Temperature
    /\ heard.servo1temp \div 256 \in Small => row.highest_servo = heard.servo1temp \div 256
    /\ heard.ball_gl_cf.cf \in Confidences => row.ball_gl_cf.cf = heard.ball_gl_cf.cf
    /\ row.ball_gl_cf.is_detect \in heard.ball_gl_cf.is_detect
    /\ CutOff(row.ball_gl_cf.x, heard.ball_gl_cf.x, 10)
    /\ CutOff(row.ball_gl_cf.th, heard.ball_gl_cf.th, 10)
    /\ \A l \in Lists : heard.lists[l] > 0 => row.lists[l] = heard.lists[l]

\* A datagram longer than the receive buffer changes nothing at all, although
\* most of its fields are inside the buffer.
CutDatagramsAreDropped ==
  [][ wire # None /\ Length(Len(TagOrder), wire) > buffer_size_ => UNCHANGED row ]_dataVars
=============================================================================
