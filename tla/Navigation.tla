------------------------------ MODULE Navigation ------------------------------
(***************************************************************************)
(* What the course library offers a robot to find its way: the wheel       *)
(* encoders (SE423Lib.c), the pose filter of the camera system             *)
(* (OptiTrack.c) and the way-point controller (user_xy.c).  Motive, the    *)
(* robot and the program that calls the library are the environment.       *)
(*                                                                         *)
(* Angles are whole degrees and the arithmetic is exact where the code has *)
(* floats; an encoder count is one degree of wheel; distances are tenths of*)
(* a tile.  headings are not reduced: they count the turns made.           *)
(***************************************************************************)
EXTENDS Integers, FiniteSets, Sequences

CONSTANTS
  Turns,           \* by how much the robot may turn at a time
  MaxHeading,      \* bound on the heading
  Errors,          \* how far the robot's estimate of its heading may be off
  Bodies,          \* the ids Motive gives to tracked bodies
  MaxFrames,       \* bound on the packets
  MaxCalls,        \* bound on the calls of UpdateOptitrackStates
  Half,            \* half the range of the 32-bit encoder register
  Bearings,        \* directions of way points, -180..180
  Distances,       \* their distances
  target_radius, target_radius_near, turn_thres

ASSUME NavigationAssumption ==
  /\ Turns \subseteq Int /\ Bodies \subseteq Nat \ {0} /\ MaxFrames \in Nat /\ MaxCalls \in Nat
  /\ Errors \subseteq -89..89 /\ Bearings \subseteq -180..180 /\ Distances \subseteq Nat
  /\ MaxHeading \in Nat /\ Half \in Nat /\ MaxHeading < Half - 1
  /\ target_radius \in Nat /\ target_radius_near \in Nat /\ turn_thres \in Nat

VARIABLES
  heading,         \* the robot's true heading
  QPOSCNT,         \* the encoder registers, which a turn to the left both raises
  Optitrackdata,   \* the last packet of Motive
  measured,        \* records: the true heading when that packet was taken
  unread,          \* records: no call has seen that packet
  Optiprevious_frame, Optiframe_error, Optifirstdata,
  OptitrackableID, OptitrackableIDerror,
  calls,           \* records: the body of each call's packet, and whether it was unread
  seen,            \* records: the true heading behind the last call's packet
  theta, flag      \* the heading the last call returned, and its flag

robotVars == <<heading, QPOSCNT>>
packetVars == <<Optitrackdata, measured, unread>>
filterVars == <<Optiprevious_frame, Optiframe_error, Optifirstdata, OptitrackableID,
                OptitrackableIDerror, calls, seen, theta>>
vars == <<robotVars, packetVars, filterVars, flag>>
-----------------------------------------------------------------------------
(* The encoders.                                                           *)

Wheels == {"EQep1", "EQep2"}     \* left and right

\* Mutant: the register does not wrap.
Wrapped_Not(n) == n

\* n modulo the register's range, for n no further than a range away from it.
Wrapped(n) == IF n < 0 THEN n + 2 * Half ELSE IF n >= 2 * Half THEN n - 2 * Half ELSE n

\* int32_t raw = EQepNRegs.QPOSCNT, and back for unsigned arithmetic
Signed(count) == IF count >= Half THEN count - 2 * Half ELSE count
Unsigned(raw) == IF raw < 0 THEN raw + 2 * Half ELSE raw

QEP_maxvalue == 2 * Half - 1

\* Mutant: raw is unsigned and nothing is subtracted.
RawCount_Unsigned(count) == count

\* raw is compared as an unsigned number, so "never true" is what every negative
\* count makes true; and what is subtracted is one less than the range.
RawCount(count) ==
  IF Unsigned(Signed(count)) >= QEP_maxvalue \div 2
  THEN Signed(Wrapped(Unsigned(Signed(count)) - QEP_maxvalue))
  ELSE Signed(count)

\* The left encoder is mounted the other way round.
readEncLeft == -RawCount(QPOSCNT["EQep1"])
readEncRight == RawCount(QPOSCNT["EQep2"])
-----------------------------------------------------------------------------
(* The pose filter.                                                        *)

\* localROBOTps.theta / (2 * PI) cut to an integer, in degrees, and fmodf's rest.
WholeTurns(robot) ==
  IF robot >= 0 THEN 360 * (robot \div 360) ELSE -360 * ((-robot) \div 360)
Rest(robot) == robot - WholeTurns(robot)

\* Mutant: the case of a robot in its last quarter and a reading in the first
\* is forgotten.
Correction_NoFourthQuarter(rest, yaw) ==
  IF rest > 0 THEN IF \/ rest < 180 /\ rest > 90 /\ yaw < 0
                      \/ rest >= 180 /\ yaw <= 0
                   THEN 360 ELSE 0
  ELSE IF \/ rest > -180 /\ rest < -90 /\ yaw > 0
          \/ rest <= -180 /\ yaw >= 0
       THEN -360 ELSE 0

\* One turn more or less when the estimate's rest and the reading lie on either
\* side of where the reading jumps, or of where the rest does.
Correction(rest, yaw) ==
  IF rest > 0 THEN IF \/ rest < 180 /\ rest > 90 /\ yaw < 0
                      \/ rest >= 180 /\ (yaw <= 0 \/ rest > 270)
                   THEN 360 ELSE 0
  ELSE IF \/ rest > -180 /\ rest < -90 /\ yaw > 0
          \/ rest <= -180 /\ (yaw >= 0 \/ rest < -270)
       THEN -360 ELSE 0

\* The reading, -180..180, with the turns the robot has made.
Unwrap(robot, yaw) == WholeTurns(robot) + Correction(Rest(robot), yaw) + yaw

\* What a packet holds: isnan of its first word, which of x and y are not 0.0,
\* the heading, the id and the number of the frame.
NoPacket == [nan |-> FALSE, x |-> FALSE, y |-> FALSE, yaw |-> 0, id |-> 0, frame |-> 0]

\* A pose with a coordinate or a heading of exactly 0.0 is taken for untracked.
Usable(packet) == ~packet.nan /\ packet.x /\ packet.y /\ packet.yaw # 0

\* The pose that is returned without being set: whatever the stack held.
Garbage == {0, MaxHeading}

\* Mutant: the first packet's id is not kept as the id to expect.
LatchBody_Always(id) == Optifirstdata' = 1 /\ OptitrackableID' = id

LatchBody(id) ==
  /\ Optifirstdata' = 0
  /\ OptitrackableID' = IF Optifirstdata = 1 THEN id ELSE OptitrackableID

\* UpdateOptitrackStates(localROBOTps, flag), with the robot's estimate of its
\* heading.  The flag is only ever set.
UpdateOptitrackStates(robot) ==
  /\ Optiframe_error' = IF Optiprevious_frame = Optitrackdata.frame
                        THEN Optiframe_error + 1 ELSE Optiframe_error
  /\ Optiprevious_frame' = Optitrackdata.frame
  /\ LatchBody(Optitrackdata.id)
  /\ OptitrackableIDerror' = IF OptitrackableID' # Optitrackdata.id
                             THEN OptitrackableIDerror + 1 ELSE OptitrackableIDerror
  /\ \/ /\ Usable(Optitrackdata)
        /\ theta' = Unwrap(robot, Optitrackdata.yaw)
        /\ flag' = 1
     \/ /\ ~Usable(Optitrackdata)
        /\ theta' \in Garbage
        /\ flag' = flag
-----------------------------------------------------------------------------
(* The way-point controller.                                               *)

Abs(a) == IF a < 0 THEN -a ELSE a
Least(a, b) == IF a < b THEN a ELSE b
Ceiling(a, b) == -((-a) \div b)

\* The heading between -PI and PI.
WrapHeading(thetaabs) ==
  IF thetaabs > 180 THEN thetaabs - 360 * ((thetaabs + 180) \div 360)
  ELSE IF thetaabs < -180 THEN thetaabs - 360 * Ceiling(thetaabs - 180, 360)
  ELSE thetaabs

\* Mutant: only a turn to one side is shortened.
TurnError_OneSided(thetaabs, alpha) ==
  LET turnerror == WrapHeading(thetaabs) - alpha
  IN IF Abs(turnerror - 360) < Abs(turnerror) THEN turnerror - 360 ELSE turnerror

\* The turn error, changed by a turn where that is the shorter way.
TurnError(thetaabs, alpha) ==
  LET turnerror == WrapHeading(thetaabs) - alpha IN
  IF Abs(turnerror + 360) < Abs(turnerror) THEN turnerror + 360
  ELSE IF Abs(turnerror - 360) < Abs(turnerror) THEN turnerror - 360
  ELSE turnerror

\* xy_control: forwards, backwards when near and past the target, not at all
\* when there; turning on the spot when much has to be turned.
xy_control(thetaabs, alpha, dist) ==
  LET near == dist < target_radius_near
      there == near /\ dist < target_radius
      err == TurnError(thetaabs, alpha)
      dir == IF there THEN 0 ELSE IF near /\ Abs(err) > 90 THEN -1 ELSE 1
      vref == dir * Least(dist, 10)
      turnerror == IF near THEN 0 ELSE err
      \* the gain 2 * vref has vref in tenths
      turn == IF vref # 0 THEN (2 * vref * turnerror) \div 10 ELSE 2 * turnerror
  IN [err |-> turnerror, turn |-> turn,
      vref |-> IF Abs(turn) > turn_thres THEN 0 ELSE vref]
-----------------------------------------------------------------------------
Init ==
  /\ heading = 0 /\ QPOSCNT = [w \in Wheels |-> 0]
  /\ Optitrackdata = NoPacket /\ measured = 0 /\ unread = FALSE
  /\ Optiprevious_frame = -1 /\ Optiframe_error = 0 /\ Optifirstdata = 1
  /\ OptitrackableID = -1 /\ OptitrackableIDerror = 0
  /\ calls = <<>> /\ seen = 0 /\ theta = 0 /\ flag = 0

\* The robot turns on the spot and its wheels with it.
TurnRobot(by) ==
  /\ heading + by \in -MaxHeading..MaxHeading
  /\ heading' = heading + by
  /\ QPOSCNT' = [w \in Wheels |-> Wrapped(QPOSCNT[w] + by)]
  /\ UNCHANGED <<packetVars, filterVars, flag>>

\* Motive sends the next frame: the body it sees, which may be on an axis, or
\* zeros or no numbers when it does not see it.
Packet(id) ==
  /\ Optitrackdata.frame < MaxFrames
  /\ \E nan, x, y \in BOOLEAN, yaw \in -180..180 :
       /\ \/ ~nan /\ (heading - yaw) % 360 = 0
          \/ ~x /\ ~y /\ yaw = 0
       /\ Optitrackdata' = [nan |-> nan, x |-> x, y |-> y, yaw |-> yaw, id |-> id,
                            frame |-> Optitrackdata.frame + 1]
  /\ measured' = heading /\ unread' = TRUE
  /\ UNCHANGED <<robotVars, filterVars, flag>>

\* The program corrects its pose: it has used and cleared an earlier flag, some
\* packet has arrived, and its estimate of the heading the camera saw is less
\* than a quarter turn off.
Correct(error) ==
  /\ Len(calls) < MaxCalls
  /\ flag = 0
  /\ Optitrackdata.frame > 0
  /\ UpdateOptitrackStates(measured + error)
  /\ calls' = Append(calls, [id |-> Optitrackdata.id, new |-> unread])
  /\ seen' = measured /\ unread' = FALSE
  /\ UNCHANGED <<robotVars, Optitrackdata, measured>>

\* The program steers by the pose it got, for whichever way point.
UsePose == flag = 1 /\ flag' = 0 /\ UNCHANGED <<robotVars, packetVars, filterVars>>

Next ==
  \/ \E by \in Turns : TurnRobot(by)
  \/ \E id \in Bodies : Packet(id)
  \/ \E error \in Errors : Correct(error)
  \/ UsePose

Spec == Init /\ [][Next]_vars
-----------------------------------------------------------------------------
(* Properties.                                                             *)

\* How many turns a heading and a direction can be apart.
MaxTurns == MaxHeading \div 360 + 2

\* The types.
TypeOK ==
  /\ heading \in -MaxHeading..MaxHeading
  /\ QPOSCNT \in [Wheels -> 0..QEP_maxvalue]
  /\ Optitrackdata.yaw \in -180..180 /\ Optitrackdata.frame \in Nat
  /\ Optitrackdata.id \in Bodies \cup {0}
  /\ measured \in Int /\ unread \in BOOLEAN
  /\ Optiprevious_frame \in Int /\ Optiframe_error \in Nat
  /\ Optifirstdata \in {0, 1} /\ OptitrackableIDerror \in Nat
  /\ OptitrackableID \in Bodies \cup {-1}
  /\ calls \in Seq([id : Bodies, new : BOOLEAN]) /\ seen \in Int
  /\ theta \in Int /\ flag \in {0, 1}

\* Each encoder follows its wheel to within a count, however often the count
\* changes sign: -1 reads as 0 (SE423Lib.c:148, 158), but no turn of the robot
\* makes the error grow.
EncodersFollow ==
  /\ readEncRight \in {heading, heading + 1}
  /\ readEncLeft \in {-heading - 1, -heading}

\* A pose under a set flag has the heading the robot had when the camera saw it,
\* with the turns it had made by then: whichever way the reading and an estimate
\* less than a quarter turn off fall around 0 and 180 degrees, and although the
\* robot has turned on and further packets have come since (OptiTrack.c:55-139).
PoseIsMeasured == flag = 1 => theta = seen

\* A frame error is counted for each call that saw no packet since the last, and
\* an id error for each call on another body than the first one's (OptiTrack.c:
\* 21-38): no lost packet and no wrap of the heading raises a false alarm.
AlarmsAreGenuine ==
  /\ Optiframe_error = Cardinality({k \in DOMAIN calls : ~calls[k].new})
  /\ OptitrackableIDerror = Cardinality({k \in DOMAIN calls : calls[k].id # calls[1].id})

\* Is err the way from a direction to a heading, at most half a turn?
IsShortWay(err, from, alpha) == err \in -180..180 /\ (from - alpha - err) % 360 = 0

\* Whoever steers by the pose steers by where the robot headed, not by how often
\* it had turned: far from a way point the turn error is the shorter way from the
\* measured heading to its direction; near it the robot does not turn, drives
\* forwards only if the way point is in front of it and backwards only if it is
\* behind, and stops only when it is there (user_xy.c:69-104).
SteersTheShortWay ==
  flag = 1 =>
    \A alpha \in Bearings, dist \in Distances :
      LET out == xy_control(theta, alpha, dist)
          short == {err \in {seen - alpha + 360 * k : k \in -MaxTurns..MaxTurns} :
                      IsShortWay(err, seen, alpha)}
      IN IF dist >= target_radius_near THEN out.err \in short
         ELSE /\ out.turn = 0
              /\ out.vref > 0 => \A err \in short : Abs(err) <= 90
              /\ out.vref < 0 => \A err \in short : Abs(err) > 90
              /\ out.vref = 0 => dist = 0 \/ dist < target_radius
=============================================================================
