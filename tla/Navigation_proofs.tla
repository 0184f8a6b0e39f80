-------------------------- MODULE Navigation_proofs --------------------------
(***************************************************************************)
(* Type correctness and the properties of the encoders, the pose filter    *)
(* and the way-point controller, for every range of the counter, every     *)
(* heading and every sequence of packets.                                  *)
(***************************************************************************)
EXTENDS Navigation, FiniteSetTheorems, TLAPS

LEMMA QuotientAndRest ==
  ASSUME NEW n \in Int
  PROVE  /\ n \div 360 \in Int
         /\ n - 360 * (n \div 360) \in 0..359
         /\ n % 360 = n - 360 * (n \div 360)
  OBVIOUS

(* Whichever way an estimate less than a quarter turn off and the reading   *)
(* fall, UpdateOptitrackStates finds the turns that were made.              *)
LEMMA UnwrapIsExact ==
  ASSUME NEW truth \in Int, NEW error \in -89..89, NEW yaw \in -180..180,
         (truth - yaw) % 360 = 0
  PROVE  Unwrap(truth + error, yaw) = truth
<1>1. PICK k \in Int : truth = 360 * k + yaw
  BY QuotientAndRest
<1>2. PICK robot : robot = truth + error /\ robot \in Int /\ -robot \in Int
  OBVIOUS
<1>3. PICK j \in Int : WholeTurns(robot) = 360 * j /\ robot - 360 * j \in -359..359
  <2>1. CASE robot >= 0
    BY <1>2, <2>1, QuotientAndRest DEF WholeTurns
  <2>2. CASE robot < 0
    <3>1. PICK q \in Int : q = (-robot) \div 360 /\ (-robot) - 360 * q \in 0..359
      BY <1>2, QuotientAndRest
    <3>2. WholeTurns(robot) = -360 * q
      BY <1>2, <2>2, <3>1 DEF WholeTurns
    <3> WITNESS -q \in Int
    <3> QED
      BY <1>2, <3>1, <3>2
  <2> QED
    BY <1>2, <2>1, <2>2
<1>4. PICK rest \in -359..359 : rest = robot - 360 * j
  BY <1>3
<1>5. 360 * j + rest = 360 * k + yaw + error
  BY <1>1, <1>2, <1>4
<1>6. 360 * j + Correction(rest, yaw) = 360 * k
  <2>0. j \in Int /\ k \in Int /\ rest \in Int
    OBVIOUS
  <2>1. CASE rest > 0 /\ rest < 180
    BY <1>5, <2>0, <2>1 DEF Correction
  <2>2. CASE rest >= 180
    BY <1>5, <2>0, <2>2 DEF Correction
  <2>3. CASE rest <= 0 /\ rest > -180
    BY <1>5, <2>0, <2>3 DEF Correction
  <2>4. CASE rest <= -180
    BY <1>5, <2>0, <2>4 DEF Correction
  <2> QED
    BY <2>0, <2>1, <2>2, <2>3, <2>4
<1>7. Rest(robot) = rest
  BY <1>3, <1>4 DEF Rest
<1>8. Correction(rest, yaw) \in Int
  BY DEF Correction
<1> QED
  BY <1>1, <1>2, <1>3, <1>6, <1>7, <1>8 DEF Unwrap

(* The way-point controller's turn error is the shorter way.                *)
LEMMA TurnErrorIsShort ==
  ASSUME NEW from \in Int, NEW alpha \in -180..180
  PROVE  IsShortWay(TurnError(from, alpha), from, alpha)
<1>1. PICK k \in Int, wrapped \in -180..180 :
        wrapped = WrapHeading(from) /\ from = wrapped + 360 * k
  <2>1. CASE from > 180
    <3>1. PICK q \in Int : q = (from + 180) \div 360 /\ from + 180 - 360 * q \in 0..359
      BY QuotientAndRest
    <3> QED
      BY <2>1, <3>1 DEF WrapHeading
  <2>2. CASE from < -180
    <3>1. PICK q \in Int : q = (-(from - 180)) \div 360 /\ -(from - 180) - 360 * q \in 0..359
      BY QuotientAndRest
    <3>2. WrapHeading(from) = from - 360 * (-q)
      BY <2>2, <3>1 DEF WrapHeading, Ceiling
    <3>3. from - 360 * (-q) \in -180..180 /\ -q \in Int
      BY <3>1
    <3>4. from = (from - 360 * (-q)) + 360 * (-q)
      BY <3>1
    <3> QED
      BY <3>2, <3>3, <3>4
  <2>3. CASE from \in -180..180
    BY <2>3 DEF WrapHeading
  <2> QED
    BY <2>1, <2>2, <2>3
<1>2. PICK j \in {-1, 0, 1} : TurnError(from, alpha) = wrapped - alpha + 360 * j
                            /\ TurnError(from, alpha) \in -180..180
  <2> DEFINE d == wrapped - alpha
  <2>1. d \in Int /\ d \in -360..360
    OBVIOUS
  <2>2. TurnError(from, alpha) =
          IF Abs(d + 360) < Abs(d) THEN d + 360
          ELSE IF Abs(d - 360) < Abs(d) THEN d - 360 ELSE d
    BY <1>1 DEF TurnError
  <2> HIDE DEF d
  <2>3. d < -180 => TurnError(from, alpha) = d + 360
    BY <2>1, <2>2 DEF Abs
  <2>4. d > 180 => TurnError(from, alpha) = d - 360
    BY <2>1, <2>2 DEF Abs
  <2>5. d \in -180..180 => TurnError(from, alpha) = d
    BY <2>1, <2>2 DEF Abs
  <2>6. \E j \in {-1, 0, 1} : TurnError(from, alpha) = d + 360 * j
                           /\ TurnError(from, alpha) \in -180..180
    <3>1. CASE d < -180
      BY <2>1, <2>3, <3>1
    <3>2. CASE d > 180
      BY <2>1, <2>4, <3>2
    <3>3. CASE d \in -180..180
      BY <2>1, <2>5, <3>3
    <3> QED
      BY <2>1, <3>1, <3>2, <3>3
  <2> QED
    BY <2>6 DEF d
<1>3. from - alpha - TurnError(from, alpha) = 360 * (k - j)
  BY <1>1, <1>2
<1> QED
  BY <1>1, <1>2, <1>3 DEF IsShortWay
-----------------------------------------------------------------------------
EncoderInv == QPOSCNT = [w \in Wheels |-> IF heading < 0 THEN heading + 2 * Half ELSE heading]

\* A packet that shows the body shows the heading it then had.
PacketInv ==
  /\ measured \in -MaxHeading..MaxHeading /\ seen \in -MaxHeading..MaxHeading
  /\ Optitrackdata.frame > 0 => Optitrackdata.id \in Bodies
  /\ Usable(Optitrackdata) => (measured - Optitrackdata.yaw) % 360 = 0

IInv == TypeOK /\ EncoderInv /\ PacketInv /\ PoseIsMeasured

LEMMA InitIInv == Init => IInv
<1> SUFFICES ASSUME Init PROVE IInv
  OBVIOUS
<1> USE NavigationAssumption
<1>1. TypeOK
  <2>1. 0 \in 0..QEP_maxvalue /\ 0 \in -MaxHeading..MaxHeading
    BY DEF QEP_maxvalue
  <2>2. <<>> \in Seq([id : Bodies, new : BOOLEAN])
    OBVIOUS
  <2>3. QPOSCNT \in [Wheels -> 0..QEP_maxvalue]
    BY <2>1 DEF Init
  <2>4. Optitrackdata.yaw \in -180..180 /\ Optitrackdata.frame \in Nat /\ Optitrackdata.id = 0
    BY DEF Init, NoPacket
  <2>5. heading \in -MaxHeading..MaxHeading /\ measured \in Int
    BY <2>1 DEF Init
  <2>6. unread \in BOOLEAN
    BY Zenon DEF Init
  <2>7. /\ Optiprevious_frame \in Int /\ Optiframe_error \in Nat
        /\ Optifirstdata \in {0, 1} /\ OptitrackableIDerror \in Nat
        /\ OptitrackableID \in Bodies \cup {-1} /\ theta \in Int /\ flag \in {0, 1}
    BY DEF Init
  <2>8. calls \in Seq([id : Bodies, new : BOOLEAN]) /\ seen \in Int
    BY <2>2 DEF Init
  <2> QED
    BY <2>3, <2>4, <2>5, <2>6, <2>7, <2>8 DEF TypeOK
<1>2. EncoderInv
  BY DEF Init, EncoderInv
<1>3. PacketInv
  BY DEF Init, PacketInv, NoPacket, Usable
<1>4. PoseIsMeasured
  BY DEF Init, PoseIsMeasured
<1> QED
  BY <1>1, <1>2, <1>3, <1>4 DEF IInv

LEMMA TurnRobotIInv ==
  ASSUME IInv, NEW by \in Turns, TurnRobot(by)
  PROVE  IInv'
<1> USE NavigationAssumption
<1>1. heading \in Int /\ heading' \in -MaxHeading..MaxHeading /\ heading' = heading + by
  BY DEF IInv, TypeOK, TurnRobot
<1>2. EncoderInv'
  <2>1. ASSUME NEW w \in Wheels
        PROVE  Wrapped(QPOSCNT[w] + by)
                 = IF heading' < 0 THEN heading' + 2 * Half ELSE heading'
    <3>1. QPOSCNT[w] = IF heading < 0 THEN heading + 2 * Half ELSE heading
      BY <2>1 DEF IInv, EncoderInv
    <3>2. by \in Int /\ heading \in -MaxHeading..MaxHeading
      BY DEF IInv, TypeOK
    <3> QED
      BY <1>1, <3>1, <3>2 DEF Wrapped
  <2> QED
    BY <2>1 DEF EncoderInv, TurnRobot
<1>3. QPOSCNT' \in [Wheels -> 0..QEP_maxvalue]
  BY <1>1, <1>2 DEF EncoderInv, QEP_maxvalue
<1> QED
  BY <1>1, <1>2, <1>3 DEF IInv, TypeOK, PacketInv, PoseIsMeasured, TurnRobot,
                          packetVars, filterVars, Usable

LEMMA PacketIInv ==
  ASSUME IInv, NEW id \in Bodies, Packet(id)
  PROVE  IInv'
<1> USE NavigationAssumption
<1>1. /\ Optitrackdata'.id = id /\ Optitrackdata'.frame = Optitrackdata.frame + 1
      /\ Optitrackdata'.yaw \in -180..180
      /\ Usable(Optitrackdata)' => (heading - Optitrackdata'.yaw) % 360 = 0
  BY DEF Packet, Usable
<1>2. TypeOK'
  <2>1. heading \in Int /\ Optitrackdata.frame \in Nat
    BY DEF IInv, TypeOK
  <2>2. measured' \in Int /\ unread' \in BOOLEAN
    BY <2>1 DEF Packet
  <2>3. Optitrackdata'.id \in Bodies \cup {0} /\ Optitrackdata'.frame \in Nat
    BY <1>1, <2>1
  <2> QED
    BY <1>1, <2>2, <2>3 DEF IInv, TypeOK, Packet, robotVars, filterVars
<1>3. PacketInv'
  BY <1>1 DEF IInv, TypeOK, PacketInv, Packet, robotVars, filterVars
<1> QED
  BY <1>2, <1>3 DEF IInv, EncoderInv, PoseIsMeasured, Packet, robotVars, filterVars

LEMMA CorrectIInv ==
  ASSUME IInv, NEW error \in Errors, Correct(error)
  PROVE  IInv'
<1> USE NavigationAssumption
<1>1. Optitrackdata.id \in Bodies /\ measured \in Int /\ unread \in BOOLEAN
  BY DEF IInv, TypeOK, PacketInv, Correct
<1>2. flag' = 1 => Usable(Optitrackdata) /\ theta' = Unwrap(measured + error, Optitrackdata.yaw)
  BY DEF Correct, UpdateOptitrackStates
<1>3. flag' = 1 => theta' = measured
  BY <1>1, <1>2, UnwrapIsExact DEF IInv, TypeOK, PacketInv
<1>4. theta' \in Int
  <2>1. CASE flag' = 1
    BY <1>1, <1>3, <2>1
  <2>2. CASE flag' # 1
    BY <2>2 DEF Correct, UpdateOptitrackStates, Garbage
  <2> QED
    BY <2>1, <2>2
<1>5. PoseIsMeasured'
  BY <1>3 DEF PoseIsMeasured, Correct
<1>6. /\ Optiframe_error' \in Nat /\ Optiprevious_frame' \in Int
      /\ Optifirstdata' \in {0, 1} /\ OptitrackableID' \in Bodies \cup {-1}
      /\ OptitrackableIDerror' \in Nat /\ flag' \in {0, 1}
  BY <1>1 DEF IInv, TypeOK, Correct, UpdateOptitrackStates, LatchBody
<1>7. calls' \in Seq([id : Bodies, new : BOOLEAN]) /\ seen' = measured
  BY <1>1 DEF IInv, TypeOK, Correct
<1>8. TypeOK'
  BY <1>1, <1>4, <1>6, <1>7 DEF IInv, TypeOK, Correct, robotVars
<1>9. PacketInv' /\ EncoderInv'
  BY <1>7 DEF IInv, PacketInv, EncoderInv, Correct, robotVars, Usable
<1> QED
  BY <1>5, <1>8, <1>9 DEF IInv

LEMMA NextIInv == IInv /\ [Next]_vars => IInv'
<1> SUFFICES ASSUME IInv, [Next]_vars PROVE IInv'
  OBVIOUS
<1>1. ASSUME NEW by \in Turns, TurnRobot(by) PROVE IInv'
  BY <1>1, TurnRobotIInv
<1>2. ASSUME NEW id \in Bodies, Packet(id) PROVE IInv'
  BY <1>2, PacketIInv
<1>3. ASSUME NEW error \in Errors, Correct(error) PROVE IInv'
  BY <1>3, CorrectIInv
<1>4. CASE UsePose
  BY <1>4 DEF UsePose, IInv, TypeOK, EncoderInv, PacketInv, PoseIsMeasured, robotVars,
              packetVars, filterVars, Usable
<1>5. CASE UNCHANGED vars
  BY <1>5 DEF vars, IInv, TypeOK, EncoderInv, PacketInv, PoseIsMeasured, robotVars,
              packetVars, filterVars, Usable
<1> QED
  BY <1>1, <1>2, <1>3, <1>4, <1>5 DEF Next

LEMMA Invariance == Spec => []IInv
  BY InitIInv, NextIInv, PTL DEF Spec

(* The types, for every set of turns and packets.                           *)
THEOREM TypeCorrect == Spec => []TypeOK
  BY Invariance, PTL DEF IInv

(* The encoders' values are never more than one count off, for every width  *)
(* of the counter that has room for the wheel's path.                       *)
THEOREM EncodersFollowTheWheels == Spec => []EncodersFollow
<1>1. IInv => EncodersFollow
  <2> SUFFICES ASSUME IInv PROVE EncodersFollow
    OBVIOUS
  <2> USE NavigationAssumption
  <2>1. heading \in -MaxHeading..MaxHeading
    BY DEF IInv, TypeOK
  <2>2. ASSUME NEW w \in Wheels
        PROVE  RawCount(QPOSCNT[w]) = IF heading < 0 THEN heading + 1 ELSE heading
    <3>1. QPOSCNT[w] = IF heading < 0 THEN heading + 2 * Half ELSE heading
      BY <2>2 DEF IInv, EncoderInv
    <3>2. QEP_maxvalue \div 2 = Half - 1
      BY DEF QEP_maxvalue
    <3>3. CASE heading < 0
      BY <2>1, <3>1, <3>2, <3>3 DEF RawCount, Signed, Unsigned, Wrapped, QEP_maxvalue
    <3>4. CASE heading >= 0
      BY <2>1, <3>1, <3>2, <3>4 DEF RawCount, Signed, Unsigned, Wrapped, QEP_maxvalue
    <3> QED
      BY <2>1, <3>3, <3>4
  <2> QED
    BY <2>1, <2>2 DEF EncodersFollow, readEncLeft, readEncRight, Wheels
<1> QED
  BY <1>1, Invariance, PTL

(* A flagged pose has the true heading with its turns, for every history of *)
(* turns, packets and estimates less than a quarter turn off.               *)
THEOREM PosesAreMeasured == Spec => []PoseIsMeasured
  BY Invariance, PTL DEF IInv

LEMMA ShortWaysAgree ==
  ASSUME NEW from \in Int, NEW alpha \in -180..180, NEW a, NEW b,
         IsShortWay(a, from, alpha), IsShortWay(b, from, alpha)
  PROVE  Abs(a) <= 90 <=> Abs(b) <= 90
<1>1. PICK j \in Int : from - alpha - a = 360 * j
  BY QuotientAndRest DEF IsShortWay
<1>2. PICK k \in Int : from - alpha - b = 360 * k
  BY QuotientAndRest DEF IsShortWay
<1>3. a \in -180..180 /\ b \in -180..180
  BY DEF IsShortWay
<1>4. a - b = 360 * (k - j)
  BY <1>1, <1>2, <1>3
<1>5. a = b \/ (a = 180 /\ b = -180) \/ (a = -180 /\ b = 180)
  BY <1>3, <1>4
<1> QED
  BY <1>3, <1>5 DEF Abs

(* Steering by a flagged pose turns the shorter way to any way point, and   *)
(* near it drives towards it, whatever turns the robot has made before.     *)
THEOREM SteersRight == Spec => []SteersTheShortWay
<1>1. IInv => SteersTheShortWay
  <2> SUFFICES ASSUME IInv, flag = 1, NEW alpha \in Bearings, NEW dist \in Distances
               PROVE  LET out == xy_control(theta, alpha, dist)
                          short == {err \in {seen - alpha + 360 * k : k \in -MaxTurns..MaxTurns} :
                                      IsShortWay(err, seen, alpha)}
                      IN IF dist >= target_radius_near THEN out.err \in short
                         ELSE /\ out.turn = 0
                              /\ out.vref > 0 => \A err \in short : Abs(err) <= 90
                              /\ out.vref < 0 => \A err \in short : Abs(err) > 90
                              /\ out.vref = 0 => dist = 0 \/ dist < target_radius
    BY DEF SteersTheShortWay
  <2> USE NavigationAssumption
  <2> DEFINE err0 == TurnError(seen, alpha)
             out == xy_control(seen, alpha, dist)
             short == {err \in {seen - alpha + 360 * k : k \in -MaxTurns..MaxTurns} :
                         IsShortWay(err, seen, alpha)}
  <2>1. theta = seen /\ seen \in Int /\ seen \in -MaxHeading..MaxHeading
    BY DEF IInv, PoseIsMeasured, TypeOK, PacketInv
  <2>2. alpha \in -180..180 /\ dist \in Nat
    OBVIOUS
  <2>3. IsShortWay(err0, seen, alpha)
    BY <2>1, <2>2, TurnErrorIsShort
  <2>4. err0 \in -180..180
    BY <2>3 DEF IsShortWay
  <2>5. CASE dist >= target_radius_near
    <3>1. out.err = err0
      BY <2>2, <2>5 DEF xy_control
    <3> HIDE DEF err0
    <3>2. PICK k \in Int : seen - alpha - err0 = 360 * k
      <4>1. seen - alpha - err0 \in Int /\ (seen - alpha - err0) % 360 = 0
        BY <2>1, <2>2, <2>3, <2>4 DEF IsShortWay
      <4> QED
        BY <4>1, QuotientAndRest
    <3>3. MaxTurns \in Int /\ 360 * MaxTurns > MaxHeading + 360
      BY QuotientAndRest DEF MaxTurns
    <3>4. -k \in -MaxTurns..MaxTurns /\ err0 = seen - alpha + 360 * (-k)
      <4>1. /\ seen - alpha - err0 <= MaxHeading + 360
            /\ seen - alpha - err0 >= -(MaxHeading + 360)
        BY <2>1, <2>2, <2>4
      <4>2. 360 * k < 360 * MaxTurns /\ 360 * k > -(360 * MaxTurns)
        BY <3>2, <3>3, <4>1
      <4> QED
        BY <2>1, <2>2, <2>4, <3>2, <3>3, <4>2
    <3>5. err0 \in short
      BY <2>3, <3>4
    <3> QED
      BY <2>1, <2>5, <3>1, <3>5
  <2>6. CASE dist < target_radius_near
    <3> DEFINE dir == IF dist < target_radius THEN 0 ELSE IF Abs(err0) > 90 THEN -1 ELSE 1
               least == Least(dist, 10)
    <3>1. least \in Nat /\ (least = 0 => dist = 0)
      BY <2>2 DEF Least
    <3>2. dir \in {-1, 0, 1}
      OBVIOUS
    <3>3. dir * least \in Int /\ (2 * (dir * least) * 0) \div 10 = 0
      BY <3>1, <3>2
    <3>4. out.turn = 0 /\ out.vref = dir * least
      BY <2>2, <2>6, <3>3 DEF xy_control, Abs
    <3> HIDE DEF least
    <3>5. /\ dir * least > 0 => dir = 1
          /\ dir * least < 0 => dir = -1
          /\ dir * least = 0 => dir = 0 \/ least = 0
      BY <3>1, <3>2
    <3>6. ASSUME NEW err \in short PROVE Abs(err) <= 90 <=> Abs(err0) <= 90
      BY <2>1, <2>2, <2>3, ShortWaysAgree
    <3>7. ASSUME NEW err \in short PROVE Abs(err) \in Int
      BY DEF IsShortWay, Abs
    <3>8. Abs(err0) \in Int
      BY <2>4 DEF Abs
    <3> HIDE DEF out, short
    <3>9. /\ out.vref > 0 => \A err \in short : Abs(err) <= 90
          /\ out.vref < 0 => \A err \in short : Abs(err) > 90
          /\ out.vref = 0 => dist = 0 \/ dist < target_radius
      BY <3>1, <3>4, <3>5, <3>6, <3>7, <3>8
    <3> QED
      BY <2>1, <2>2, <2>6, <3>4, <3>9 DEF out, short
  <2> QED
    BY <2>2, <2>5, <2>6
<1> QED
  BY <1>1, Invariance, PTL
-----------------------------------------------------------------------------
(* The alarms.                                                              *)

\* A set of calls that the next call joins counts one more.
LEMMA NextCallCounts ==
  ASSUME NEW n \in Nat, NEW before \in SUBSET (1..n)
  PROVE  Cardinality(before \cup {n + 1}) = Cardinality(before) + 1
<1>1. IsFiniteSet(before)
  <2>1. IsFiniteSet(1..n)
    BY FS_Interval
  <2> QED
    BY <2>1, FS_Subset
<1>2. n + 1 \notin before
  OBVIOUS
<1> QED
  BY <1>1, <1>2, FS_AddElement

\* What the filter's variables remember of the calls: the frame of the last one,
\* which is the present packet's exactly if that packet was read, and the body of
\* the first.
FilterInv ==
  /\ Optiprevious_frame <= Optitrackdata.frame
  /\ Optitrackdata.frame > 0 => (unread <=> Optiprevious_frame # Optitrackdata.frame)
  /\ Optifirstdata = 1 <=> calls = <<>>
  /\ calls # <<>> => OptitrackableID = calls[1].id

AlarmInv == FilterInv /\ AlarmsAreGenuine

LEMMA InitAlarmInv == Init => AlarmInv
<1> SUFFICES ASSUME Init PROVE AlarmInv
  OBVIOUS
<1>1. FilterInv
  BY DEF Init, NoPacket, FilterInv
<1>2. /\ {k \in DOMAIN calls : ~calls[k].new} = {}
      /\ {k \in DOMAIN calls : calls[k].id # calls[1].id} = {}
  BY DEF Init
<1>3. AlarmsAreGenuine
  BY <1>2, FS_EmptySet DEF Init, AlarmsAreGenuine
<1> QED
  BY <1>1, <1>3 DEF AlarmInv

LEMMA CorrectAlarmInv ==
  ASSUME IInv, AlarmInv, NEW error \in Errors, Correct(error)
  PROVE  AlarmInv'
<1> DEFINE n == Len(calls)
           call == [id |-> Optitrackdata.id, new |-> unread]
           stale == {k \in DOMAIN calls : ~calls[k].new}
           other == {k \in DOMAIN calls : calls[k].id # calls[1].id}
           isOther == calls # <<>> /\ call.id # calls[1].id
<1>1. /\ calls \in Seq([id : Bodies, new : BOOLEAN]) /\ n \in Nat
      /\ DOMAIN calls = 1..n /\ unread \in BOOLEAN
      /\ Optitrackdata.frame \in Nat /\ Optitrackdata.frame > 0
      /\ Optiprevious_frame \in Int
  BY DEF IInv, TypeOK, Correct
<1>2. /\ calls' = Append(calls, call) /\ DOMAIN calls' = 1..(n + 1)
      /\ calls'[n + 1] = call /\ \A k \in 1..n : calls'[k] = calls[k]
  BY <1>1 DEF Correct
<1>3. calls'[1] = IF calls = <<>> THEN call ELSE calls[1]
  BY <1>1, <1>2
<1>4. call.id = Optitrackdata.id /\ call.new = unread
  OBVIOUS
<1>5. stale \in SUBSET (1..n) /\ other \in SUBSET (1..n)
  BY <1>1
<1>6. {k \in DOMAIN calls' : ~calls'[k].new}
        = IF ~unread THEN stale \cup {n + 1} ELSE stale
  BY <1>1, <1>2, <1>4
<1>7. {k \in DOMAIN calls' : calls'[k].id # calls'[1].id}
        = IF isOther THEN other \cup {n + 1} ELSE other
  <2>1. CASE calls = <<>>
    BY <1>1, <1>2, <1>3, <2>1
  <2>2. CASE calls # <<>>
    BY <1>1, <1>2, <1>3, <2>2
  <2> QED
    BY <2>1, <2>2
<1>8. /\ Optiframe_error = Cardinality(stale)
      /\ OptitrackableIDerror = Cardinality(other)
  BY DEF AlarmInv, AlarmsAreGenuine
<1>9. /\ Optiframe_error' = IF ~unread THEN Optiframe_error + 1 ELSE Optiframe_error
      /\ Optiprevious_frame' = Optitrackdata.frame
  BY <1>1 DEF AlarmInv, FilterInv, Correct, UpdateOptitrackStates
<1>10. /\ Optifirstdata' = 0
       /\ OptitrackableID' = calls'[1].id
  BY <1>3, <1>4 DEF AlarmInv, FilterInv, Correct, UpdateOptitrackStates, LatchBody
<1>11. OptitrackableIDerror' = IF isOther THEN OptitrackableIDerror + 1
                                          ELSE OptitrackableIDerror
  <2>1. OptitrackableIDerror' = IF calls'[1].id # call.id THEN OptitrackableIDerror + 1
                                ELSE OptitrackableIDerror
    BY <1>10 DEF Correct, UpdateOptitrackStates
  <2>2. calls'[1].id # call.id <=> isOther
    BY <1>3
  <2> HIDE DEF isOther, call
  <2> QED
    BY <2>1, <2>2
<1>12. calls' # <<>>
  BY <1>1, <1>2
<1>13. FilterInv'
  BY <1>1, <1>9, <1>10, <1>12 DEF FilterInv, Correct
<1> HIDE DEF n, call, stale, other, isOther
<1>14. /\ Cardinality(stale \cup {n + 1}) = Cardinality(stale) + 1
       /\ Cardinality(other \cup {n + 1}) = Cardinality(other) + 1
  BY <1>1, <1>5, NextCallCounts
<1>15. Optiframe_error' = Cardinality({k \in DOMAIN calls' : ~calls'[k].new})
  BY <1>6, <1>8, <1>9, <1>14
<1>16. OptitrackableIDerror'
         = Cardinality({k \in DOMAIN calls' : calls'[k].id # calls'[1].id})
  BY <1>7, <1>8, <1>11, <1>14
<1> QED
  BY <1>13, <1>15, <1>16 DEF AlarmInv, AlarmsAreGenuine

LEMMA NextAlarmInv == IInv /\ AlarmInv /\ [Next]_vars => AlarmInv'
<1> SUFFICES ASSUME IInv, AlarmInv, [Next]_vars PROVE AlarmInv'
  OBVIOUS
<1>1. ASSUME NEW by \in Turns, TurnRobot(by) PROVE AlarmInv'
  BY <1>1 DEF TurnRobot, packetVars, filterVars, AlarmInv, FilterInv, AlarmsAreGenuine
<1>2. ASSUME NEW id \in Bodies, Packet(id) PROVE AlarmInv'
  <2>1. /\ Optitrackdata'.frame = Optitrackdata.frame + 1 /\ unread' = TRUE
        /\ UNCHANGED filterVars
    BY <1>2 DEF Packet
  <2>2. Optitrackdata.frame \in Nat /\ Optiprevious_frame \in Int
    BY DEF IInv, TypeOK
  <2> QED
    BY <2>1, <2>2 DEF filterVars, AlarmInv, FilterInv, AlarmsAreGenuine
<1>3. ASSUME NEW error \in Errors, Correct(error) PROVE AlarmInv'
  BY <1>3, CorrectAlarmInv
<1>4. CASE UsePose
  BY <1>4 DEF UsePose, packetVars, filterVars, AlarmInv, FilterInv, AlarmsAreGenuine
<1>5. CASE UNCHANGED vars
  BY <1>5 DEF vars, packetVars, filterVars, AlarmInv, FilterInv, AlarmsAreGenuine
<1> QED
  BY <1>1, <1>2, <1>3, <1>4, <1>5 DEF Next

(* The filter's two counters count exactly the calls on a packet read before *)
(* and the calls on another body than the first one's, for every sequence of *)
(* packets and calls: the first call never counts, and none counts twice.    *)
THEOREM AlarmsCountGenuinely == Spec => []AlarmsAreGenuine
<1>1. Init => IInv /\ AlarmInv
  BY InitIInv, InitAlarmInv
<1>2. IInv /\ AlarmInv /\ [Next]_vars => IInv' /\ AlarmInv'
  BY NextIInv, NextAlarmInv
<1> QED
  BY <1>1, <1>2, PTL DEF Spec, AlarmInv
=============================================================================
