-------------------------- MODULE HardwareContract --------------------------
(***************************************************************************)
(* The hardware contract, a worksheet the operator and the offline tools   *)
(* complete: calibration, register ranges, limits derived from the URDF,   *)
(* until a runtime may load it.  The Python runtime takes the whole sheet  *)
(* and drives the joints at two rates; the native controller takes three   *)
(* files exported from it, each at its own time.                           *)
(*                                                                         *)
(* One joint is direct (the knee) and two are pairs behind a differential, *)
(* the ankle, driven by torque, and the head, driven by impedance; the     *)
(* i-th motor of a group stands beside its i-th joint.  Positions, gains   *)
(* and torques are integers, torques and gains of a motor multiplied by    *)
(* Square of its group so that no division is left; velocities, which pass *)
(* as positions do, are left out.                                          *)
(***************************************************************************)
EXTENDS Integers, Sequences, FiniteSetsExt

CONSTANTS
  Calibrations,   \* what may be measured: a sequence of records by group
  Urdf,           \* hard limits of each joint, by group
  SoftMargin,     \* soft_margin_rad
  SoftOverrides,  \* soft limits given by hand, by group and joint
  PositionMax,    \* the PMAX a drive may hold
  TorqueMax,      \* torque limit of each motor
  EffortLimit,    \* joint_effort_limit_nm of the ankles
  Goals,          \* the targets of the policy
  Postures,       \* the joint positions measured
  TicksPerPolicy  \* state_ticks_per_policy (10)

VARIABLES
  sheet,      \* the hardware contract
  derived,    \* the limit report: the calibration it is made of, or 0
  native,     \* the three exported files
  runtime,    \* what is loaded
  goal,       \* the latched target
  stateTick,  \* _state_tick, modulo TicksPerPolicy
  frame       \* the last command frame

contractVars == <<sheet, derived, native, runtime, goal, stateTick, frame>>

Pairs == {"ankle", "head"}
Groups == {"knee"} \union Pairs
Axes(g) == IF g = "knee" THEN {1} ELSE {1, 2}

\* What a record of the calibration and a table by joint hold: signs are 1 or
\* -1 and a ratio is positive, DirectMotorMap and the differentials refuse others.
Jointwise(S) == [knee : [{1} -> S], ankle : [{1, 2} -> S], head : [{1, 2} -> S]]
KneeRecords == [zero : [{1} -> Int], encoder : [{1} -> {1, -1}], policy : {1, -1}, ratio : Nat \ {0}]
PairRecords ==
  [zero : [{1, 2} -> Int], encoder : [{1, 2} -> {1, -1}], matrix : [{1, 2} -> [{1, 2} -> Int]],
   offset : [{1, 2} -> Int], calibrated : BOOLEAN]

ASSUME ContractAssumption ==
  /\ Calibrations \in Seq([knee : KneeRecords, ankle : PairRecords, head : PairRecords])
  /\ Urdf \in Jointwise(Int \X Int) /\ SoftMargin \in Int
  /\ \A j \in DOMAIN SoftOverrides : SoftOverrides[j] \in Int \X Int
  /\ PositionMax \subseteq Nat /\ EffortLimit \in Nat
  /\ \A t \in Goals :
       /\ t.position \in Jointwise(Int) /\ t.kp \in Jointwise(Int) /\ t.feedforward \in Jointwise(Int)
  /\ Postures \subseteq Jointwise(Int)

(***************************************************************************)
(* The map between joints and drives.                                      *)
(***************************************************************************)

SignedRatio(k) == k.encoder[1] * k.policy * k.ratio

\* joint_to_drive_matrix, the polarity of the encoders included.
Matrix(p) == [i \in {1, 2} |-> [j \in {1, 2} |-> p.encoder[i] * p.matrix[i][j]]]
Det(m) == m[1][1] * m[2][2] - m[1][2] * m[2][1]
Adjugate(m) == << <<m[2][2], -m[1][2]>>, <<-m[2][1], m[1][1]>> >>
Transposed(m, v) == [j \in {1, 2} |-> m[1][j] * v[1] + m[2][j] * v[2]]

\* fit_differential_pair passes on samples of a differential that turns both motors.
FitPasses(p) == Det(p.matrix) # 0

\* DirectMotorMap and its two positions.
KneeToDrive(k, q) == <<k.zero[1] + SignedRatio(k) * q[1]>>
KneeToJoint(k, d) ==
  <<IF SignedRatio(k) > 0 THEN (d[1] - k.zero[1]) \div SignedRatio(k)
                          ELSE (k.zero[1] - d[1]) \div (-SignedRatio(k))>>

\* DifferentialPair, and DifferentialPairDriveMap around it.
Canonical(p, q) == [i \in {1, 2} |-> p.matrix[i][1] * q[1] + p.matrix[i][2] * q[2] + p.offset[i]]
PairToDrive(p, q) == [i \in {1, 2} |-> p.zero[i] + p.encoder[i] * Canonical(p, q)[i]]
PairToJoint(p, d) ==
  LET centered == [i \in {1, 2} |-> p.encoder[i] * (d[i] - p.zero[i]) - p.offset[i]]
      a == Adjugate(p.matrix)
      s == IF Det(p.matrix) > 0 THEN 1 ELSE -1
  IN [j \in {1, 2} |-> (s * (a[j][1] * centered[1] + a[j][2] * centered[2])) \div (s * Det(p.matrix))]

\* SpriteMotorMap: every group with its own map.
ToDrive(c, g, q) == IF g = "knee" THEN KneeToDrive(c.knee, q) ELSE PairToDrive(c[g], q)
ToJoint(c, g, d) == IF g = "knee" THEN KneeToJoint(c.knee, d) ELSE PairToJoint(c[g], d)

\* A torque of the drives at the joints.
TorqueAtJoints(c, g, torque) ==
  IF g = "knee" THEN <<SignedRatio(c.knee) * torque[1]>> ELSE Transposed(Matrix(c[g]), torque)

\* motor_map_from_hardware_config without require_armable: signs and zeros are
\* there and no matrix is singular.
MapBuilt(i) == i # 0 /\ \A g \in Pairs : Det(Calibrations[i][g].matrix) # 0

(***************************************************************************)
(* The limits.                                                             *)
(***************************************************************************)

Bounds(S) == <<Min(S), Max(S)>>
Within(x, box) == box[1] <= x /\ x <= box[2]
StrictlyWithin(inner, outer) == outer[1] < inner[1] /\ inner[1] < inner[2] /\ inner[2] < outer[2]

\* Soft limits of the joints: the override of a joint, or the inset.
SoftJoint(g, i) ==
  IF <<g, i>> \in DOMAIN SoftOverrides THEN SoftOverrides[<<g, i>>]
  ELSE <<Urdf[g][i][1] + SoftMargin, Urdf[g][i][2] - SoftMargin>>
SoftJoints(g) == [i \in Axes(g) |-> SoftJoint(g, i)]
JointsDerive == SoftMargin > 0 /\ \A g \in Groups : \A i \in Axes(g) : StrictlyWithin(SoftJoint(g, i), Urdf[g][i])

\* The ends of a joint, the four corners of a pair.
Corners(boxes) ==
  IF Len(boxes) = 1 THEN {<<x>> : x \in {boxes[1][1], boxes[1][2]}}
  ELSE {<<x, y>> : x \in {boxes[1][1], boxes[1][2]}, y \in {boxes[2][1], boxes[2][2]}}

\* Mutant: the polarity of a pair's encoders is left out.
MotorBoxUnsigned(c, g, i, boxes) ==
  LET p == IF g = "knee" THEN c.knee ELSE [c[g] EXCEPT !.encoder = <<1, 1>>]
  IN Bounds({(IF g = "knee" THEN KneeToDrive(p, q) ELSE PairToDrive(p, q))[i] : q \in Corners(boxes)})

\* The box of a motor over the corners of its joints' limits.
MotorBox(c, g, i, boxes) == Bounds({ToDrive(c, g, q)[i] : q \in Corners(boxes)})

\* motor_limits of the report made of each calibration.
MotorLimits ==
  [r \in {i \in DOMAIN Calibrations : MapBuilt(i)} |->
     [g \in Groups |-> [i \in Axes(g) |->
        [soft |-> MotorBox(Calibrations[r], g, i, SoftJoints(g)),
         hard |-> MotorBox(Calibrations[r], g, i, Urdf[g])]]]]

\* The limits of a report, of every motor.
LimitsOf(r) == UNION {{MotorLimits[r][g][i] : i \in Axes(g)} : g \in Groups}

(***************************************************************************)
(* The worksheet and its inventory.                                        *)
(***************************************************************************)

\* What the operator measures and enters: the remaining fields of the
\* records, the adapter with its commissioning shadow, the IMU and the
\* e-stop.  Nameplates are there from the template.
Blocks == {"nameplates", "records", "adapter", "imu_estop"}

\* make_hardware_template: nothing measured, the differentials placeholders.
Template ==
  [configured |-> FALSE, filled |-> {"nameplates"}, calibration |-> 0,
   range |-> 0, readback |-> FALSE, limits |-> 0]

AdapterValid(s) == "adapter" \in s.filled
RecordsValid(s) ==
  /\ "records" \in s.filled /\ s.calibration # 0
  /\ s.limits # 0 /\ \A l \in LimitsOf(s.limits) : l.hard[1] <= l.soft[1] /\ l.soft[2] <= l.hard[2]
  /\ s.range # 0 /\ s.readback
NameplatesValid(s) == "nameplates" \in s.filled
SiteValid(s) == "imu_estop" \in s.filled
DifferentialsValid(s) ==
  s.calibration # 0 => \A g \in Pairs : /\ Calibrations[s.calibration][g].calibrated
                                        /\ Det(Calibrations[s.calibration][g].matrix) # 0

\* validate_hardware_inventory.
InventoryValid(s) ==
  AdapterValid(s) /\ RecordsValid(s) /\ NameplatesValid(s) /\ SiteValid(s) /\ DifferentialsValid(s)

\* What the runtime and the profiles ask for.
Armable(s) == s.configured /\ InventoryValid(s)

NoFiles == [motors |-> 0, range |-> 0, kinematics |-> 0, joints |-> 0]
NoRuntime == [kind |-> "none", calibration |-> 0, limits |-> 0, joints |-> 0, range |-> 0]
NoGoal == [kind |-> "none"]
NoFrame == [kind |-> "none"]

ContractInit ==
  /\ sheet = Template /\ derived = 0 /\ native = NoFiles
  /\ runtime = NoRuntime /\ goal = NoGoal /\ stateTick = 0 /\ frame = NoFrame

Offline == runtime = NoRuntime
SheetOnly == UNCHANGED <<derived, native, runtime, goal, stateTick, frame>>

\* hardware_template --force over the worksheet.
HardwareTemplate == Offline /\ sheet' = Template /\ SheetOnly

\* The operator completes a part of the sheet, or spoils the nameplates.
FillsIn ==
  /\ Offline
  /\ \/ \E b \in Blocks \ {"nameplates"} : sheet' = [sheet EXCEPT !.filled = @ \union {b}]
     \/ sheet' = [sheet EXCEPT !.filled = @ \ {"nameplates"}]
  /\ SheetOnly

\* apply_nameplates restores them from the models.
ApplyNameplates ==
  Offline /\ sheet' = [sheet EXCEPT !.filled = @ \union {"nameplates"}] /\ SheetOnly

\* ankle_calibrate reports and the operator enters, over an earlier
\* calibration too; a matrix not marked calibrated is still the placeholder.
Calibrates ==
  /\ Offline
  /\ \E i \in DOMAIN Calibrations :
       /\ \A g \in Pairs : Calibrations[i][g].calibrated => FitPasses(Calibrations[i][g])
       /\ sheet' = [sheet EXCEPT !.calibration = i]
  /\ SheetOnly

\* The ranges are read from the drives, or entered by hand.
RangesEntered ==
  /\ Offline
  /\ \E p \in PositionMax, read \in BOOLEAN : sheet' = [sheet EXCEPT !.range = p, !.readback = read]
  /\ SheetOnly

Configures == Offline /\ sheet' = [sheet EXCEPT !.configured = TRUE] /\ SheetOnly

\* derive_limit_candidates, on any sheet that has a map.
DeriveLimits ==
  /\ Offline /\ MapBuilt(sheet.calibration) /\ JointsDerive
  /\ derived' = sheet.calibration
  /\ UNCHANGED <<sheet, native, runtime, goal, stateTick, frame>>

\* apply_limit_candidates: what was derived, whatever the sheet holds since.
ApplyLimits ==
  /\ Offline /\ derived # 0
  /\ \A l \in LimitsOf(derived) : StrictlyWithin(l.soft, l.hard)
  /\ sheet' = [sheet EXCEPT !.limits = derived]
  /\ SheetOnly

(***************************************************************************)
(* The native files and their loader.                                      *)
(***************************************************************************)

\* export_native_motor_config asks for the fields it writes, nothing more.
ExportMotors ==
  /\ Offline /\ {"nameplates", "adapter"} \subseteq sheet.filled
  /\ sheet.limits # 0 /\ sheet.range # 0
  /\ native' = [native EXCEPT !.motors = sheet.limits, !.range = sheet.range]
  /\ UNCHANGED <<sheet, derived, runtime, goal, stateTick, frame>>

ExportKinematics ==
  /\ Offline /\ "adapter" \in sheet.filled /\ MapBuilt(sheet.calibration)
  /\ native' = [native EXCEPT !.kinematics = sheet.calibration]
  /\ UNCHANGED <<sheet, derived, runtime, goal, stateTick, frame>>

\* export_native_joint_safety_config takes the joint limits of the report.
ExportJoints ==
  /\ Offline /\ derived # 0
  /\ \A g \in Groups : \A i \in Axes(g) : Urdf[g][i][1] <= SoftJoint(g, i)[1] /\ SoftJoint(g, i)[2] <= Urdf[g][i][2]
  /\ native' = [native EXCEPT !.joints = derived]
  /\ UNCHANGED <<sheet, derived, runtime, goal, stateTick, frame>>

\* load_motors: soft limits strictly within the range and the hard limits.
NativeLoads ==
  /\ Offline /\ native.motors # 0 /\ native.kinematics # 0 /\ native.joints # 0
  /\ \A l \in LimitsOf(native.motors) : /\ StrictlyWithin(l.soft, <<-native.range, native.range>>)
                                        /\ StrictlyWithin(l.soft, l.hard)
  /\ runtime' = [kind |-> "native", calibration |-> native.kinematics,
                 limits |-> native.motors, joints |-> native.joints, range |-> native.range]
  /\ UNCHANGED <<sheet, derived, native, goal, stateTick, frame>>

(***************************************************************************)
(* The Python runtime: motor map, profiles, multi-rate controller.         *)
(***************************************************************************)

\* motor_map_from_hardware_config and command_profiles_from_hardware_config.
PythonLoads ==
  /\ Offline /\ Armable(sheet) /\ MapBuilt(sheet.calibration)
  /\ \A l \in LimitsOf(sheet.limits) : -sheet.range <= l.soft[1] /\ l.soft[2] <= sheet.range
  /\ runtime' = [kind |-> "python", calibration |-> sheet.calibration,
                 limits |-> sheet.limits, joints |-> sheet.limits, range |-> sheet.range]
  /\ UNCHANGED <<sheet, derived, native, goal, stateTick, frame>>

RuntimeEnds ==
  /\ ~Offline
  /\ runtime' = NoRuntime /\ goal' = NoGoal /\ stateTick' = 0 /\ frame' = NoFrame
  /\ UNCHANGED <<sheet, derived, native>>

\* latch_policy_target; a negative gain makes no target.
LatchTarget ==
  /\ runtime.kind = "python"
  /\ goal' \in {t \in Goals : \A g \in Groups : \A i \in Axes(g) : t.kp[g][i] >= 0}
  /\ UNCHANGED <<sheet, derived, native, runtime, stateTick, frame>>

\* What the gains and torques of a group's motors are multiplied by.
Square(c, g) == IF g = "knee" THEN SignedRatio(c.knee) * SignedRatio(c.knee) ELSE Det(Matrix(c[g])) * Det(Matrix(c[g]))

\* The impedance a target asks of the joints of a group.
Impedance(t, g, q) == [i \in Axes(g) |-> t.kp[g][i] * (t.position[g][i] - q[i]) + t.feedforward[g][i]]
Clipped(x, limit) == Max({-limit, Min({limit, x})})

KneeCommand(k, t) ==
  [position |-> KneeToDrive(k, t.position.knee), kp |-> t.kp.knee,
   feedforward |-> <<SignedRatio(k) * t.feedforward.knee[1]>>]

\* Mutant: the drives' own gains are all there is of the impedance.
EmbeddedOnly(p, t, q) ==
  LET m == Matrix(p)
      a == Adjugate(m)
      gain(i, j) == a[1][i] * t.kp.head[1] * a[1][j] + a[2][i] * t.kp.head[2] * a[2][j]
  IN [position |-> PairToDrive(p, t.position.head), kp |-> [i \in {1, 2} |-> gain(i, i)],
      feedforward |-> [i \in {1, 2} |-> Det(m) * Transposed(a, t.feedforward.head)[i]]]

\* joint_impedance_to_drive_commands: the drives hold the diagonal of the
\* motors' gain matrix, the host adds what couples them.
HeadCommands(p, t, q) ==
  LET m == Matrix(p)
      a == Adjugate(m)
      gain(i, j) == a[1][i] * t.kp.head[1] * a[1][j] + a[2][i] * t.kp.head[2] * a[2][j]
      desired == PairToDrive(p, t.position.head)
      error(i) == desired[i] - PairToDrive(p, q)[i]
  IN [position |-> desired, kp |-> [i \in {1, 2} |-> gain(i, i)],
      feedforward |-> [i \in {1, 2} |->
         gain(i, 3 - i) * error(3 - i) + Det(m) * Transposed(a, t.feedforward.head)[i]]]

\* _ankle_commands: all of the impedance, clipped, as torque of the motors.
AnkleCommands(p, t, q, d) ==
  LET m == Matrix(p)
      limited == [i \in {1, 2} |-> Clipped(Impedance(t, "ankle", q)[i], EffortLimit)]
  IN [position |-> d, kp |-> <<0, 0>>,
      feedforward |-> [i \in {1, 2} |-> Det(m) * Transposed(Adjugate(m), limited)[i]]]

\* The torque of an MIT command at a drive, which the encoder estimates too.
DriveTorque(command, d) ==
  [i \in DOMAIN d |-> command.kp[i] * (command.position[i] - d[i]) + command.feedforward[i]]

\* encode_damiao_mit_command within the envelope of its profile.
Encodes(c, g, command, d) ==
  \A i \in Axes(g) :
    /\ Within(command.position[i], MotorLimits[runtime.limits][g][i].soft)
    /\ Within(command.feedforward[i], <<-TorqueMax * Square(c, g), TorqueMax * Square(c, g)>>)
    /\ Within(DriveTorque(command, d)[i], <<-TorqueMax * Square(c, g), TorqueMax * Square(c, g)>>)

\* encode_multirate_command_frame: all of a frame or none of it.
FrameEncodes(c, commands, drives) == \A g \in DOMAIN commands : Encodes(c, g, commands[g], drives[g])

\* SpriteMultiRateController.step on what the drives measure at a
\* posture: the ankles at every tick, the other motors at those of the policy.
ControllerStep ==
  /\ runtime.kind = "python" /\ goal # NoGoal
  /\ \E posture \in Postures :
       LET c == Calibrations[runtime.calibration]
           drives == [g \in Groups |-> ToDrive(c, g, posture[g])]
           q == [g \in Groups |-> ToJoint(c, g, drives[g])]
           all == [knee |-> KneeCommand(c.knee, goal),
                   ankle |-> AnkleCommands(c.ankle, goal, q.ankle, drives.ankle),
                   head |-> HeadCommands(c.head, goal, q.head)]
           commands == [g \in IF stateTick = 0 THEN Groups ELSE {"ankle"} |-> all[g]]
       IN frame' = [kind |-> "frame", posture |-> posture, goal |-> goal,
                    commands |-> commands, encoded |-> FrameEncodes(c, commands, drives)]
  /\ stateTick' = (stateTick + 1) % TicksPerPolicy
  /\ UNCHANGED <<sheet, derived, native, runtime, goal>>

ContractNext ==
  \/ HardwareTemplate \/ FillsIn \/ ApplyNameplates \/ Calibrates \/ RangesEntered \/ Configures
  \/ DeriveLimits \/ ApplyLimits
  \/ ExportMotors \/ ExportKinematics \/ ExportJoints \/ NativeLoads
  \/ PythonLoads \/ LatchTarget \/ ControllerStep \/ RuntimeEnds

(***************************************************************************)
(* Properties.                                                             *)
(***************************************************************************)

\* The poses within the soft limits of a group's joints.
LegalPoses(g) ==
  IF g = "knee" THEN {<<x>> : x \in SoftJoint(g, 1)[1]..SoftJoint(g, 1)[2]}
  ELSE (SoftJoint(g, 1)[1]..SoftJoint(g, 1)[2]) \X (SoftJoint(g, 2)[1]..SoftJoint(g, 2)[2])

\* With the limits made of a calibration: what it maps the legal poses to.
Reached ==
  [r \in DOMAIN MotorLimits |-> [range \in PositionMax |->
     \A g \in Groups : \A q \in LegalPoses(g) :
       LET d == ToDrive(Calibrations[r], g, q)
       IN /\ \A i \in Axes(g) : /\ Within(d[i], MotorLimits[r][g][i].soft)
                                /\ Within(d[i], <<-range, range>>)
          /\ ToJoint(Calibrations[r], g, d) = q]]

\* Whichever runtime has loaded, and by whatever steps its files came about:
\* if its limits were derived from the calibration it maps with, then every
\* pose within the joints' soft limits, and not only their corners, lies
\* within the soft limits and the register range of every motor, and what the
\* drives then measure is that pose again (derive_limit_candidates,
\* apply_limit_candidates, the exports, DamiaoMitCommandProfile).
LegalPosesReachTheDrives ==
  runtime.kind # "none" /\ runtime.limits = runtime.calibration /\ runtime.joints = runtime.limits =>
    Reached[runtime.calibration][runtime.range]

\* A frame that reaches the transport makes the joints feel the impedance of
\* the latched target at the measured posture, clipped at the ankles, however
\* it is split between the drives' gains and the host, behind whatever signs,
\* ratios and matrices (SpriteMultiRateController.step, motor_mapping.py).
FramesCarryTheImpedance ==
  frame.kind = "frame" /\ frame.encoded =>
    LET c == Calibrations[runtime.calibration]
    IN \A g \in DOMAIN frame.commands :
         LET asked == Impedance(frame.goal, g, frame.posture[g])
             torque == DriveTorque(frame.commands[g], ToDrive(c, g, frame.posture[g]))
         IN \A i \in Axes(g) :
              TorqueAtJoints(c, g, torque)[i]
                = Square(c, g) * (IF g = "ankle" THEN Clipped(asked[i], EffortLimit) ELSE asked[i])
=============================================================================
