------------------------- MODULE DriveCommissioning -------------------------
(***************************************************************************)
(* The tools that read and set what the drives keep: the two read-only     *)
(* register audits, the tool that installs the ranges they read in the     *)
(* hardware contract, and the command that stores the zero of the head     *)
(* (damiao_registers.py, socketcan.py, cli.py and their scripts).          *)
(*                                                                         *)
(* A register is asked for and answered on one bus.  A request or its      *)
(* answer may be lost, or be so late that the next request, of the same    *)
(* register or of another one, is out before it.  A value is the pair of   *)
(* the motor and the register it was really read from.                     *)
(***************************************************************************)
EXTENDS Integers, Sequences

CONSTANTS
  Drives,       \* motors
  Addresses,    \* registers of an audit (3 ranges, 6 of commissioning)
  Retries,      \* retries
  MaxReceived,  \* frames the socket holds (a bound of the model)
  MaxStrange    \* frames that answer no request, and drives that trip (a bound)

ASSUME CommissioningAssumption == Drives \in Nat \ {0} /\ Addresses \in Nat \ {0}

MotorIds == 1..Drives
Registers == 1..Addresses
NoValue == <<0, 0>>
Nothing == [m \in MotorIds |-> [r \in Registers |-> NoValue]]

VARIABLES
  script,    \* the tool: "ranges", "commissioning" or "zero"
  gate,      \* its confirmations, and the snapshot file
  at,        \* where it is: motor, register, attempts of this register
  pending,   \* requests each drive has still to answer
  received,  \* frames the socket holds
  strange,   \* strange frames and trips so far
  wrong,     \* a register that holds no valid value, or None
  values,    \* the values of the report
  contract,  \* the mit_ranges of the hardware contract
  status,    \* status of each drive
  stored,    \* the drives whose zero is where the head stands
  verified,  \* the motors the zero report lists as verified
  outcome    \* "running", "refused", "raised", "passed", "failed", "installed"

commissioningVars ==
  <<script, gate, at, pending, received, strange, wrong, values, contract, status, stored, verified, outcome>>

CommissioningInit ==
  /\ script \in {"ranges", "commissioning", "zero"}
  /\ gate \in [confirmed : BOOLEAN, active : BOOLEAN]
  /\ at = [pc |-> "start", motor |-> 1, register |-> 1, attempt |-> 0]
  /\ pending = [m \in MotorIds |-> <<>>] /\ received = <<>> /\ strange = 0
  /\ wrong \in {NoValue} \union (MotorIds \X Registers)
  /\ values = Nothing /\ contract = Nothing
  /\ status \in [MotorIds -> {"disabled", "enabled", "silent"}]
  /\ (script = "zero" => wrong = NoValue) /\ (script # "zero" => status \in [MotorIds -> {"disabled"}])
  /\ stored \in SUBSET MotorIds /\ (script # "zero" => stored = {}) /\ verified = {}
  /\ outcome = "running"

InStep(pc) == outcome = "running" /\ at.pc = pc

\* Confirmations, acknowledgement, endpoints of the head, preflight.
Admitted == gate.confirmed /\ gate.active

Enter ==
  /\ InStep("start")
  /\ IF Admitted
     THEN at' = [at EXCEPT !.pc = IF script = "zero" THEN "before" ELSE "ask"] /\ UNCHANGED outcome
     ELSE outcome' = "refused" /\ UNCHANGED at
  /\ UNCHANGED <<script, gate, pending, received, strange, wrong, values, contract, status, stored, verified>>

(***************************************************************************)
(* The register audits.                                                    *)
(***************************************************************************)

Answer(m, r) == [kind |-> "read", motor |-> m, register |-> r]

\* The request of one attempt.
SendRequest ==
  /\ InStep("ask") /\ at.attempt < Retries
  /\ \/ pending' = [pending EXCEPT ![at.motor] = Append(@, at.register)]
     \/ UNCHANGED pending
  /\ at' = [at EXCEPT !.attempt = @ + 1, !.pc = "wait"]
  /\ UNCHANGED <<script, gate, received, strange, wrong, values, contract, status, stored, verified, outcome>>

\* No attempt was answered, or the kernel refuses the request.
GivesUp ==
  /\ InStep("ask")
  /\ outcome' = "raised"
  /\ UNCHANGED <<script, gate, at, pending, received, strange, wrong, values, contract, status, stored, verified>>

DriveAnswers(m) ==
  /\ pending[m] # <<>> /\ Len(received) < MaxReceived /\ outcome = "running"
  /\ pending' = [pending EXCEPT ![m] = Tail(@)]
  /\ \/ received' = Append(received, Answer(m, Head(pending[m])))
     \/ UNCHANGED received
  /\ UNCHANGED <<script, gate, at, strange, wrong, values, contract, status, stored, verified, outcome>>

\* A frame of a motor that answers no request: feedback another controller
\* asked for, a frame that is not CAN-FD, or one without a timestamp; or a
\* request of another reader.
StrangeFrame(m) ==
  /\ InStep("wait") /\ strange < MaxStrange /\ Len(received) < MaxReceived
  /\ \E kind \in {"feedback", "classic", "stampless", "request"} :
       received' = Append(received, [kind |-> kind, motor |-> m, register |-> at.register])
  /\ strange' = strange + 1
  /\ UNCHANGED <<script, gate, at, pending, wrong, values, contract, status, stored, verified, outcome>>

\* Mutant: decode_read_response does not compare the register.
RefusedByKind(frame) == frame.kind # "read" \/ wrong = <<frame.motor, frame.register>>

\* decode_read_response raises: what the motor sent is no answer to this
\* request, or its value is not finite and positive.
Refused(frame) ==
  \/ frame.kind # "read"
  \/ frame.register # at.register
  \/ wrong = <<frame.motor, frame.register>>

\* decode_commissioning_read_response: the versions may have any value.
VersionRegisters == {Addresses}
CommissioningRefused(frame) ==
  \/ frame.kind # "read"
  \/ frame.register # at.register
  \/ frame.register \notin VersionRegisters /\ wrong = <<frame.motor, frame.register>>

\* The next register of the motor, the first of the next motor, or the end.
Following(a) ==
  IF a.register < Addresses THEN [a EXCEPT !.pc = "ask", !.register = @ + 1, !.attempt = 0]
  ELSE IF a.motor < Drives
       THEN [pc |-> "ask", motor |-> a.motor + 1, register |-> 1, attempt |-> 0]
       ELSE [a EXCEPT !.pc = "done"]

\* One frame: discarded, skipped, refused, or the value.
Receive ==
  LET frame == Head(received)
      raises == IF script = "ranges" THEN Refused(frame) ELSE CommissioningRefused(frame)
  IN /\ InStep("wait") /\ received # <<>>
     /\ received' = Tail(received)
     /\ IF frame.kind \in {"stampless", "request"} \/ frame.motor # at.motor
        THEN UNCHANGED <<at, values, outcome>>
        ELSE IF raises THEN outcome' = "raised" /\ UNCHANGED <<at, values>>
        ELSE /\ values' = [values EXCEPT ![at.motor][at.register] = <<frame.motor, frame.register>>]
             /\ at' = Following(at) /\ UNCHANGED outcome
     /\ UNCHANGED <<script, gate, pending, strange, wrong, contract, status, stored, verified>>

\* The deadline of an attempt, with or without frames left.
TimesOut ==
  /\ InStep("wait")
  /\ at' = [at EXCEPT !.pc = "ask"]
  /\ UNCHANGED <<script, gate, pending, received, strange, wrong, values, contract, status, stored, verified, outcome>>

ReportRegisters ==
  /\ InStep("done")
  /\ outcome' = "passed"
  /\ UNCHANGED <<script, gate, at, pending, received, strange, wrong, values, contract, status, stored, verified>>

\* apply_damiao_mit_range_readback: only a passed report of the ranges that
\* covers the motor map.
Apply ==
  /\ outcome = "passed" /\ script = "ranges"
  /\ contract' = values
  /\ outcome' = "installed"
  /\ UNCHANGED <<script, gate, at, pending, received, strange, wrong, values, status, stored, verified>>

(***************************************************************************)
(* The zero of the head: one motor after the other.                        *)
(***************************************************************************)

\* A position-echo probe passes, with "disabled" as its only status.
Disabled(m) == status[m] = "disabled"

Before ==
  /\ InStep("before")
  /\ \/ Disabled(at.motor) /\ at' = [at EXCEPT !.pc = "write"] /\ UNCHANGED outcome
     \/ outcome' = "raised" /\ UNCHANGED at
  /\ UNCHANGED <<script, gate, pending, received, strange, wrong, values, contract, status, stored, verified>>

\* The frame is lost, or the drive stores its zero, whatever its status.
SetZero ==
  /\ InStep("write")
  /\ \/ /\ stored' \in {stored, stored \union ({at.motor} \ {m \in MotorIds : status[m] = "silent"})}
        /\ at' = [at EXCEPT !.pc = "after"] /\ UNCHANGED outcome
     \/ outcome' = "raised" /\ UNCHANGED <<at, stored>>
  /\ UNCHANGED <<script, gate, pending, received, strange, wrong, values, contract, status, verified>>

\* Mutant: the position is not looked at.
VerifiedByStatus(m) == Disabled(m)

\* Disabled, and at zero.
Verified(m) == Disabled(m) /\ m \in stored

\* The first motor that does not verify ends the command.
After ==
  /\ InStep("after")
  /\ \/ /\ Verified(at.motor)
        /\ verified' = verified \union {at.motor}
        /\ at' = IF at.motor < Drives THEN [at EXCEPT !.motor = @ + 1, !.pc = "before"]
                 ELSE [at EXCEPT !.pc = "done"]
        /\ outcome' = IF at.motor < Drives THEN outcome ELSE "passed"
     \/ outcome' = "failed" /\ UNCHANGED <<at, verified>>
  /\ UNCHANGED <<script, gate, pending, received, strange, wrong, values, contract, status, stored>>

\* A drive is switched on or off, or fails, while the head is zeroed.
DriveTurns(m) ==
  /\ script = "zero" /\ outcome = "running" /\ strange < MaxStrange
  /\ \E s \in {"disabled", "enabled", "silent"} : status' = [status EXCEPT ![m] = s]
  /\ strange' = strange + 1
  /\ UNCHANGED <<script, gate, at, pending, received, wrong, values, contract, stored, verified, outcome>>

CommissioningNext ==
  \/ Enter \/ SendRequest \/ GivesUp \/ Receive \/ TimesOut \/ ReportRegisters \/ Apply
  \/ Before \/ SetZero \/ After
  \/ \E m \in MotorIds : DriveAnswers(m) \/ StrangeFrame(m) \/ DriveTurns(m)

(***************************************************************************)
(* What holds.                                                             *)
(***************************************************************************)

\* The ranges the contract gets are those of the motor and the register they
\* are filed under, however late answers come and whatever else the drives
\* send (decode_read_response, apply_mit_range_readback).
InstalledRangesAreTrue ==
  \A m \in MotorIds, r \in Registers : contract[m][r] \in {NoValue, <<m, r>>}

\* A command that passed has stored both zeros, though a set-zero frame may
\* be lost, a drive may be enabled or dead by then, and one motor may fail
\* after the other was written (damiao_set_head_zero).
ZeroedHeadIsZero == (script = "zero" /\ outcome = "passed") => stored = MotorIds
=============================================================================
