------------------------------- MODULE MCBench -------------------------------
\* Values of the constants of Bench for TLC.
EXTENDS Bench

\* At rest, on the torque-speed line at the rated point, and above it.
TheSamples == {Sample("finite", 0, 0), Sample("finite", 1, 2), Sample("finite", 1, 3)}

Pair(zero, encoder, matrix, offset, calibrated) ==
  [zero |-> zero, encoder |-> encoder, matrix |-> matrix, offset |-> offset, calibrated |-> calibrated]

\* The placeholder of the template, and two robots.
Placeholder == << <<1, 1>>, <<1, -1>> >>
TheCalibrations == <<
  [knee |-> [zero |-> <<1>>, encoder |-> <<1>>, policy |-> -1, ratio |-> 2],
   ankle |-> Pair(<<0, 1>>, <<1, -1>>, << <<1, 1>>, <<1, -1>> >>, <<1, 0>>, TRUE),
   head |-> Pair(<<1, 0>>, <<-1, 1>>, << <<2, 1>>, <<-1, 1>> >>, <<0, 0>>, TRUE)],
  [knee |-> [zero |-> <<1>>, encoder |-> <<1>>, policy |-> -1, ratio |-> 4],
   ankle |-> Pair(<<0, 1>>, <<1, -1>>, Placeholder, <<0, 0>>, FALSE),
   head |-> Pair(<<1, 0>>, <<-1, 1>>, Placeholder, <<0, 0>>, FALSE)],
  [knee |-> [zero |-> <<0>>, encoder |-> <<-1>>, policy |-> -1, ratio |-> 1],
   ankle |-> Pair(<<1, 1>>, <<-1, -1>>, << <<1, -1>>, <<2, 1>> >>, <<0, 1>>, TRUE),
   head |-> Pair(<<0, 0>>, <<1, 1>>, << <<1, 0>>, <<1, -2>> >>, <<0, -1>>, TRUE)] >>

TheUrdf == [knee |-> << <<-2, 3>> >>, ankle |-> << <<-2, 2>>, <<-3, 2>> >>, head |-> << <<-2, 3>>, <<-2, 2>> >>]
TheOverrides == [joint \in {<<"ankle", 2>>} |-> <<-2, 0>>]

Goal(knee, ankle, head, kp, feedforward) ==
  [kind |-> "goal", position |-> [knee |-> knee, ankle |-> ankle, head |-> head],
   kp |-> [knee |-> <<kp>>, ankle |-> <<kp, 2 * kp>>, head |-> <<kp, 3 * kp>>],
   feedforward |-> [knee |-> <<feedforward>>, ankle |-> <<feedforward, 0>>, head |-> <<0, feedforward>>]]

TheGoals == {Goal(<<0>>, <<0, 0>>, <<0, 0>>, 1, 0), Goal(<<1>>, <<1, -1>>, <<1, -1>>, 2, 1),
             Goal(<<2>>, <<-1, -2>>, <<2, 1>>, 1, -1), Goal(<<0>>, <<0, 0>>, <<0, 0>>, -1, 0)}
ThePostures == {[knee |-> <<1>>, ankle |-> <<1, -2>>, head |-> <<1, 1>>],
                [knee |-> <<-1>>, ankle |-> <<-1, 0>>, head |-> <<2, -1>>]}
==============================================================================
