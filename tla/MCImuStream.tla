----------------------------- MODULE MCImuStream -----------------------------
EXTENDS ImuStream

Motion(a, g) == [accel |-> a, gyro |-> g, temp |-> -27]

\* At rest on two sides with a small rate of either sign, turned slowly, and
\* shaken until both sensors saturate.
MCMotions ==
  {Motion(<<0, 0, 16>>, <<-1, 0, 0>>), Motion(<<0, -16, 0>>, <<1, 0, 1>>),
   Motion(<<0, 0, 16>>, <<-2, 0, 0>>),
   Motion(<<-32, -32, -32>>, <<-32, -32, -32>>)}
=============================================================================
