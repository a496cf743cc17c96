-------------------------- MODULE MCVelocityLimit --------------------------
\* VelocityLimit in tenths of m/s and rad/s, with commands beyond every limit.
EXTENDS VelocityLimit

MCSpeeds == {-7, -5, -4, 0, 1, 2, 3, 6}
=============================================================================
