--------------------------- MODULE MCMotionRuntime ---------------------------
\* MotionRuntime on a small clock.  The budgets keep one and two callbacks per
\* iteration apart from none; every freshness limit can be met and missed.
EXTENDS MotionRuntime
=============================================================================
