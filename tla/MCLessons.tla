----------------------------- MODULE MCLessons -----------------------------
EXTENDS Lessons
CONSTANTS p1, s1, s2, d1, r1, r2, b1, b2
=============================================================================
