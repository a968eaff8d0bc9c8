---------------------------- MODULE MCBurstQueue ----------------------------
\* Model values for BurstQueue: three handler goroutines, two users, two
\* slots, so that a user at the cap, a full channel and a wait that times
\* out all occur.
EXTENDS BurstQueue

CONSTANTS r1, r2, r3, alice, bob

MCRequests == {r1, r2, r3}
MCUsers == {alice, bob}
=============================================================================
