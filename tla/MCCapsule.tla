----------------------------- MODULE MCCapsule -----------------------------
EXTENDS Capsule
=============================================================================
