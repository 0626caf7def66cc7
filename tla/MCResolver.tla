----------------------------- MODULE MCResolver -----------------------------
EXTENDS Resolver
=============================================================================
