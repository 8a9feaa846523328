---------------------------- MODULE MCResolvers ----------------------------
EXTENDS Resolvers, TLC

CONSTANTS r1, r2, r3, r4

MCResolver == {r1, r2, r3, r4}
=============================================================================
