---------------------------- MODULE MCPrismaDemo ----------------------------
(* An instance of PrismaDemo: requests of any kinds. *)
EXTENDS PrismaDemo, TLC

Symmetric == Permutations(Req)
=============================================================================
