---------------------------- MODULE MCVcpuSched ----------------------------
EXTENDS VcpuSched, TLC

AgentSymmetry == Permutations(Agents)

=============================================================================
