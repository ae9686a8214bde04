--------------------------- MODULE MCPluginLifecycle ---------------------------
EXTENDS PluginLifecycle, TLC

Symmetry ==
    Permutations(Replicas) \cup Permutations(Requests) \cup Permutations(Binaries)
        \cup Permutations(Configs)
=============================================================================
