----------------------------- MODULE MCRenderPool -----------------------------
(* A small instance of RenderPool for TLC.                                     *)
EXTENDS RenderPool

CONSTANTS r1, r2, r3, r4

Host(override, v2, v1, affinity) ==
    [override |-> override, v2 |-> v2, v1 |-> v1, affinity |-> affinity, cores |-> 0]

(* Pools of two processes and of one: an explicit size, three and a half CPUs  *)
(* under cgroup v2, half a CPU under v1, one CPU and nothing known.            *)
SmallHosts ==
    {Host(2, <<>>, <<>>, 8), Host(0, <<350, 100>>, <<>>, 8),
     Host(0, <<>>, <<50, 100>>, 8), Host(0, <<>>, <<-1, 100>>, 1), Host(0, <<>>, <<>>, 0)}
===============================================================================
