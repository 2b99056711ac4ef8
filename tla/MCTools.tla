------------------------------ MODULE MCTools ------------------------------
(***************************************************************************)
(* What surrounds an agent, for TLC, side by side: McpSessionPool,         *)
(* Subagents, CircuitBreaker, SandboxProvider and Channels.  A behaviour   *)
(* is about one of the five, the others rest.  The sandboxes have two      *)
(* threads and one fault, or one thread, more faults and two ghosts.       *)
(***************************************************************************)
EXTENDS McpSessionPool, Subagents, CircuitBreaker, SandboxProvider, Channels, TLC
CONSTANTS main, short, t1, t2, c1, c2, c3, pr, th1, th2, m1, m2, n, g1, g2
VARIABLE part

toolsVars == <<part, poolVars, subagentVars, breakerVars, sandboxVars, channelVars>>

\* Only one thread has had sandboxes, two at most.
OneThread ==
    \E t \in Threads :
        /\ infos[t] <= 2
        /\ \A s \in Slots : s[2] # t => infos[s[2]] = 0 /\ acq[s].pc = "none"

\* Two threads have few sandboxes, and fewer while a ghost is about.
FewSandboxes ==
    /\ \A t \in Threads : infos[t] <= 2
    /\ (\E s \in Slots : s[3] \in Ghosts /\ acq[s].pc # "none") => infos[th1] + infos[th2] <= 2

MCInit ==
    /\ part \in {"mcp", "subagents", "breaker", "sandbox", "ghosts", "channels"}
    /\ McpInit /\ SubagentsInit /\ BreakerInit /\ SandboxInit /\ ChannelsInit

MCNext ==
    \/ /\ part = "mcp" /\ McpNext
       /\ UNCHANGED <<part, subagentVars, breakerVars, sandboxVars, channelVars>>
    \/ /\ part = "subagents" /\ SubagentsNext
       /\ UNCHANGED <<part, poolVars, breakerVars, sandboxVars, channelVars>>
    \/ /\ part = "breaker" /\ BreakerNext
       /\ UNCHANGED <<part, poolVars, subagentVars, sandboxVars, channelVars>>
    \/ /\ part = "sandbox" /\ SandboxNext /\ faults' <= 1 /\ FewSandboxes'
       /\ UNCHANGED <<part, poolVars, subagentVars, breakerVars, channelVars>>
    \/ /\ part = "ghosts" /\ SandboxNext /\ OneThread'
       /\ UNCHANGED <<part, poolVars, subagentVars, breakerVars, channelVars>>
    \/ /\ part = "channels" /\ ChannelsNext
       /\ UNCHANGED <<part, poolVars, subagentVars, breakerVars, sandboxVars>>

MCSpec == MCInit /\ [][MCNext]_toolsVars

\* The threads of the sandboxes are alike, and so are the ghosts.
Alike == Permutations({th1, th2}) \cup Permutations({g1, g2})
=============================================================================
