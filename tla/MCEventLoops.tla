----------------------------- MODULE MCEventLoops -----------------------------
(***************************************************************************)
(* The event loops of 9-3, 9-4 and 10-1 for TLC, one at a time: the first  *)
(* state picks the program, and the variables of the others rest.          *)
(***************************************************************************)
EXTENDS LevelEdge, OneShot, UniformEvents, TLC

VARIABLE program

levelEdgeVars == <<mode, batch, cur>>
loopVars == <<kernelVars, levelEdgeVars, oneShotVars, uniformVars, program>>

LevelEdgeUnused == mode = "invalid" /\ batch = {} /\ cur = NoFd
OneShotUnused ==
    /\ fired = {} /\ argument = Nothing /\ dropped = {}
    /\ meant = [t \in Threads |-> Nothing] /\ sockfd = [t \in Threads |-> Nothing]
    /\ again = {}
    /\ mixed = TRUE

LoopInit ==
    \/ program = "9-3" /\ Init /\ OneShotUnused /\ UniformRest
    \/ program = "9-4" /\ OneShotInit /\ LevelEdgeUnused /\ UniformRest
    \/ program = "10-1" /\ UniformInit /\ LevelEdgeUnused /\ OneShotUnused

Only(p) ==
    /\ program = p
    /\ program' = p
    /\ p # "9-3" => UNCHANGED levelEdgeVars
    /\ p # "9-4" => UNCHANGED oneShotVars
    /\ p # "10-1" => UNCHANGED uniformVars

LoopNext ==
    \/ Next /\ Only("9-3")
    \/ OneShotNext /\ Only("9-4")
    \/ UniformNext /\ Only("10-1")

\* Threads run, and the kernel delivers signals.
LoopSpec ==
    /\ LoopInit /\ [][LoopNext]_loopVars
    /\ WF_loopVars(Server /\ Only("9-3"))
    /\ WF_loopVars(OneShotLoop /\ Only("9-4"))
    /\ \A t \in Threads : WF_loopVars(OneShotWorker(t) /\ Only("9-4"))
    /\ WF_loopVars(UniformLoop /\ Only("10-1"))
    /\ \A s \in Signals : WF_loopVars(sig_handler(s) /\ Only("10-1"))
=============================================================================
