----------------------------- MODULE MCMemory ------------------------------
(***************************************************************************)
(* The frame pool, on a memory map of two regions of which neither is a    *)
(* whole number of the largest blocks, and the areas of one process.  part *)
(* names the one that a behaviour is about, the other stands still.        *)
(***************************************************************************)
EXTENDS FramePool, Areas

CONSTANT Parts

VARIABLE part

MCMaxOrder == 2
MCBlockFrames == [o \in 0 .. MCMaxOrder |-> 2 ^ o]
MCRAM == (3 .. 8) \cup (10 .. 11)
MCArWorkloads == {{}, {"file"}, {"hint"}, {"part"}, {"advise"}, {"oom"}}

MemVars == <<part, vars, arVars>>

MemInit ==
    /\ part \in Parts
    /\ Init
    /\ ArInit /\ (part # "areas" => ar_work = {})

MemNext ==
    /\ UNCHANGED part
    /\ \/ part = "frames" /\ Next   /\ UNCHANGED arVars
       \/ part = "areas"  /\ ArNext /\ UNCHANGED vars

MemSpec == MemInit /\ [][MemNext]_MemVars
=============================================================================
