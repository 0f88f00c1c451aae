------------------------------- MODULE Driver -------------------------------
(***************************************************************************)
(* What the scripts that drive the state transitions have in common: one   *)
(* process at a time, with its copy of the batch file.                     *)
(***************************************************************************)
EXTENDS Nethermind

CONSTANT MaxDrivers   \* bound: how often a driver is started

VARIABLES
    script,   \* the script the operator runs
    pc,       \* the next step of the process, "off" when there is none
    batches,  \* its copy of the batch file
    key,      \* the key of the batch it works on
    base,     \* the head it builds on
    built,    \* the block built for the batch
    count,    \* the attempts made for the batch, or the endpoints passed
    drivers,  \* how often it was started
    unadopted \* history: the blocks that did not become the head when asked to

memory == <<batches, key, base, built, count>>
history == <<drivers, unadopted>>
driver == <<pc, memory, history>>

DriverInit ==
    /\ pc = "off" /\ batches = Empty /\ key = 0
    /\ base = << >> /\ built = << >> /\ count = 0
    /\ drivers = 0
    /\ unadopted = {}

Off ==
    /\ pc' = "off" /\ batches' = Empty /\ key' = 0
    /\ base' = << >> /\ built' = << >> /\ count' = 0

\* The batch the process works on, and its transactions.
Current     == batches[key].batch
ExpectedTxs == Txs[Current]

\* The copy with the blockhash of the batch.
Recorded == [batches EXCEPT ![key].block = built]

\* An exception that nothing catches, an exit on an error, or a kill.
Die == pc # "off" /\ Off /\ UNCHANGED <<disk, node, history>>
=============================================================================
