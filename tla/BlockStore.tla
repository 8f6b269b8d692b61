----------------------------- MODULE BlockStore ------------------------------
(***************************************************************************)
(* What the host may expect of its read and write commands: a store of     *)
(* NVMe blocks.  The blocks of a command move in several portions, each    *)
(* exactly once, and one command is finished before the next one starts.   *)
(* A read leaves the store as it is.                                       *)
(***************************************************************************)
EXTENDS Integers

CONSTANTS
    BLOCKS,         \* capacity in NVMe blocks
    Lengths,        \* of commands, in blocks
    Sources,        \* host buffers of write commands: what is in each block
    Data,           \* contents of a block
    UNWRITTEN, NoCommand

VARIABLES
    store,          \* what was last written to each block
    command,        \* the command under way: code, first block, blocks, source
    left            \* the command's blocks that have not moved

Commands ==
    {c \in [code : {"read"}, start : 0 .. BLOCKS - 1, n : Lengths]
           \cup [code : {"write"}, start : 0 .. BLOCKS - 1, n : Lengths, source : Sources] :
        c.start + c.n <= BLOCKS}

Init ==
    /\ store = [a \in 0 .. BLOCKS - 1 |-> UNWRITTEN]
    /\ command = NoCommand
    /\ left = {}

Submit(c) ==
    /\ left = {}
    /\ command' = c
    /\ left' = 0 .. c.n - 1
    /\ UNCHANGED store

MoveIn(moved) ==
    /\ command.code = "write"
    /\ store' = [a \in DOMAIN store |->
                   IF a - command.start \in moved THEN command.source[a - command.start] ELSE store[a]]

MoveOut == command.code = "read" /\ UNCHANGED store

Move(moved) ==
    /\ left # {}
    /\ moved # {}
    /\ MoveIn(moved) \/ MoveOut
    /\ left' = left \ moved
    /\ command' = IF left' = {} THEN NoCommand ELSE command

Next == (\E c \in Commands : Submit(c)) \/ (\E moved \in SUBSET left : Move(moved))

vars == <<store, command, left>>
Spec == Init /\ [][Next]_vars
=============================================================================
