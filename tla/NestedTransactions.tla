-------------------------- MODULE NestedTransactions --------------------------
(***************************************************************************)
(* What FLSqlCursor::transaction, commit and rollback promise: each level  *)
(* remembers the table as it was when the level began; rolling a level     *)
(* back restores exactly that table, committing an inner level hands its   *)
(* work to the level around it, and only the outermost commit, or a write  *)
(* outside any transaction, changes what is durable.                       *)
(***************************************************************************)
EXTENDS Sequences, Naturals

CONSTANT Tables

VARIABLES
    table, durable,
    stack,   \* the table as it was when each open level began
    last     \* the operation that led here

vars == <<table, durable, stack, last>>

Init ==
    /\ table \in Tables
    /\ durable = table
    /\ stack = <<>>
    /\ last = "write"

Pop == stack' = SubSeq(stack, 1, Len(stack) - 1)

Begin ==
    /\ last' = "begin"
    /\ stack' = Append(stack, table)
    /\ UNCHANGED <<table, durable>>

Write ==
    /\ last' = "write"
    /\ table' \in Tables
    /\ durable' = IF stack = <<>> THEN table' ELSE durable
    /\ UNCHANGED stack

Commit ==
    /\ last' = "commit"
    /\ stack # <<>> /\ Pop
    /\ durable' = IF Len(stack) = 1 THEN table ELSE durable
    /\ UNCHANGED table

Rollback ==
    /\ last' = "rollback"
    /\ stack # <<>> /\ Pop
    /\ table' = stack[Len(stack)]
    /\ UNCHANGED durable

\* the connection or the process is gone, and with it what was not durable
Lose ==
    /\ last' = "lose"
    /\ stack' = <<>>
    /\ table' = durable
    /\ UNCHANGED durable

Next == Begin \/ Write \/ Commit \/ Rollback \/ Lose

Spec == Init /\ [][Next]_vars

=============================================================================
