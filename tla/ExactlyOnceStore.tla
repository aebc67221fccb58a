--------------------------- MODULE ExactlyOnceStore ---------------------------
(***************************************************************************)
(* What executeVersionedMutation promises: a store whose commands take     *)
(* effect atomically, at most once per idempotency key, and only against   *)
(* the version the client saw.  Code outside it creates aggregates and, of *)
(* some kinds, moves their versions on between two commands.               *)
(***************************************************************************)
EXTENDS Naturals

CONSTANTS Agg, Synced, Command

VARIABLES
    version,   \* the current version of each aggregate, 0 before it exists
    applied    \* the commands that took effect, with the version they made

svars == <<version, applied>>

Unused(key) == \A m \in applied : m.cmd.key # key

StoreInit == version = [a \in Agg |-> 0] /\ applied = {}

Apply(c) ==
    /\ Unused(c.key)
    /\ version[c.agg] = c.expected
    /\ version' = [version EXCEPT ![c.agg] = c.expected + 1]
    /\ applied' = applied \union {[cmd |-> c, version |-> c.expected + 1]}

\* Other code moves the version of an aggregate, forwards only: one that it
\* creates, or one of a kind whose rows it also writes.
Elsewhere(a) ==
    /\ version[a] = 0 \/ a \in Synced
    /\ version'[a] \in Nat /\ version'[a] > version[a]
    /\ version' = [version EXCEPT ![a] = version'[a]]
    /\ UNCHANGED applied

StoreNext == (\E c \in Command : Apply(c)) \/ (\E a \in Agg : Elsewhere(a))

StoreSpec == StoreInit /\ [][StoreNext]_svars
===============================================================================
