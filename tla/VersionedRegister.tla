--------------------------- MODULE VersionedRegister ---------------------------
(***************************************************************************)
(* What the Memory Fabric promises of a logical record on its guarded      *)
(* nodes, with no threads, requests, failures or retries: on each node the *)
(* record only ever moves to a higher version, and whoever was told that a *)
(* version is stored there was told so after it got there, of one record   *)
(* for each version.                                                       *)
(***************************************************************************)
EXTENDS Naturals

CONSTANT Nodes

VARIABLES
    copy,     \* each node's record: its version, 0 when there is none, and checksum
    promised  \* what callers were told: [node, version, checksum]

Init ==
    /\ copy = [n \in Nodes |-> [version |-> 0, checksum |-> 0]]
    /\ promised = {}

\* The record on node n is replaced by a newer one.
Move(n) ==
    /\ copy'[n].version > copy[n].version
    /\ copy' = [copy EXCEPT ![n] = copy'[n]]
    /\ UNCHANGED promised

\* Node p.node has, or had, the record p.
Reached(p) ==
    \/ copy[p.node].version > p.version
    \/ copy[p.node].version = p.version /\ copy[p.node].checksum = p.checksum

\* Callers are told of records that are stored.
Promise ==
    /\ promised \subseteq promised'
    /\ \A p \in promised' \ promised : Reached(p)
    /\ \A p, q \in promised' :
         p.node = q.node /\ p.version = q.version => p.checksum = q.checksum
    /\ UNCHANGED copy

Next == Promise \/ \E n \in Nodes : Move(n)

Spec == Init /\ [][Next]_<<copy, promised>>
=============================================================================
