--------------------------- MODULE MCExternalDdr ---------------------------
(***************************************************************************)
(* Two clients, memfds of 1 to 3 units, 3 units for each owner and 4 for   *)
(* all.                                                                    *)
(***************************************************************************)
EXTENDS ExternalDdr, TLC

CONSTANTS p1, p2, m1, m2, m3, m4, b1, b2, v1, v2

MCSize == [m \in Inode |-> CASE m \in {m1, m3} -> 2 [] m = m2 -> 1 [] m = m4 -> 3]

\* Every write succeeds here; CopyWork's runs make them fail.
NoFaults == {{}}

\* p1 owns one backing; p2 imports it, also through a view it already holds.
OneOwner == {[owner |-> p1, ino |-> m1, purpose |-> "Immutable"]}
OneReader == [object : {b1}, accessor : {p2}, parent : View \cup {None}]

\* p1 registers an anchor and staging memory, p2 the memfd of the latter.
TwoOwners == {[owner |-> p1, ino |-> m1, purpose |-> "Immutable"],
              [owner |-> p1, ino |-> m2, purpose |-> "Staging"],
              [owner |-> p2, ino |-> m2, purpose |-> "Immutable"]}
\* With m3, p1 would pass its own limit; m1 and m4 together pass the limit of
\* all; p2 also offers p1's anchor.
Competing == TwoOwners \cup
             {[owner |-> p1, ino |-> m3, purpose |-> "Staging"],
              [owner |-> p2, ino |-> m4, purpose |-> "Immutable"],
              [owner |-> p2, ino |-> m1, purpose |-> "Immutable"]}

Direct == [object : Backing, accessor : {p2}, parent : {None}]

\* p2 imports what is registered, also through a view it already holds.
Readers == [object : Backing, accessor : {p2}, parent : View \cup {None}]

\* The ids are counters of the broker: they are given out in order.
InOrder == (ext.audit.backings[b2] # "None" => ext.audit.backings[b1] # "None")
           /\ (ext.audit.views[v2] # "None" => ext.audit.views[v1] # "None")

Registered == {ext.audit.backing_id[b] : b \in {c \in Backing : ext.audit.backings[c] # "None"}}
Imported == {ext.audit.view_id[v] : v \in {w \in View : ext.audit.views[w] # "None"}}

\* Two views of one backing; two backings and a direct view of the first; or two
\* backings of all kinds that compete for the quota.
TwoViews == Registered \subseteq OneOwner /\ Imported \subseteq OneReader
            /\ ext.audit.backings[b2] = "None"
OneView == Registered \subseteq TwoOwners /\ Imported \subseteq Direct \cap OneReader
           /\ ext.audit.views[v2] = "None"
NoViews == Imported = {}

InScope == InOrder' /\ (TwoViews' \/ OneView' \/ NoViews')
=============================================================================
