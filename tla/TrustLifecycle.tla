--------------------------- MODULE TrustLifecycle ---------------------------
(***************************************************************************)
(* What the trust chain of the external DDR root promises, without its     *)
(* files, locks, processes and crashes: generations are bound and sealed   *)
(* strictly in turn, no witness or name ever comes back, only a generation *)
(* whose broker really finished is sealed, and a chain whose last write    *)
(* was interrupted never moves again.  TrustChain implements it.           *)
(***************************************************************************)
EXTENDS Naturals, Sequences, SequencesExt

CONSTANTS
    Witness,    \* one deployment attempt each: a witness and its broker
    Name        \* generation and broker names

VARIABLES
    chain,      \* the frames after DEPLOY
    finished,   \* witnesses whose broker drained, checkpointed and exited
    lost        \* an interrupted write has closed the chain

vars == <<chain, finished, lost>>

Frame == [kind : {"BIND", "SEAL"}, witness : Witness, name : Name]

TypeOK ==
    /\ chain \in Seq(Frame)
    /\ finished \subseteq Witness
    /\ lost \in BOOLEAN

Bound(w) == chain # <<>> /\ Last(chain).kind = "BIND" /\ Last(chain).witness = w
Idle == chain = <<>> \/ Last(chain).kind = "SEAL"
Fresh(w, n) == \A f \in ToSet(chain) : f.witness # w /\ f.name # n

Bind(w, n) ==
    /\ ~lost /\ Idle /\ Fresh(w, n)
    /\ chain' = Append(chain, [kind |-> "BIND", witness |-> w, name |-> n])
    /\ UNCHANGED <<finished, lost>>

Finish(w) ==
    /\ ~lost /\ Bound(w)
    /\ finished' = finished \cup {w}
    /\ UNCHANGED <<chain, lost>>

Seal(w) ==
    /\ ~lost /\ Bound(w) /\ w \in finished
    /\ chain' = Append(chain, [Last(chain) EXCEPT !.kind = "SEAL"])
    /\ UNCHANGED <<finished, lost>>

Lose ==
    /\ ~lost /\ lost' = TRUE
    /\ UNCHANGED <<chain, finished>>

Init == chain = <<>> /\ finished = {} /\ lost = FALSE

Next ==
    \/ \E w \in Witness : Finish(w) \/ Seal(w) \/ \E n \in Name : Bind(w, n)
    \/ Lose

Spec == Init /\ [][Next]_vars

=============================================================================
