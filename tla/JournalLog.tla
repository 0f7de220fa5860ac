----------------------------- MODULE JournalLog -----------------------------
(***************************************************************************)
(* What a care journal promises: for every plant an append-only log in     *)
(* which an entry appears once, in the log of one plant only.              *)
(***************************************************************************)
EXTENDS Naturals, Sequences

CONSTANTS Plants, EntryIds

VARIABLE journal   \* the entries of each plant, in the order they were stored

Entries(p) == {journal[p][v] : v \in DOMAIN journal[p]}

Init == journal = [p \in Plants |-> << >>]

Add(p, e) ==
    /\ journal' = [journal EXCEPT ![p] = Append(@, e)]
    /\ \A q \in Plants : e \notin Entries(q)

Next == \E p \in Plants, e \in EntryIds : Add(p, e)

Spec == Init /\ [][Next]_journal
=============================================================================
