-------------------------------- MODULE Ledger --------------------------------
(***************************************************************************)
(* What the sync path promises, with the network, the passes and the       *)
(* restarts taken away.  Entries (a minute and an app) are recorded on the *)
(* device; the backend comes to count entries, per account registration;   *)
(* and an entry is settled, that is never sent again, only once it is      *)
(* counted.  Nothing recorded, counted or settled is ever taken back.      *)
(***************************************************************************)
EXTENDS Integers, Sequences

CONSTANTS Devices, Entries

VARIABLES
    recorded,     \* entries in the order they were recorded
    counted,      \* what the backend counts: (device, entry) pairs
    settled       \* positions of recorded that are settled

vars == <<recorded, counted, settled>>

Init ==
    /\ recorded = <<>>
    /\ counted = {}
    /\ settled = {}

Record(e) ==
    /\ recorded' = Append(recorded, e)
    /\ UNCHANGED <<counted, settled>>

\* The backend counts some recorded entries for one device, all at once.
Count(d) ==
    /\ \E P \in SUBSET (DOMAIN recorded) :
         counted' = counted \cup {<<d, recorded[i]>> : i \in P}
    /\ UNCHANGED <<recorded, settled>>

Settle ==
    /\ \E P \in SUBSET (DOMAIN recorded) :
         /\ \A i \in P : \E d \in Devices : <<d, recorded[i]>> \in counted
         /\ settled' = settled \cup P
    /\ UNCHANGED <<recorded, counted>>

Next ==
    \/ \E e \in Entries : Record(e)
    \/ \E d \in Devices : Count(d)
    \/ Settle

Spec == Init /\ [][Next]_vars
=============================================================================
