------------------------------ MODULE UnitStore ------------------------------
(***************************************************************************)
(* What the cache of separately compiled units promises those who share    *)
(* it: under each key stands nothing, or all of the one result the key is  *)
(* the digest of, or something that is recognisably damaged.  A result     *)
(* appears at one moment and is never replaced by another; only the disk   *)
(* can take it away.                                                       *)
(***************************************************************************)
CONSTANT Keys

VARIABLE entry  \* of each key: absent, stored or damaged

Init == entry = [k \in Keys |-> "absent"]

Publish(k) == entry[k] = "absent"  /\ entry' = [entry EXCEPT ![k] = "stored"]
Damage(k)  == entry[k] = "stored"  /\ entry' = [entry EXCEPT ![k] = "damaged"]
Vanish(k)  == entry[k] = "damaged" /\ entry' = [entry EXCEPT ![k] = "absent"]

Next == \E k \in Keys : Publish(k) \/ Damage(k) \/ Vanish(k)

Spec == Init /\ [][Next]_entry
=============================================================================
