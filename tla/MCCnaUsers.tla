----------------------------- MODULE MCCnaUsers -----------------------------
(* Small instances of CnaUsers. *)
EXTENDS CnaUsers, TLC

MCWeights == (AllUsers \X CnaSlots) \union ({"attention"} \X Keys)

\* Each user loads two slots.
MCUses == [u \in AllUsers |-> 2]

\* A script may ask for the slots of attention too; the others ask for less, as
\* all set-ups of the repository do.
MCAsks == [u \in AllUsers |-> IF u = "script" THEN 4 ELSE 2]
=============================================================================
