----------------------------- MODULE LatestRows -----------------------------
(***************************************************************************)
(* What the SCD2 strategies promise of the current versions: a table that  *)
(* follows its source one run at a time.                                   *)
(***************************************************************************)
EXTENDS Integers

CONSTANT Null
VARIABLES source, strategy, rows

\* When a run may leave the row of a key as it was: by_time if the source has no
\* newer one, else if the two differ only where one of them is NULL.
MayKeep(old, new) ==
    IF strategy = "by_time"
    THEN ~(old.ik < new.ik)
    ELSE old.ik = new.ik /\ (old.val = new.val \/ Null \in {old.val, new.val})

MayReplace(old, new) == strategy = "by_time" => old.ik < new.ik

Init == rows \in [{} -> {}]

\* The keys of the source, no others, with a row of the source or the row kept.
Run ==
    \E kept \in SUBSET (DOMAIN rows \cap DOMAIN source) :
        /\ \A k \in kept : MayKeep(rows[k], source[k])
        /\ \A k \in (DOMAIN rows \cap DOMAIN source) \ kept : MayReplace(rows[k], source[k])
        /\ rows' = [k \in DOMAIN source |-> IF k \in kept THEN rows[k] ELSE source[k]]

Rebuild == rows' = source

Spec == Init /\ [][Run \/ Rebuild]_rows
=============================================================================
