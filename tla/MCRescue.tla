------------------------------ MODULE MCRescue ------------------------------
(***************************************************************************)
(* Two hosts: `ante` with an encrypted ZFS root, an optional partition, a  *)
(* LUKS data disk and an extra pool, and `bina` with a LUKS root and no    *)
(* host id of its own.  Two pools are called zroot: one of ante, and one   *)
(* that belongs to a third machine.                                        *)
(***************************************************************************)
EXTENDS Rescue

CONSTANTS ante, bina, anteId, otherId, imageId

MCHosts     == {ante, bina}
MCPoolNames == {"zroot", "tank"}
MCGuids     == {"g1", "g2", "g3"}
MCLuksNames == {"crypt"}
MCPoints    == {"/boot", "/data"}
MCIds       == {anteId, otherId, imageId}

MCNameOf == [g \in MCGuids |-> IF g = "g3" THEN "tank" ELSE "zroot"]
MCHostId == [h \in MCHosts |-> IF h = ante THEN anteId ELSE None]

Entry(point, kind, src, nofail) ==
  [point |-> point, kind |-> kind, src |-> src, nofail |-> nofail]

MCFileSystems ==
  [h \in MCHosts |->
    IF h = ante
    THEN << Entry(Root, "zfs", "zroot", FALSE),
            Entry("/boot", "part", None, TRUE),
            Entry("/data", "luks", "crypt", FALSE) >>
    ELSE << Entry(Root, "luks", "crypt", FALSE),
            Entry("/boot", "part", None, FALSE),
            Entry("/data", "none", None, FALSE) >>]

MCExtraPools == [h \in MCHosts |-> IF h = ante THEN <<"tank">> ELSE <<>>]

\* ante went down without an export; the other zroot was exported or not and
\* carries its own machine's id, or ante's id, or only ante's name.
MCInitLabels ==
  {[g \in MCGuids |->
      IF g = "g2" THEN l ELSE [id |-> anteId, name |-> ante, exported |-> FALSE]] :
     l \in {[id |-> otherId, name |-> None, exported |-> TRUE],
            [id |-> otherId, name |-> ante, exported |-> FALSE],
            [id |-> anteId, name |-> None, exported |-> TRUE]}}

\* A smaller machine, for the run that looks for a disagreement: one pool,
\* and no pool or file system beyond what each kind needs.
OnePoolName == {"zroot"}
OneGuid     == {"g1"}
OnePoint    == {"/data"}
OneNameOf   == [g \in OneGuid |-> "zroot"]
FewFileSystems ==
  [h \in MCHosts |->
    IF h = ante
    THEN << Entry(Root, "zfs", "zroot", FALSE), Entry("/data", "luks", "crypt", FALSE) >>
    ELSE << Entry(Root, "luks", "crypt", FALSE), Entry("/data", "part", None, TRUE) >>]
NoExtraPools == [h \in MCHosts |-> <<>>]
OneInitLabel == {[g \in OneGuid |-> [id |-> anteId, name |-> ante, exported |-> FALSE]]}
=============================================================================
