---------------------------- MODULE ReleaseService ----------------------------
(***************************************************************************)
(* What the release of a version promises its users, with no attempts, no  *)
(* artifacts and no drafts: the packages appear on npm one by one, each    *)
(* for good; once all are there the GitHub Release appears, whole, with    *)
(* the tarballs npm has and archives of the same builds, and never         *)
(* changes.                                                                *)
(***************************************************************************)
CONSTANTS Targets, Core, AllBytes, None

VARIABLES
    onNpm,   \* onNpm[p]: the published bytes of package p, or None
    release  \* release[f]: the bytes of tarball f of the public release, or None

serviceVars == <<onNpm, release>>

Tarballs == ({"npm"} \X (Targets \cup {Core})) \cup ({"native"} \X Targets)

ServiceInit ==
    /\ onNpm = [p \in Targets \cup {Core} |-> None]
    /\ release = None

Publish(p) ==
    /\ onNpm[p] = None
    /\ \E bytes \in AllBytes : onNpm' = [onNpm EXCEPT ![p] = bytes]
    /\ UNCHANGED release

Release ==
    /\ release = None
    /\ \A p \in DOMAIN onNpm : onNpm[p] # None
    /\ release' = [f \in Tarballs |-> onNpm[f[2]]]
    /\ UNCHANGED onNpm

ServiceNext == Release \/ \E p \in DOMAIN onNpm : Publish(p)

ServiceSpec == ServiceInit /\ [][ServiceNext]_serviceVars
===============================================================================
