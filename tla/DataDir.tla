------------------------------- MODULE DataDir -------------------------------
(***************************************************************************)
(* config.rs create_private_dir_all: vetting, creating and hardening the   *)
(* data directory before any secret is written into it.  The path is a     *)
(* chain of components, the filesystem root's child first and the leaf     *)
(* last; it is absolute and lexically normalised (normalize_path_lexically *)
(* and the refusal of `/` itself are left out).  Other users of the host   *)
(* may make entries wherever the modes let them, at any moment.            *)
(***************************************************************************)
EXTENDS Naturals

CONSTANT Depth      \* the leaf's depth

ASSUME DepthAssumption == Depth \in Nat \ {0}

Leaf == Depth
Components == 1..Depth

Absent == [kind |-> "absent", owner |-> "none", open |-> FALSE, sticky |-> FALSE]
Made(kind, owner, open, sticky) ==
    [kind |-> kind, owner |-> owner, open |-> open, sticky |-> sticky]
OurDir == Made("dir", "us", FALSE, FALSE)

VARIABLES
    ddPath,     \* per component: what lstat finds (open: group/world-writable)
    ddAsRoot,   \* lnrentd runs as root
    ddPc, ddPreexisted, ddToHarden,
    ddChmods    \* what chmod was applied to, and whether it was there before

ddVars == <<ddPath, ddAsRoot, ddPc, ddPreexisted, ddToHarden, ddChmods>>

Present(i) == ddPath[i].kind # "absent"

(* Directories stand on a prefix of the path, of any owner and mode.       *)
DirInit ==
    /\ ddPath \in [Components -> {Absent} \cup
                     [kind : {"dir"}, owner : {"us", "root", "overflow", "other"},
                      open : BOOLEAN, sticky : BOOLEAN]]
    /\ \A i \in Components \ {1} : Present(i) => Present(i - 1)
    /\ Present(1)
    /\ ddAsRoot \in BOOLEAN
    /\ ddPc = "vet" /\ ddPreexisted = FALSE
    /\ ddToHarden = {} /\ ddChmods = {}

-----------------------------------------------------------------------------
(* existing_dir_owner_is_safe_for_euid, with overflow_uid: the "no such    *)
(* uid" owner is nobody a process can run as.                              *)
OwnerIsSafe(o) == o \in {"us", "root", "overflow"}

(* dir_component_hazard.                                                   *)
ComponentHazard(c, isLeaf) ==
    ~OwnerIsSafe(c.owner) \/ (c.open /\ ~isLeaf /\ ~c.sticky)

(* reject_unsafe_components: links, files and hazards are refused; what is *)
(* not there yet is ours to make.                                          *)
ComponentsAreSafe ==
    \A i \in Components : Present(i) =>
        ddPath[i].kind = "dir" /\ ~ComponentHazard(ddPath[i], i = Leaf)

(* vetted_data_dir_components, the scan before anything is made.           *)
Vet ==
    /\ ddPc = "vet"
    /\ ddPc' = IF ComponentsAreSafe THEN "look" ELSE "refused"
    /\ UNCHANGED <<ddPath, ddAsRoot, ddPreexisted, ddToHarden, ddChmods>>

(* leaf_preexisted, and the components this bootstrap is about to make.    *)
Look ==
    /\ ddPc = "look"
    /\ ddPreexisted' = Present(Leaf)
    /\ ddToHarden' = {i \in Components : ~Present(i)}
    /\ ddPc' = "create"
    /\ UNCHANGED <<ddPath, ddAsRoot, ddChmods>>

MayMakeIn(i) == \/ ddAsRoot \/ ddPath[i].owner = "us" \/ ddPath[i].open
                \/ ddPath[i].kind = "link"

(* DirBuilder, recursive: what is missing is made 0700; a link is          *)
(* followed, a file in the way or a parent that may not be written fails.  *)
Create ==
    /\ ddPc = "create"
    /\ LET top == {i \in Components : ~Present(i) /\ Present(i - 1)}
           fails == \/ \E i \in Components : ddPath[i].kind = "file"
                    \/ \E i \in top : ~MayMakeIn(i - 1)
       IN  IF fails THEN ddPc' = "refused" /\ UNCHANGED ddPath
           ELSE /\ ddPath' = [i \in Components |-> IF Present(i) THEN ddPath[i] ELSE OurDir]
                /\ ddPc' = "rescan"
    /\ UNCHANGED <<ddAsRoot, ddPreexisted, ddToHarden, ddChmods>>

(* Mutant: what was vetted before the create is taken as vetted.           *)
RescanNothing ==
    /\ ddPc = "rescan"
    /\ ddPc' = "harden"
    /\ UNCHANGED <<ddPath, ddAsRoot, ddPreexisted, ddToHarden, ddChmods>>

(* The scan after the create, before any chmod.                            *)
Rescan ==
    /\ ddPc = "rescan"
    /\ ddPc' = IF ComponentsAreSafe THEN "harden" ELSE "refused"
    /\ UNCHANGED <<ddPath, ddAsRoot, ddPreexisted, ddToHarden, ddChmods>>

(* harden_dir_perms, shallow to leaf: fchmod through a no-follow handle,   *)
(* which a link or a file refuses.                                         *)
Harden ==
    /\ ddPc = "harden" /\ ddToHarden # {}
    /\ LET i == CHOOSE i \in ddToHarden : \A j \in ddToHarden : i <= j
           mayChmod == ddAsRoot \/ ddPath[i].owner = "us"
       IN  IF ddPath[i].kind # "dir" \/ ~mayChmod
           THEN ddPc' = "refused" /\ UNCHANGED <<ddPath, ddToHarden, ddChmods>>
           ELSE /\ ddChmods' = ddChmods \cup {[owner |-> ddPath[i].owner, at |-> i]}
                /\ ddPath' = [ddPath EXCEPT ![i].open = FALSE, ![i].sticky = FALSE]
                /\ ddToHarden' = ddToHarden \ {i}
                /\ UNCHANGED ddPc
    /\ UNCHANGED <<ddAsRoot, ddPreexisted>>

(* reject_unsafe_preexisting_dir: never chmod'ed, so it must be private    *)
(* and writable by us (dir_is_writable_by_us) as it is.                    *)
PreexistingIsFit(c) ==
    /\ c.kind = "dir"
    /\ ~c.open /\ ~c.sticky
    /\ ddAsRoot \/ c.owner = "us"

Accept ==
    /\ ddPc = "harden" /\ ddToHarden = {}
    /\ ddPc' = IF ddPreexisted => PreexistingIsFit(ddPath[Leaf]) THEN "ready" ELSE "refused"
    /\ UNCHANGED <<ddPath, ddAsRoot, ddPreexisted, ddToHarden, ddChmods>>

-----------------------------------------------------------------------------
(* Another user of the host makes an entry in a directory it may write, or *)
(* puts another in the place of one it may remove: any in a directory of   *)
(* its own or a writable one without the sticky bit, else only its own.    *)
OtherMayWrite(i) == ddPath[i].kind = "dir" /\ (ddPath[i].owner = "other" \/ ddPath[i].open)
OtherMayRemove(i) ==
    /\ OtherMayWrite(i - 1)
    /\ \/ ddPath[i - 1].owner = "other" \/ ~ddPath[i - 1].sticky
       \/ ddPath[i].owner = "other"

OtherUser ==
    /\ ddPc \notin {"vet", "refused"}
    /\ \E i \in Components \ {1}, kind \in {"dir", "link", "file"}, open \in BOOLEAN :
         /\ IF Present(i) THEN OtherMayRemove(i) ELSE Present(i - 1) /\ OtherMayWrite(i - 1)
         /\ ddPath' = [ddPath EXCEPT ![i] = Made(kind, "other", open /\ kind = "dir", FALSE)]
    /\ UNCHANGED <<ddAsRoot, ddPc, ddPreexisted, ddToHarden, ddChmods>>

DirNext == Vet \/ Look \/ Create \/ Rescan \/ Harden \/ Accept \/ OtherUser

-----------------------------------------------------------------------------
(* Once the data directory is accepted it stays the private directory that *)
(* was vetted: whatever other users of the host do, before or after, no    *)
(* component of its path is or becomes a link or theirs, nobody else may   *)
(* write the leaf, and no directory of theirs was ever chmod'ed.           *)
DirIsPrivate ==
    /\ ddPc = "ready" =>
         /\ \A i \in Components : ddPath[i].kind = "dir" /\ OwnerIsSafe(ddPath[i].owner)
         /\ ~ddPath[Leaf].open
    /\ \A c \in ddChmods : OwnerIsSafe(c.owner)
=============================================================================
