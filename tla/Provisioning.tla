---------------------------- MODULE Provisioning ----------------------------
(***************************************************************************)
(* What the WSL1 bootstrap promises the users of an image: it is           *)
(* provisioned once, for good, and each boot serves the distro from what   *)
(* has been provisioned.                                                   *)
(***************************************************************************)
VARIABLES
    provisioned,    \* the data disk holds all a boot needs
    serving         \* this boot has reported success

vars == <<provisioned, serving>>

Init ==
    /\ provisioned = FALSE
    /\ serving = FALSE

Provision ==
    /\ ~provisioned
    /\ provisioned' = TRUE
    /\ UNCHANGED serving

Serve ==
    /\ provisioned
    /\ serving' = TRUE
    /\ UNCHANGED provisioned

Reboot ==
    /\ serving' = FALSE
    /\ UNCHANGED provisioned

Next == Provision \/ Serve \/ Reboot

Spec == Init /\ [][Next]_vars
=============================================================================
