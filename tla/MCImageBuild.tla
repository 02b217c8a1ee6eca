----------------------------- MODULE MCImageBuild -----------------------------
(* Instances of ImageBuild for model checking.                                *)
EXTENDS ImageBuild

Hook(p, n, r) == [phase |-> p, retries |-> n, reboot |-> r]
Build(m, d, s, k, sec, i) ==
    [mode |-> m, distro |-> d, share |-> s, keep |-> k, secure |-> sec,
     interactive |-> i]

\* A hook of a setup pass, which runs nowhere, a retried hook, one that
\* reboots, one after the reboot.
BootHooks == <<Hook("oobe", 0, FALSE), Hook("boot", 1, FALSE), Hook("boot", 0, TRUE),
               Hook("boot", 1, FALSE)>>

Base == {Build("base", FALSE, "none", k, s, FALSE) : k, s \in BOOLEAN}
Wsl == {Build("wsl", d, sh, k, FALSE, FALSE) :
           d, k \in BOOLEAN, sh \in {"none", "task", "s6"}}
       \ {Build("wsl", FALSE, "s6", k, FALSE, FALSE) : k \in BOOLEAN}
Installs == Base \cup Wsl
Continued == {Build("continue", TRUE, sh, k, FALSE, i) :
                 sh \in {"task", "s6"}, k, i \in BOOLEAN}
AllBuilds == Installs \cup Continued
===============================================================================
