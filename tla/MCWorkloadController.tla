------------------------ MODULE MCWorkloadController ------------------------
(* Small instances of WorkloadController for TLC. *)
EXTENDS WorkloadController

MCNamespaces == {"shop", "sys"}
MCNames == {"web", "db"}

\* A Pod and a Deployment that share a key, and a Job in another namespace.
Web == [kind |-> "Deployment", ns |-> "shop", name |-> "web"]
WebPod == [kind |-> "Pod", ns |-> "shop", name |-> "web"]
SysJob == [kind |-> "Job", ns |-> "sys", name |-> "db"]

SharedKey == {Web, WebPod}
TwoNamespaces == {Web, WebPod, SysJob}

Manual == [applyMode |-> "manual", dryRun |-> FALSE, watch |-> {}, exclude |-> {"sys"},
           autoApply |-> {}, cooldown |-> 1, notifiers |-> <<"slack", "teams">>]
Auto == [applyMode |-> "auto", dryRun |-> TRUE, watch |-> {}, exclude |-> {},
         autoApply |-> {"shop"}, cooldown |-> 2, notifiers |-> <<"slack">>]
AutoNoCooldown == [applyMode |-> "auto", dryRun |-> FALSE, watch |-> {"shop"},
                   exclude |-> {}, autoApply |-> {}, cooldown |-> 0, notifiers |-> <<>>]
AutoElsewhere == [applyMode |-> "auto", dryRun |-> FALSE, watch |-> {"shop", "sys"},
                  exclude |-> {"sys"}, autoApply |-> {"sys"}, cooldown |-> 1,
                  notifiers |-> <<"teams">>]

AllModes == {Manual, Auto, AutoNoCooldown, AutoElsewhere}
AutoOnly == {Auto}

\* For the temporal properties: nothing that only multiplies the states.
OneNamespace == {"shop"}
OneName == {"web"}
Plain == {[AutoNoCooldown EXCEPT !.cooldown = 1]}
=============================================================================
