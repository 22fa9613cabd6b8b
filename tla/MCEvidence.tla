----------------------------- MODULE MCEvidence -----------------------------
(* Workloads and configurations for TLC: a few to gather evidence for, and  *)
(* many specs to redact.                                                    *)
EXTENDS Request, TLC

New == [state |-> "waiting", reason |-> "ContainerCreating", started |-> FALSE, restarts |-> 0]
PodOf(n) == [kind |-> "Pod", phase |-> "Running", containers |-> [i \in 1 .. n |-> New]]
Rollout == [kind |-> "Deployment", unavailable |-> FALSE, replicaFailure |-> FALSE]
Batch == [kind |-> "Job", failed |-> FALSE, condition |-> FALSE]

\* Specs, put together from their objects.
RefsTo(os) == List([i \in DOMAIN os |-> Ref(os[i])])

Vars(o) ==
    LET from == o \o ".valueFrom"
        sourced == "valueFrom" :> Ref(from)
        source == from :> ("key" :> Atom("url"))
    IN  {o :> ("name" :> Atom("API_KEY") @@ "value" :> Atom("v1")),
         o :> ("name" :> Atom("PATH") @@ "value" :> Atom("v2")),
         o :> ("name" :> Atom("db_password") @@ sourced) @@ source,
         o :> ("name" :> Atom("DB_URL") @@ sourced) @@ source,
         o :> sourced @@ source}

WithEnv(o, es) == o :> ("name" :> Atom("c") @@ "env" :> RefsTo(es))

AnyName(o) == o :> ("name" :> Atom("n"))

Volumes ==
    "volume1" :> ("secret" :> Ref("secret1"))
    @@ "secret1" :> ("secretName" :> Atom("s") @@ "items" :> List(<<>>))
    @@ "volume2" :> ("secret" :> Ref("secret2"))
    @@ "secret2" :> ("optional" :> Atom("no"))
    @@ AnyName("volume3")

OneContainer(o) == o :> ("containers" :> RefsTo(<<"c">>)) @@ AnyName("c")

\* Pod specs under the name "pod": with one variable and the other lists, and
\* with two variables, in one container or in two.
OneVar ==
    {"pod" :> ("containers" :> RefsTo(<<"app">>) @@ "imagePullSecrets" :> List(<<>>))
        @@ WithEnv("app", <<"env1">>) @@ v : v \in Vars("env1")}
    \union {"pod" :> ("containers" :> RefsTo(<<"app">>)
                        @@ "imagePullSecrets" :> RefsTo(<<"pull1", "pull2">>))
                @@ WithEnv("app", <<"env1">>) @@ v
                @@ AnyName("pull1") @@ AnyName("pull2") : v \in Vars("env1")}
    \union {"pod" :> ("containers" :> RefsTo(<<"app">>)
                        @@ "volumes" :> RefsTo(<<"volume1", "volume2", "volume3">>))
                @@ WithEnv("app", <<"env1">>) @@ v @@ Volumes : v \in Vars("env1")}

TwoVars ==
    {"pod" :> ("containers" :> RefsTo(<<"side", "app">>)) @@ AnyName("side")
        @@ WithEnv("app", <<"env1", "env2">>) @@ v @@ w : v \in Vars("env1"), w \in Vars("env2")}
    \union {"pod" :> ("containers" :> RefsTo(<<"app">>) @@ "initContainers" :> RefsTo(<<"init">>))
                @@ WithEnv("app", <<"env1">>) @@ WithEnv("init", <<"env2">>)
                @@ v @@ w : v \in Vars("env1"), w \in Vars("env2")}

\* With a variable in an ephemeral container, and with secrets named in envFrom
\* and in a projected volume.
Elsewhere ==
    {"pod" :> ("containers" :> RefsTo(<<"app">>) @@ "ephemeralContainers" :> RefsTo(<<"debug">>))
        @@ AnyName("app") @@ WithEnv("debug", <<"env1">>) @@ v : v \in Vars("env1")}
    \union {"pod" :> ("containers" :> RefsTo(<<"app">>) @@ "volumes" :> RefsTo(<<"volume1">>))
              @@ "app" :> ("envFrom" :> RefsTo(<<"from1">>))
              @@ "from1" :> ("secretRef" :> Ref("name1")) @@ AnyName("name1")
              @@ "volume1" :> ("projected" :> Ref("sources"))
              @@ "sources" :> ("sources" :> RefsTo(<<"source1">>))
              @@ "source1" :> ("secret" :> Ref("name2")) @@ AnyName("name2")}

\* A pod spec in a template, and one in a list beside another.
Template(p) ==
    "spec" :> ("replicas" :> Atom("two") @@ "template" :> Ref("template"))
    @@ "template" :> ("spec" :> Ref("pod")) @@ p

Listed(p) ==
    "spec" :> ("template" :> Ref("template") @@ "list" :> List(<<Atom("x"), Ref("pod")>>))
    @@ "template" :> ("spec" :> Ref("other")) @@ OneContainer("other") @@ p

Quiet == [status |-> Rollout, spec |-> OneContainer("spec"), events |-> <<>>, pods |-> <<>>,
          backendType |-> "custom_http", backendURL |-> FALSE, includeNodes |-> FALSE,
          recentCap |-> 0, historyCap |-> 0, nodeCap |-> 0]

\* Caps that just fit into the prompt; more Pods than are looked at.
Busy == [Quiet EXCEPT !.events = <<"other", "own">>, !.pods = <<"n1", "n1", "n2", "n3">>,
                      !.backendType = "kubernetes", !.includeNodes = TRUE,
                      !.recentCap = 3, !.historyCap = 1, !.nodeCap = 2]

GapCases == {[Quiet EXCEPT !.spec = Template(p)] : p \in Elsewhere}

MCCases ==
    {Busy,
     [Busy EXCEPT !.status = Batch, !.pods = <<"", "n1">>, !.backendType = "loki",
                  !.recentCap = 4, !.historyCap = -1, !.nodeCap = 0, !.events = <<"other">>],
     [Busy EXCEPT !.status = PodOf(1), !.pods = <<"n1">>, !.recentCap = 1,
                  !.backendType = "loki", !.backendURL = TRUE],
     [Quiet EXCEPT !.status = PodOf(2), !.pods = <<"">>]}
    \union {[Quiet EXCEPT !.spec = Template(p)] : p \in OneVar \union TwoVars \union Elsewhere}
    \union {[Quiet EXCEPT !.spec = Listed(p)] : p \in OneVar}
=============================================================================
