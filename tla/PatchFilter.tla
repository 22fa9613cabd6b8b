---------------------------- MODULE PatchFilter ----------------------------
(***************************************************************************)
(* What the operator lets through of a suggested patch (FilterPatch,       *)
(* operator/internal/patch/apply.go) and what the rest of it does to the   *)
(* workload at the API server, one answer of the LLM after the other.      *)
(*                                                                         *)
(* A patch is a decoded JSON value; an env list or a resources object      *)
(* counts as one atom, nothing looks into it.                              *)
(***************************************************************************)
EXTENDS Documents, Lists, FiniteSetsExt

CONSTANTS
    Patches,  \* the patches the LLM may suggest
    Kinds,    \* the kinds of workload analysed
    Original  \* the containers of the workload before the first patch

Absent == [absent |-> TRUE]

\* What JSON decodes to: an object has a value under each of its keys, and the
\* elements of a list are numbered from 1.
Decoded(v) ==
    /\ v # Absent
    /\ IsList(v) => Len(v.list) \in Nat /\ v.list = [i \in 1 .. Len(v.list) |-> v.list[i]]

Deeper(S) == S \union UNION {{v.map[k] : k \in DOMAIN v.map} : v \in {v \in S : IsMap(v)}}

\* As far down as the filter goes: spec, template, spec, containers.
ASSUME PatchesAssumption ==
    \A p \in Patches : \A v \in Deeper(Deeper(Deeper(Deeper({p})))) : Decoded(v)

-----------------------------------------------------------------------------
(* FilterPatch *)

Allowed == {"name", "image", "env", "resources"}

\* strings.ToLower, of the keys in use.
Lower(k) == IF k = "Image" THEN "image" ELSE k

\* Bug: a container is copied as it is.
CopyContainer(c) == c

FilterContainer(c) ==
    Map([k \in {k \in DOMAIN c.map : Lower(k) \in Allowed} |-> c.map[k]])

\* The objects of a list.
Objects(list) == Select(list, {i \in DOMAIN list : IsMap(list[i])})

\* Bug: the list is made with a length in place of a capacity: nulls come first.
PadContainers(v) ==
    IF IsList(v)
    THEN LET maps == Objects(v.list)
         IN  List([i \in 1 .. Len(v.list) + Len(maps) |->
                    IF i <= Len(v.list) THEN Null ELSE FilterContainer(maps[i - Len(v.list)])])
    ELSE Null

\* What is not an object is left out of the list.
FilterContainers(v) ==
    IF IsList(v)
    THEN LET maps == Objects(v.list)
         IN  List([i \in 1 .. Len(maps) |-> FilterContainer(maps[i])])
    ELSE Null

\* One field of an object, filtered; null when there is no object.
Only(v, key, Filter(_)) ==
    IF IsMap(v)
    THEN Map([k \in DOMAIN v.map \cap {key} |-> Filter(v.map[k])])
    ELSE Null

FilterPodSpec(v) == Only(v, "containers", FilterContainers)

FilterPodTemplate(v) == Only(v, "spec", FilterPodSpec)

FilterSpec(v) ==
    IF IsMap(v)
    THEN Map([k \in DOMAIN v.map \cap {"replicas", "template"} |->
                IF k = "template" THEN FilterPodTemplate(v.map[k]) ELSE v.map[k]])
    ELSE Null

FilterPatch(p) == Only(p, "spec", FilterSpec)

-----------------------------------------------------------------------------
(* The API server: a strategic merge patch                                 *)

VARIABLES
    kind,      \* of the workload
    workload,  \* its replicas, its containers by name, the rest of its spec
    patch      \* the answer being applied, or Null

vars == <<kind, workload, patch>>

Fields == {"image", "env", "command"}

Field(v, k) == IF IsMap(v) /\ k \in DOMAIN v.map THEN v.map[k] ELSE Absent

SpecOf(p) == Field(p, "spec")
TemplateOf(p) == Field(SpecOf(p), "template")
PodSpecOf(p) == IF kind = "Pod" THEN SpecOf(p) ELSE Field(TemplateOf(p), "spec")
ContainersOf(p) == Field(PodSpecOf(p), "containers")

Items(p) == {ContainersOf(p).list[i] : i \in DOMAIN ContainersOf(p).list}

Name(c) == Field(c, "name")

Deletes(c) == Field(c, "$patch") = Atom("delete")

\* The fields of a container after those items of the list that are given for
\* it: the last one that has a field decides. A field set to null is removed;
\* fields the server does not know are ignored.
MergeFields(old, list, given) ==
    LET Giving(f) == {i \in given : f \in Fields \cap DOMAIN list[i].map}
        Value(f) == IF Giving(f) = {} THEN old[f] ELSE list[Max(Giving(f))].map[f]
        fields == DOMAIN old \union {f \in Fields : Giving(f) # {}}
    IN  [f \in {f \in fields : Giving(f) = {} \/ Value(f) # Null} |-> Value(f)]

\* Containers are merged by name; those the patch deletes are gone before.
MergeContainers(old, list) ==
    LET gone == {Name(list[i]) : i \in {i \in DOMAIN list : Deletes(list[i])}}
        Given(n) == {i \in DOMAIN list : Name(list[i]) = n /\ ~Deletes(list[i])}
        named == {Name(list[i]) : i \in {i \in DOMAIN list : ~Deletes(list[i])}}
    IN  [n \in (DOMAIN old \ gone) \union named |->
            MergeFields(IF n \in DOMAIN old \ gone THEN old[n] ELSE <<>>, list, Given(n))]

Otherwise(v, default) == IF v = Absent THEN default ELSE v

Merge(p) ==
    [replicas |-> IF kind = "Deployment"
                  THEN Otherwise(Field(SpecOf(p), "replicas"), workload.replicas)
                  ELSE workload.replicas,
     volumes |-> Otherwise(Field(PodSpecOf(p), "volumes"), workload.volumes),
     containers |-> IF ContainersOf(p) = Absent THEN workload.containers
                    ELSE MergeContainers(workload.containers, ContainersOf(p).list)]

\* The patch has the shape of the workload, each container of it a name, and
\* the workload keeps a container and each of its containers an image.
Accepted(p) ==
    /\ \A v \in {p, SpecOf(p), TemplateOf(p), PodSpecOf(p)} :
          v = Absent \/ IsMap(v) \/ (v = TemplateOf(p) /\ kind = "Pod")
    /\ \/ ContainersOf(p) = Absent
       \/ /\ IsList(ContainersOf(p))
          /\ \A c \in Items(p) : IsMap(c) /\ "atom" \in DOMAIN Name(c)
          /\ LET left == Merge(p).containers
             IN  DOMAIN left # {} /\ \A n \in DOMAIN left : "image" \in DOMAIN left[n]

-----------------------------------------------------------------------------
(* The operator: applyOrNotify in auto mode *)

Init ==
    /\ kind \in Kinds
    /\ workload = [replicas |-> Atom("one"), volumes |-> Atom("data"), containers |-> Original]
    /\ patch = Null

Answer(p) ==
    /\ patch = Null
    /\ patch' = p
    /\ UNCHANGED <<kind, workload>>

\* The API server, or its dry run, takes the filtered patch or refuses it.
Apply ==
    /\ patch # Null
    /\ patch' = Null
    /\ workload' = IF Accepted(FilterPatch(patch)) THEN Merge(FilterPatch(patch)) ELSE workload
    /\ UNCHANGED kind

Next == Apply \/ \E p \in Patches : Answer(p)

Spec == Init /\ [][Next]_vars

-----------------------------------------------------------------------------
(* Properties *)

\* No field of container n that is not on the list was touched or brought along.
OffListKept(n) ==
    \A f \in Fields \ Allowed :
        IF n \in DOMAIN workload.containers
        THEN /\ f \in DOMAIN workload'.containers[n] <=> f \in DOMAIN workload.containers[n]
             /\ f \in DOMAIN workload.containers[n]
                  => workload'.containers[n][f] = workload.containers[n][f]
        ELSE f \notin DOMAIN workload'.containers[n]

AllowedChange ==
    /\ workload'.volumes = workload.volumes
    /\ DOMAIN workload.containers \subseteq DOMAIN workload'.containers
    /\ \A n \in DOMAIN workload'.containers : OffListKept(n)

\* What an answer can change is on the list, whatever the shape of its patch:
\* no container is lost, and no field of one is touched or brought along that
\* is not on the list ("so the LLM cannot change command, securityContext, or
\* volumes", docs/adr/0002).
OnlyAllowedChanges == [][AllowedChange]_vars

AllowedPart(w) ==
    [replicas |-> w.replicas,
     containers |-> [n \in DOMAIN w.containers |->
                       [f \in DOMAIN w.containers[n] \cap Allowed |-> w.containers[n][f]]]]

\* A patch that would be taken unfiltered, and deletes no container, is taken
\* filtered and has the same effect on the fields of the list.
KeepsAllowed ==
    /\ patch # Null
    /\ Accepted(patch)
    /\ ContainersOf(patch) # Absent => \A c \in Items(patch) : ~Deletes(c)
    => /\ Accepted(FilterPatch(patch))
       /\ AllowedPart(Merge(FilterPatch(patch))) = AllowedPart(Merge(patch))

\* Filtering takes nothing from a good patch, for the kinds with a template.
TemplateKeepsAllowed == kind # "Pod" => KeepsAllowed

(* What the documents say and the code does not do *)

\* "The LLM can suggest changes to a Deployment, Job, or Pod (e.g. image, env,
\* replicas, resources)": the containers of a Pod are not under a template.
PodKeepsAllowed == kind = "Pod" => KeepsAllowed

=============================================================================
