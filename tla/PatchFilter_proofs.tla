------------------------- MODULE PatchFilter_proofs -------------------------
(***************************************************************************)
(* Proofs about the patch filter, for every set of patches, whatever their *)
(* shape, every kind of workload and every original.                       *)
(***************************************************************************)
EXTENDS PatchFilter, Lists_proofs

-----------------------------------------------------------------------------
(* What a filtered value looks like *)

\* A field of a value that has no such field is absent.
LEMMA FieldOfMap ==
    ASSUME NEW f, NEW k
    PROVE  Field(Map(f), k) = IF k \in DOMAIN f THEN f[k] ELSE Absent
  BY DEF Field, Map, IsMap

LEMMA FieldOfNothing ==
    ASSUME NEW k
    PROVE  Field(Absent, k) = Absent /\ Field(Null, k) = Absent
  BY DEF Field, Absent, Null, IsMap

LEMMA Distinct == Absent # Null /\ \A a : Absent # Atom(a)
<1>1. Absent # Null
  <2>1. DOMAIN Absent = {"absent"} /\ DOMAIN Null = {"null"}
    BY DEF Absent, Null
  <2>. QED BY <2>1
<1>2. ASSUME NEW a PROVE Absent # Atom(a)
  <2>1. DOMAIN Absent = {"absent"} /\ DOMAIN Atom(a) = {"atom"}
    BY DEF Absent, Atom
  <2>. QED BY <2>1
<1>. QED BY <1>1, <1>2

\* Neither a field off the list nor a directive is left in a container.
LEMMA FilteredContainer ==
    ASSUME NEW c
    PROVE  /\ \A f \in Fields \ Allowed : Field(FilterContainer(c), f) = Absent
           /\ \A f \in Fields \ Allowed : f \notin DOMAIN FilterContainer(c).map
           /\ ~Deletes(FilterContainer(c))
<1>. DEFINE keys == {k \in DOMAIN c.map : Lower(k) \in Allowed}
<1>1. FilterContainer(c) = Map([k \in keys |-> c.map[k]])
  BY DEF FilterContainer
<1>2. \A f \in (Fields \ Allowed) \union {"$patch"} : f \notin keys
  BY DEF Fields, Allowed, Lower
<1>3. \A f \in (Fields \ Allowed) \union {"$patch"} : Field(FilterContainer(c), f) = Absent
  BY <1>1, <1>2, FieldOfMap
<1>4. DOMAIN FilterContainer(c).map = keys
  BY <1>1 DEF Map
<1>. QED BY <1>2, <1>3, <1>4, Distinct DEF Deletes

\* Each level passes on its filtered field, and no other.
LEMMA FieldOfFiltered ==
    ASSUME NEW v, NEW k
    PROVE  /\ Field(FilterPatch(v), k)
                \in {Absent} \union (IF k = "spec" THEN {FilterSpec(v.map[k])} ELSE {})
           /\ Field(FilterPodTemplate(v), k)
                \in {Absent} \union (IF k = "spec" THEN {FilterPodSpec(v.map[k])} ELSE {})
           /\ Field(FilterPodSpec(v), k)
                \in {Absent} \union (IF k = "containers" THEN {FilterContainers(v.map[k])} ELSE {})
<1>1. Field(FilterPatch(v), k)
        \in {Absent} \union (IF k = "spec" THEN {FilterSpec(v.map[k])} ELSE {})
  BY FieldOfMap, FieldOfNothing DEF FilterPatch, Only
<1>2. Field(FilterPodTemplate(v), k)
        \in {Absent} \union (IF k = "spec" THEN {FilterPodSpec(v.map[k])} ELSE {})
  BY FieldOfMap, FieldOfNothing DEF FilterPodTemplate, Only
<1>3. Field(FilterPodSpec(v), k)
        \in {Absent} \union (IF k = "containers" THEN {FilterContainers(v.map[k])} ELSE {})
  BY FieldOfMap, FieldOfNothing DEF FilterPodSpec, Only
<1>. QED BY <1>1, <1>2, <1>3

LEMMA FieldOfSpec ==
    ASSUME NEW v, NEW k
    PROVE  /\ k \notin {"replicas", "template"} => Field(FilterSpec(v), k) = Absent
           /\ k = "template" => Field(FilterSpec(v), k)
                                  \in {Absent, FilterPodTemplate(v.map[k])}
  BY FieldOfMap, FieldOfNothing DEF FilterSpec

\* A filtered patch has nothing for the volumes, and filtered containers only.
LEMMA FilteredPatch ==
    ASSUME NEW p
    PROVE  /\ Field(PodSpecOf(FilterPatch(p)), "volumes") = Absent
           /\ \/ ContainersOf(FilterPatch(p)) = Absent
              \/ \E v : ContainersOf(FilterPatch(p)) = FilterContainers(v)
<1>. DEFINE spec == SpecOf(FilterPatch(p))
            template == TemplateOf(FilterPatch(p))
            podSpec == Field(template, "spec")
<1>1. spec = Absent \/ \E v : spec = FilterSpec(v)
  BY FieldOfFiltered DEF SpecOf
<1>2. CASE kind = "Pod"
  <2>1. PodSpecOf(FilterPatch(p)) = spec
    BY <1>2 DEF PodSpecOf
  <2>2. Field(spec, "volumes") = Absent /\ Field(spec, "containers") = Absent
    BY <1>1, FieldOfSpec, FieldOfNothing
  <2>. QED BY <2>1, <2>2 DEF ContainersOf
<1>3. CASE kind # "Pod"
  <2>1. PodSpecOf(FilterPatch(p)) = podSpec
    BY <1>3 DEF PodSpecOf
  <2>2. template = Absent \/ \E v : template = FilterPodTemplate(v)
    BY <1>1, FieldOfSpec, FieldOfNothing DEF TemplateOf
  <2>3. podSpec = Absent \/ \E v : podSpec = FilterPodSpec(v)
    BY <2>2, FieldOfFiltered, FieldOfNothing
  <2>4. /\ Field(podSpec, "volumes") = Absent
        /\ \/ Field(podSpec, "containers") = Absent
           \/ \E v : Field(podSpec, "containers") = FilterContainers(v)
    BY <2>3, FieldOfFiltered, FieldOfNothing
  <2>. QED BY <2>1, <2>4 DEF ContainersOf
<1>. QED BY <1>2, <1>3

LEMMA FilteredItems ==
    ASSUME NEW v, IsList(FilterContainers(v)), NEW i \in DOMAIN FilterContainers(v).list
    PROVE  \E c : FilterContainers(v).list[i] = FilterContainer(c)
<1>1. IsList(v)
  BY DEF FilterContainers, IsList, Null
<1>. DEFINE maps == Objects(v.list)
<1>2. FilterContainers(v).list = [j \in 1 .. Len(maps) |-> FilterContainer(maps[j])]
  BY <1>1 DEF FilterContainers, List
<1>. QED BY <1>2

-----------------------------------------------------------------------------
(* What a filtered patch does *)

\* Merging containers without directives and fields off the list.
LEMMA MergeKeeps ==
    ASSUME NEW old, NEW list,
           \A i \in DOMAIN list : ~Deletes(list[i]) /\ \E m : list[i] = FilterContainer(m),
           NEW n \in DOMAIN MergeContainers(old, list), NEW f \in Fields \ Allowed
    PROVE  /\ DOMAIN old \subseteq DOMAIN MergeContainers(old, list)
           /\ n \in DOMAIN old =>
                /\ f \in DOMAIN MergeContainers(old, list)[n] <=> f \in DOMAIN old[n]
                /\ f \in DOMAIN old[n] => MergeContainers(old, list)[n][f] = old[n][f]
           /\ n \notin DOMAIN old => f \notin DOMAIN MergeContainers(old, list)[n]
<1>. DEFINE gone == {Name(list[i]) : i \in {i \in DOMAIN list : Deletes(list[i])}}
            named == {Name(list[i]) : i \in {i \in DOMAIN list : ~Deletes(list[i])}}
            given == {i \in DOMAIN list : Name(list[i]) = n /\ ~Deletes(list[i])}
            new == MergeContainers(old, list)
            before == IF n \in DOMAIN old THEN old[n] ELSE <<>>
<1>1. gone = {}
  OBVIOUS
<1>2. DOMAIN new = DOMAIN old \union named /\ new[n] = MergeFields(before, list, given)
  BY <1>1 DEF MergeContainers
<1>3. {i \in given : f \in Fields \cap DOMAIN list[i].map} = {}
  BY FilteredContainer
<1>4. /\ f \in DOMAIN MergeFields(before, list, given) <=> f \in DOMAIN before
      /\ f \in DOMAIN before => MergeFields(before, list, given)[f] = before[f]
  <2>. HIDE DEF given, before
  <2>. QED BY <1>3 DEF MergeFields
<1>5. f \notin DOMAIN <<>>
  OBVIOUS
<1>. QED BY <1>2, <1>4, <1>5

\* A taken patch changes allowed fields only, for patches of every shape.
THEOREM FilterChangesAllowedOnly == Spec => OnlyAllowedChanges
<1>1. ASSUME [Next]_vars PROVE [AllowedChange]_vars
  <2>1. CASE UNCHANGED workload
    BY <2>1 DEF AllowedChange, OffListKept
  <2>2. CASE workload' = Merge(FilterPatch(patch)) /\ Accepted(FilterPatch(patch))
    <3>. DEFINE fp == FilterPatch(patch)
    <3>1. workload'.volumes = workload.volumes
      BY <2>2, FilteredPatch DEF Merge, Otherwise
    <3>2. workload'.containers = IF ContainersOf(fp) = Absent THEN workload.containers
                                 ELSE MergeContainers(workload.containers, ContainersOf(fp).list)
      BY <2>2 DEF Merge
    <3>3. CASE ContainersOf(fp) = Absent
      BY <3>1, <3>2, <3>3 DEF AllowedChange, OffListKept
    <3>4. CASE ContainersOf(fp) # Absent
      <4>1. PICK v : ContainersOf(fp) = FilterContainers(v)
        BY <3>4, FilteredPatch
      <4>2. IsList(ContainersOf(fp))
        BY <2>2, <3>4 DEF Accepted
      <4>. DEFINE list == ContainersOf(fp).list
      <4>3. \A i \in DOMAIN list : ~Deletes(list[i]) /\ \E m : list[i] = FilterContainer(m)
        BY <4>1, <4>2, FilteredItems, FilteredContainer
      <4>4. workload'.containers = MergeContainers(workload.containers, list)
        BY <3>2, <3>4
      <4>5. DOMAIN workload.containers \subseteq DOMAIN workload'.containers
        BY <4>3, <4>4 DEF MergeContainers
      <4>6. ASSUME NEW n \in DOMAIN workload'.containers
            PROVE  OffListKept(n)
        BY <4>3, <4>4, MergeKeeps DEF OffListKept
      <4>. QED BY <3>1, <4>5, <4>6 DEF AllowedChange
    <3>. QED BY <3>3, <3>4
  <2>. QED BY <1>1, <2>1, <2>2 DEF Next, Apply, Answer, vars
<1>. QED BY <1>1, PTL DEF Spec, OnlyAllowedChanges

-----------------------------------------------------------------------------
(* A good patch loses nothing *)

\* A document has a field just when it is an object with that key.
HasDecodedFields(v) == IsMap(v) => \A k \in DOMAIN v.map : Decoded(v.map[k])

LEMMA FieldDecoded ==
    ASSUME NEW v, HasDecodedFields(v), NEW k
    PROVE  /\ Field(v, k) # Absent <=> IsMap(v) /\ k \in DOMAIN v.map
           /\ Field(v, k) # Absent => Field(v, k) = v.map[k] /\ Decoded(Field(v, k))
  BY DEF HasDecodedFields, Field, Decoded

\* Every level that the filter looks at is decoded.
LEMMA LevelsDecoded ==
    ASSUME NEW p \in Patches, kind # "Pod"
    PROVE  /\ Decoded(p)
           /\ \A v \in {p, SpecOf(p), TemplateOf(p), PodSpecOf(p)} : HasDecodedFields(v)
<1>. DEFINE L1 == {p}
            L2 == Deeper(L1)
            L3 == Deeper(L2)
            L4 == Deeper(L3)
            L5 == Deeper(L4)
<1>1. \A v \in L5 : Decoded(v)
  BY PatchesAssumption
<1>2. ASSUME NEW L, NEW v \in L, NEW k
      PROVE  v \in Deeper(L) /\ (IsMap(v) /\ k \in DOMAIN v.map => v.map[k] \in Deeper(L))
  BY DEF Deeper
<1>3. ASSUME NEW L, NEW v, v \in L \union {Absent}, \A w \in Deeper(L) : Decoded(w), NEW k
      PROVE  HasDecodedFields(v) /\ Field(v, k) \in Deeper(L) \union {Absent}
  <2>1. CASE v \in L
    BY <1>2, <1>3, <2>1 DEF HasDecodedFields, Field
  <2>2. CASE v = Absent
    BY <2>2, FieldOfNothing DEF HasDecodedFields, IsMap, Absent
  <2>. QED BY <1>3, <2>1, <2>2
<1>4. /\ \A v \in L4 : v \in L5
      /\ \A v \in L3 : v \in L4
      /\ \A v \in L2 : v \in L3
      /\ \A v \in L1 : v \in L2
  BY DEF Deeper
<1>. HIDE DEF L2, L3, L4, L5
<1>5. /\ \A v \in L2 : Decoded(v)
      /\ \A v \in L3 : Decoded(v)
      /\ \A v \in L4 : Decoded(v)
  BY <1>1, <1>4
<1>6. Decoded(p) /\ HasDecodedFields(p) /\ SpecOf(p) \in L2 \union {Absent}
  BY <1>3, <1>4, <1>5 DEF SpecOf, L2
<1>7. HasDecodedFields(SpecOf(p)) /\ TemplateOf(p) \in L3 \union {Absent}
  BY <1>3, <1>5, <1>6 DEF TemplateOf, L3
<1>8. HasDecodedFields(TemplateOf(p)) /\ PodSpecOf(p) \in L4 \union {Absent}
  BY <1>3, <1>5, <1>7 DEF PodSpecOf, L4
<1>9. HasDecodedFields(PodSpecOf(p))
  BY <1>1, <1>3, <1>8 DEF L5
<1>. QED BY <1>6, <1>7, <1>8, <1>9

\* The filter goes down a good patch level by level, and keeps the replicas.
LEMMA FilterDescends ==
    ASSUME NEW p \in Patches, kind # "Pod",
           \A v \in {p, SpecOf(p), TemplateOf(p), PodSpecOf(p)} : v = Absent \/ IsMap(v)
    PROVE  LET q == FilterPatch(p)
           IN  /\ IsMap(q)
               /\ SpecOf(q) = IF SpecOf(p) = Absent THEN Absent ELSE FilterSpec(SpecOf(p))
               /\ Field(SpecOf(q), "replicas") = Field(SpecOf(p), "replicas")
               /\ TemplateOf(q) = IF TemplateOf(p) = Absent THEN Absent
                                  ELSE FilterPodTemplate(TemplateOf(p))
               /\ PodSpecOf(q) = IF PodSpecOf(p) = Absent THEN Absent
                                 ELSE FilterPodSpec(PodSpecOf(p))
               /\ ContainersOf(q) = IF ContainersOf(p) = Absent THEN Absent
                                    ELSE FilterContainers(ContainersOf(p))
               /\ \A v \in {SpecOf(q), TemplateOf(q), PodSpecOf(q)} : v = Absent \/ IsMap(v)
<1>. DEFINE q == FilterPatch(p)
            spec == SpecOf(p)
            template == TemplateOf(p)
            podSpec == PodSpecOf(p)
<1>1. IsMap(p) /\ HasDecodedFields(p) /\ HasDecodedFields(spec)
      /\ HasDecodedFields(template) /\ HasDecodedFields(podSpec)
  BY LevelsDecoded DEF Decoded
<1>2. q = Map([k \in DOMAIN p.map \cap {"spec"} |-> FilterSpec(p.map[k])])
  BY <1>1 DEF FilterPatch, Only
<1>3. SpecOf(q) = IF spec = Absent THEN Absent ELSE FilterSpec(spec)
  BY <1>1, <1>2, FieldOfMap, FieldDecoded DEF SpecOf
<1>4. spec # Absent =>
        FilterSpec(spec) = Map([k \in DOMAIN spec.map \cap {"replicas", "template"} |->
                IF k = "template" THEN FilterPodTemplate(spec.map[k]) ELSE spec.map[k]])
  BY DEF FilterSpec
<1>5. /\ Field(SpecOf(q), "replicas") = Field(spec, "replicas")
      /\ TemplateOf(q) = IF template = Absent THEN Absent ELSE FilterPodTemplate(template)
  <2>1. CASE spec = Absent
    BY <1>3, <2>1, FieldOfNothing DEF TemplateOf
  <2>2. CASE spec # Absent
    <3>1. /\ Field(SpecOf(q), "replicas")
               = IF "replicas" \in DOMAIN spec.map THEN spec.map["replicas"] ELSE Absent
          /\ Field(SpecOf(q), "template")
               = IF "template" \in DOMAIN spec.map THEN FilterPodTemplate(spec.map["template"])
                 ELSE Absent
      BY <1>3, <1>4, <2>2, FieldOfMap
    <3>2. IsMap(spec)
      BY <2>2
    <3>3. Field(spec, "replicas")
            = IF "replicas" \in DOMAIN spec.map THEN spec.map["replicas"] ELSE Absent
      BY <3>2 DEF Field
    <3>4. TemplateOf(q) = IF template = Absent THEN Absent ELSE FilterPodTemplate(template)
      BY <1>1, <3>1, <3>2, FieldDecoded DEF TemplateOf
    <3>. QED BY <3>1, <3>3, <3>4
  <2>. QED BY <2>1, <2>2
<1>6. podSpec = Field(template, "spec") /\ PodSpecOf(q) = Field(TemplateOf(q), "spec")
  BY DEF PodSpecOf
<1>7. PodSpecOf(q) = IF podSpec = Absent THEN Absent ELSE FilterPodSpec(podSpec)
  <2>1. CASE template = Absent
    BY <1>5, <1>6, <2>1, FieldOfNothing
  <2>2. CASE template # Absent
    <3>1. TemplateOf(q) = Map([k \in DOMAIN template.map \cap {"spec"} |->
                                FilterPodSpec(template.map[k])])
      BY <1>5, <2>2 DEF FilterPodTemplate, Only
    <3>. QED BY <1>1, <1>6, <2>2, <3>1, FieldOfMap, FieldDecoded
  <2>. QED BY <2>1, <2>2
<1>8. ContainersOf(q) = IF ContainersOf(p) = Absent THEN Absent
                        ELSE FilterContainers(ContainersOf(p))
  <2>1. CASE podSpec = Absent
    BY <1>7, <2>1, FieldOfNothing DEF ContainersOf
  <2>2. CASE podSpec # Absent
    <3>1. PodSpecOf(q) = Map([k \in DOMAIN podSpec.map \cap {"containers"} |->
                                FilterContainers(podSpec.map[k])])
      BY <1>7, <2>2 DEF FilterPodSpec, Only
    <3>. QED BY <1>1, <2>2, <3>1, FieldOfMap, FieldDecoded DEF ContainersOf
  <2>. QED BY <2>1, <2>2
<1>9. IsMap(q) /\ \A v \in {SpecOf(q), TemplateOf(q), PodSpecOf(q)} : v = Absent \/ IsMap(v)
  <2>1. \A f : IsMap(Map(f))
    BY DEF IsMap, Map
  <2>2. spec # Absent => IsMap(FilterSpec(spec))
    BY <1>4, <2>1
  <2>3. template # Absent => IsMap(FilterPodTemplate(template))
    BY <2>1 DEF FilterPodTemplate, Only
  <2>4. podSpec # Absent => IsMap(FilterPodSpec(podSpec))
    BY <2>1 DEF FilterPodSpec, Only
  <2>. QED BY <1>2, <1>3, <1>5, <1>7, <2>1, <2>2, <2>3, <2>4
<1>. QED BY <1>3, <1>5, <1>7, <1>8, <1>9

\* A container keeps its name and its fields on the list.
LEMMA ContainerKeeps ==
    ASSUME NEW c
    PROVE  /\ IsMap(FilterContainer(c))
           /\ IsMap(c) => Name(FilterContainer(c)) = Name(c)
           /\ \A f \in Allowed \cap Fields :
                /\ f \in DOMAIN FilterContainer(c).map <=> f \in DOMAIN c.map
                /\ f \in DOMAIN c.map => FilterContainer(c).map[f] = c.map[f]
<1>. DEFINE keys == {k \in DOMAIN c.map : Lower(k) \in Allowed}
<1>1. FilterContainer(c) = Map([k \in keys |-> c.map[k]])
  BY DEF FilterContainer
<1>2. \A k \in (Allowed \cap Fields) \union {"name"} : k \in keys <=> k \in DOMAIN c.map
  BY DEF Allowed, Fields, Lower
<1>3. IsMap(FilterContainer(c)) /\ FilterContainer(c).map = [k \in keys |-> c.map[k]]
  BY <1>1 DEF IsMap, Map
<1>4. IsMap(c) => Name(FilterContainer(c)) = Name(c)
  BY <1>1, <1>2, FieldOfMap DEF Name, Field
<1>. QED BY <1>2, <1>3, <1>4

\* Of a list of containers, each is filtered in its place.
LEMMA ContainersKeep ==
    ASSUME NEW v, Decoded(v), IsList(v), \A i \in DOMAIN v.list : IsMap(v.list[i])
    PROVE  /\ IsList(FilterContainers(v))
           /\ FilterContainers(v).list = [i \in DOMAIN v.list |-> FilterContainer(v.list[i])]
<1>. DEFINE n == Len(v.list)
<1>1. n \in Nat /\ v.list = [i \in 1 .. n |-> v.list[i]]
  BY DEF Decoded
<1>2. {i \in DOMAIN v.list : IsMap(v.list[i])} = 1 .. n /\ DOMAIN v.list = 1 .. n
  BY <1>1
<1>3. Objects(v.list) = v.list
  <2>. HIDE DEF n
  <2>. QED BY <1>1, <1>2, SelectAll DEF Objects
<1>. QED BY <1>2, <1>3 DEF FilterContainers, List, IsList

\* Two containers have the same in one field.
SameField(a, b, f) == (f \in DOMAIN a <=> f \in DOMAIN b) /\ (f \in DOMAIN b => a[f] = b[f])

\* Two workloads have the same containers, as far as the fields of the list go.
SameAllowed(a, b) ==
    /\ DOMAIN a = DOMAIN b
    /\ \A n \in DOMAIN b, f \in Allowed : SameField(a[n], b[n], f)

\* A container merged with filtered items has the fields of the list it would
\* have with the items as they were.
LEMMA MergeFieldsKeeps ==
    ASSUME NEW old, NEW list, NEW new, NEW n \in Nat, DOMAIN list = 1 .. n,
           NEW given \in SUBSET (1 .. n),
           new = [i \in DOMAIN list |-> FilterContainer(list[i])],
           NEW f \in Allowed
    PROVE  SameField(MergeFields(old, new, given), MergeFields(old, list, given), f)
<1>. DEFINE Giving(l) == {i \in given : f \in Fields \cap DOMAIN l[i].map}
            Value(l) == IF Giving(l) = {} THEN old[f] ELSE l[Max(Giving(l))].map[f]
<1>1. Giving(new) = Giving(list)
  BY ContainerKeeps
<1>2. Value(new) = Value(list)
  <2>1. CASE Giving(list) = {}
    BY <1>1, <2>1
  <2>2. CASE Giving(list) # {}
    <3>1. Giving(list) \in SUBSET (1 .. n)
      OBVIOUS
    <3>2. \E m \in Giving(list) : \A i \in Giving(list) : m >= i
      <4>. HIDE DEF Giving
      <4>. QED BY <2>2, <3>1, GreatestIndex
    <3>3. Max(Giving(list)) \in Giving(list)
      <4>. HIDE DEF Giving
      <4>. QED BY <3>2 DEF Max
    <3>4. LET m == Max(Giving(list)) IN new[m].map[f] = list[m].map[f]
      BY <3>3, ContainerKeeps
    <3>. QED BY <1>1, <2>2, <3>4
  <2>. QED BY <2>1, <2>2
<1>3. ASSUME NEW l
      PROVE  /\ f \in DOMAIN MergeFields(old, l, given)
                  <=> /\ f \in DOMAIN old \/ Giving(l) # {}
                      /\ Giving(l) = {} \/ Value(l) # Null
             /\ f \in DOMAIN MergeFields(old, l, given)
                  => MergeFields(old, l, given)[f] = Value(l)
  BY DEF MergeFields
<1>. HIDE DEF Giving, Value
<1>4. /\ f \in DOMAIN MergeFields(old, list, given)
           <=> f \in DOMAIN MergeFields(old, new, given)
      /\ f \in DOMAIN MergeFields(old, list, given)
           => MergeFields(old, new, given)[f] = MergeFields(old, list, given)[f]
  BY <1>1, <1>2, <1>3
<1>. QED BY <1>4 DEF SameField

\* The same for all containers of a workload.
LEMMA MergeContainersKeeps ==
    ASSUME NEW old, NEW list, NEW new, NEW k \in Nat, DOMAIN list = 1 .. k,
           new = [i \in DOMAIN list |-> FilterContainer(list[i])],
           \A i \in DOMAIN list : IsMap(list[i]) /\ ~Deletes(list[i])
    PROVE  SameAllowed(MergeContainers(old, new), MergeContainers(old, list))
<1>. DEFINE gone(l) == {Name(l[i]) : i \in {i \in DOMAIN l : Deletes(l[i])}}
            Given(l, n) == {i \in DOMAIN l : Name(l[i]) = n /\ ~Deletes(l[i])}
            named(l) == {Name(l[i]) : i \in {i \in DOMAIN l : ~Deletes(l[i])}}
            before(l, n) == IF n \in DOMAIN old \ gone(l) THEN old[n] ELSE <<>>
<1>1. /\ DOMAIN new = DOMAIN list
      /\ \A i \in DOMAIN list : Name(new[i]) = Name(list[i]) /\ ~Deletes(new[i])
  BY ContainerKeeps, FilteredContainer
<1>2. gone(list) = {} /\ gone(new) = {} /\ named(new) = named(list)
  BY <1>1
<1>3. \A n : Given(new, n) = Given(list, n) /\ before(new, n) = before(list, n)
  BY <1>1, <1>2
<1>4. ASSUME NEW l
      PROVE  /\ DOMAIN MergeContainers(old, l) = (DOMAIN old \ gone(l)) \union named(l)
             /\ \A n \in DOMAIN MergeContainers(old, l) :
                  MergeContainers(old, l)[n] = MergeFields(before(l, n), l, Given(l, n))
  BY DEF MergeContainers
<1>5. \A n : Given(list, n) \in SUBSET (1 .. k)
  OBVIOUS
<1>. HIDE DEF gone, Given, named, before
<1>6. DOMAIN MergeContainers(old, new) = DOMAIN MergeContainers(old, list)
  BY <1>2, <1>4
<1>7. ASSUME NEW n \in DOMAIN MergeContainers(old, list), NEW f \in Allowed
      PROVE  SameField(MergeContainers(old, new)[n], MergeContainers(old, list)[n], f)
  <2>1. /\ MergeContainers(old, list)[n] = MergeFields(before(list, n), list, Given(list, n))
        /\ MergeContainers(old, new)[n] = MergeFields(before(list, n), new, Given(list, n))
    <3>1. MergeContainers(old, list)[n] = MergeFields(before(list, n), list, Given(list, n))
      BY <1>4
    <3>2. MergeContainers(old, new)[n] = MergeFields(before(new, n), new, Given(new, n))
      BY <1>4, <1>6
    <3>3. before(new, n) = before(list, n) /\ Given(new, n) = Given(list, n)
      BY <1>3
    <3>. QED BY <3>1, <3>2, <3>3
  <2>2. ASSUME NEW b, NEW given \in SUBSET (1 .. k)
        PROVE  SameField(MergeFields(b, new, given), MergeFields(b, list, given), f)
    BY MergeFieldsKeeps
  <2>. QED BY <1>5, <2>1, <2>2
<1>. QED BY <1>6, <1>7 DEF SameAllowed

\* A patch that is taken as it is, and deletes nothing, is taken filtered, with
\* the same effect on the fields of the list.
LEMMA GoodPatchKeepsAllowed ==
    ASSUME patch \in Patches, kind # "Pod"
    PROVE  KeepsAllowed
<1>. SUFFICES ASSUME Accepted(patch),
                     ContainersOf(patch) # Absent => \A c \in Items(patch) : ~Deletes(c)
              PROVE  /\ Accepted(FilterPatch(patch))
                     /\ AllowedPart(Merge(FilterPatch(patch))) = AllowedPart(Merge(patch))
  BY DEF KeepsAllowed
<1>. DEFINE q == FilterPatch(patch)
            given == ContainersOf(patch)
            old == workload.containers
<1>1. \A v \in {patch, SpecOf(patch), TemplateOf(patch), PodSpecOf(patch)} : v = Absent \/ IsMap(v)
  BY DEF Accepted
<1>2. /\ IsMap(q)
      /\ Field(SpecOf(q), "replicas") = Field(SpecOf(patch), "replicas")
      /\ ContainersOf(q) = IF given = Absent THEN Absent ELSE FilterContainers(given)
      /\ \A v \in {SpecOf(q), TemplateOf(q), PodSpecOf(q)} : v = Absent \/ IsMap(v)
  BY <1>1, FilterDescends
<1>3. Merge(q).replicas = Merge(patch).replicas
  BY <1>2 DEF Merge
<1>4. CASE given = Absent
  <2>1. ContainersOf(q) = Absent
    BY <1>2, <1>4
  <2>2. Merge(q).containers = old /\ Merge(patch).containers = old
    BY <1>4, <2>1 DEF Merge
  <2>3. Accepted(q)
    BY <1>2, <2>1 DEF Accepted
  <2>. QED BY <1>3, <2>2, <2>3 DEF AllowedPart
<1>5. CASE given # Absent
  <2>. DEFINE list == given.list
              new == ContainersOf(q).list
              k == Len(list)
              was == MergeContainers(old, list)
              now == MergeContainers(old, new)
  <2>1. Decoded(given) /\ IsList(given)
    BY <1>5, LevelsDecoded, FieldDecoded DEF ContainersOf, Accepted
  <2>2. k \in Nat /\ DOMAIN list = 1 .. k
    BY <2>1 DEF Decoded
  <2>3. \A i \in DOMAIN list : IsMap(list[i]) /\ ~Deletes(list[i]) /\ "atom" \in DOMAIN Name(list[i])
    BY <1>5 DEF Items, Accepted
  <2>4. ContainersOf(q) = FilterContainers(given) /\ IsList(ContainersOf(q))
        /\ new = [i \in DOMAIN list |-> FilterContainer(list[i])]
    BY <1>2, <1>5, <2>1, <2>3, ContainersKeep
  <2>5. ContainersOf(q) # Absent
    BY <2>4 DEF IsList, Absent
  <2>6. Merge(patch).containers = was /\ Merge(q).containers = now
    BY <1>5, <2>5 DEF Merge
  <2>7. /\ DOMAIN now = DOMAIN was
        /\ \A n \in DOMAIN was, f \in Allowed :
             /\ f \in DOMAIN now[n] <=> f \in DOMAIN was[n]
             /\ f \in DOMAIN was[n] => now[n][f] = was[n][f]
    <3>1. SameAllowed(now, was)
      <4>. HIDE DEF list, new, k
      <4>. QED BY <2>2, <2>3, <2>4, MergeContainersKeeps
    <3>. HIDE DEF now, was
    <3>. QED BY <3>1 DEF SameAllowed, SameField
  <2>8. Accepted(q)
    <3>1. \A c \in Items(q) : IsMap(c) /\ "atom" \in DOMAIN Name(c)
      BY <2>3, <2>4, ContainerKeeps DEF Items
    <3>2. DOMAIN was # {} /\ \A n \in DOMAIN was : "image" \in DOMAIN was[n]
      BY <1>5, <2>6 DEF Accepted
    <3>3. DOMAIN now # {} /\ \A n \in DOMAIN now : "image" \in DOMAIN now[n]
      <4>1. "image" \in Allowed
        BY DEF Allowed
      <4>. QED BY <2>7, <3>2, <4>1
    <3>. QED BY <1>2, <2>4, <2>6, <3>1, <3>3 DEF Accepted
  <2>9. AllowedPart(Merge(q)) = AllowedPart(Merge(patch))
    <3>. DEFINE part(w) == [n \in DOMAIN w |-> [f \in DOMAIN w[n] \cap Allowed |-> w[n][f]]]
    <3>1. ASSUME NEW n \in DOMAIN was
          PROVE  [f \in DOMAIN now[n] \cap Allowed |-> now[n][f]]
                   = [f \in DOMAIN was[n] \cap Allowed |-> was[n][f]]
      <4>. HIDE DEF now, was
      <4>1. DOMAIN now[n] \cap Allowed = DOMAIN was[n] \cap Allowed
        BY <2>7
      <4>2. \A f \in DOMAIN was[n] \cap Allowed : now[n][f] = was[n][f]
        BY <2>7
      <4>. QED BY <4>1, <4>2
    <3>2. part(now) = part(was)
      <4>. HIDE DEF now, was
      <4>. QED BY <2>7, <3>1
    <3>. QED BY <1>3, <2>6, <3>2 DEF AllowedPart
  <2>. QED BY <2>8, <2>9
<1>. QED BY <1>4, <1>5

\* Filtering takes nothing from a good patch, for the kinds with a template,
\* whatever patches the LLM may suggest.
THEOREM FilterKeepsAllowed == Spec => []TemplateKeepsAllowed
<1>. DEFINE PatchInv == patch \in Patches \union {Null}
<1>1. Init => PatchInv
  BY DEF Init
<1>2. PatchInv /\ [Next]_vars => PatchInv'
  BY DEF Next, Apply, Answer, vars
<1>3. PatchInv => TemplateKeepsAllowed
  BY GoodPatchKeepsAllowed DEF TemplateKeepsAllowed, KeepsAllowed
<1>. QED BY <1>1, <1>2, <1>3, PTL DEF Spec

=============================================================================
