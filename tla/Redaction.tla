----------------------------- MODULE Redaction -----------------------------
(***************************************************************************)
(* redactMap (operator/internal/redact): an object of the spec of a        *)
(* workload is gone through, and what may hold a secret in a pod spec is   *)
(* masked in place.  As in Go, each decoded object is a map of its own,    *)
(* and what holds it refers to it: a spec is a function from its objects   *)
(* to their fields.                                                        *)
(***************************************************************************)
EXTENDS Documents

CONSTANT Root   \* the object RedactSpec starts from

Ref(o) == [ref |-> o]
Redacted == Atom("REDACTED")

\* The list that takes the place of secrets to pull images with.
Placeholder == List(<<Map([name |-> Redacted])>>)

Is(d, o, k, v) == k \in DOMAIN d[o] /\ d[o][k] = v

\* The objects in the list at k; what is not an object stays as it is there.
ObjectsAt(d, o, k) ==
    {i \in DOMAIN d : /\ k \in DOMAIN d[o] /\ IsList(d[o][k])
                      /\ \E n \in DOMAIN d[o][k].list : d[o][k].list[n] = Ref(i)}

ContainerKeys == {"containers", "initContainers"}

\* The lists redactMap does not go on into.
OwnLists == ContainerKeys \union {"imagePullSecrets"}

Containers(d, m) == UNION {ObjectsAt(d, m, k) : k \in ContainerKeys}
EnvVars(d, m) == UNION {ObjectsAt(d, c, "env") : c \in Containers(d, m)}

Secrets(d, m) ==
    {s \in DOMAIN d : \E v \in ObjectsAt(d, m, "volumes") : Is(d, v, "secret", Ref(s))}

HasPullSecrets(d, m) ==
    /\ "imagePullSecrets" \in DOMAIN d[m]
    /\ IsList(d[m]["imagePullSecrets"]) /\ d[m]["imagePullSecrets"].list # <<>>

\* Of the names in use, those that contain one of SecretEnvSubstrings.
IsSecretEnvName(n) == n \in {Atom("API_KEY"), Atom("db_password")}

HasSecretName(e) == "name" \in DOMAIN e /\ IsSecretEnvName(e["name"])

-----------------------------------------------------------------------------
(* What becomes of the fields of an object *)

\* Bug: only a variable with a value loses its reference.
RedactEnvVarValue(e) ==
    IF HasSecretName(e) /\ "value" \in DOMAIN e THEN [e EXCEPT !["value"] = Redacted] ELSE e

\* A suspicious name: the value is masked, if need be added, and there is no
\* reference any more.  Any other name: a reference is masked.
RedactEnvVar(e) ==
    [k \in IF HasSecretName(e) THEN (DOMAIN e \ {"valueFrom"}) \union {"value"} ELSE DOMAIN e
       |-> IF k = "valueFrom" \/ (k = "value" /\ HasSecretName(e)) THEN Redacted ELSE e[k]]

HideSecretName(s) ==
    [k \in DOMAIN s \union {"secretName"} |-> IF k = "secretName" THEN Redacted ELSE s[k]]

HidePullSecrets(m) == [m EXCEPT !["imagePullSecrets"] = Placeholder]

RedactObject(d, m) ==
    [o \in DOMAIN d |->
        LET named == IF o \in EnvVars(d, m) THEN RedactEnvVar(d[o]) ELSE d[o]
            hidden == IF o \in Secrets(d, m) THEN HideSecretName(named) ELSE named
        IN  IF o = m /\ HasPullSecrets(d, m) THEN HidePullSecrets(hidden) ELSE hidden]

\* The objects redactMap goes on with: fields of m, and items of its lists.
Called(d, m) ==
    {o \in DOMAIN d : \E k \in DOMAIN d[m] :
        d[m][k] = Ref(o) \/ (k \notin OwnLists /\ o \in ObjectsAt(d, m, k))}

-----------------------------------------------------------------------------
(* What a spec is *)

References(d, m) ==
    {o \in DOMAIN d : \E k \in DOMAIN d[m] : d[m][k] = Ref(o) \/ o \in ObjectsAt(d, m, k)}

\* Each object is somewhere in the spec.
Connected(d) ==
    \A S \in SUBSET DOMAIN d :
        Root \in S /\ (\A m \in S : References(d, m) \subseteq S) => S = DOMAIN d

PodSpecLists == OwnLists \union {"volumes"}

\* The types of Kubernetes: a container, a secret to pull with and what is inside
\* of them hold no lists of a pod spec; the name of a secret is a string.
IsInner(d, inner) ==
    /\ \A m \in DOMAIN d, k \in OwnLists : ObjectsAt(d, m, k) \subseteq inner
    /\ \A m \in inner : References(d, m) \subseteq inner /\ DOMAIN d[m] \intersect PodSpecLists = {}

Typed(d) ==
    /\ \E inner \in SUBSET DOMAIN d : IsInner(d, inner)
    /\ \A m \in DOMAIN d : "secretName" \in DOMAIN d[m] =>
         ~IsList(d[m]["secretName"]) /\ \A o \in DOMAIN d : d[m]["secretName"] # Ref(o)

IsSpec(d) ==
    /\ d = [o \in DOMAIN d |-> [k \in DOMAIN d[o] |-> d[o][k]]]
    /\ Root \in DOMAIN d
    /\ Connected(d)
    /\ Typed(d)

-----------------------------------------------------------------------------
(* What redaction does, said of the whole spec *)

\* No reference is left in the variable, and no value when its name is suspicious.
VarMasked(e) ==
    /\ "valueFrom" \in DOMAIN e => e["valueFrom"] = Redacted
    /\ HasSecretName(e) => "value" \in DOMAIN e /\ e["value"] = Redacted

\* Whichever object has the lists of a pod spec, these of its places are masked:
\* the variables of containers and init containers, the names of secret volumes
\* and the pull secrets.  Ephemeral containers, whole secrets taken as variables
\* (envFrom) and secrets projected into volumes are not among them.
PlacesMasked(d) ==
    \A m \in DOMAIN d :
        /\ \A e \in EnvVars(d, m) : VarMasked(d[e])
        /\ \A s \in Secrets(d, m) : Is(d, s, "secretName", Redacted)
        /\ HasPullSecrets(d, m) => Is(d, m, "imagePullSecrets", Placeholder)

\* What names a secret elsewhere in a pod spec: envFrom and projected volumes.
SecretSources(d) ==
    {s \in DOMAIN d : \E o \in DOMAIN d :
        \/ Is(d, o, "secretRef", Ref(s))
        \/ Is(d, o, "secret", Ref(s)) /\ \E p \in DOMAIN d : o \in ObjectsAt(d, p, "sources")}

\* A field that is masked.
Secret(d, o, k) ==
    \/ k \in {"value", "valueFrom"} /\ \E m \in DOMAIN d : o \in EnvVars(d, m)
    \/ k = "secretName" /\ \E m \in DOMAIN d : o \in Secrets(d, m)
    \/ k = "imagePullSecrets" /\ HasPullSecrets(d, o)

\* Everything else is as it was, and nothing appears but masks.
OthersKept(old, new) ==
    /\ DOMAIN new = DOMAIN old
    /\ \A o \in DOMAIN old :
         /\ \A k \in DOMAIN old[o] : Is(new, o, k, old[o][k]) \/ Secret(old, o, k)
         /\ \A k \in DOMAIN new[o] :
              \/ Is(old, o, k, new[o][k])
              \/ Secret(old, o, k) /\ new[o][k] \in {Redacted, Placeholder}

\* Whichever objects a second walk goes through, it changes nothing.
SameAgain(d) == \A m \in DOMAIN d : RedactObject(d, m) = d
=============================================================================
