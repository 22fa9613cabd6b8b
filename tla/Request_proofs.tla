--------------------------- MODULE Request_proofs ---------------------------
(***************************************************************************)
(* The places redactMap knows are masked in the spec that leaves the       *)
(* cluster, however its objects are nested and in whichever order it goes  *)
(* through them, and nothing else is changed.                              *)
(***************************************************************************)
EXTENDS Request, TLAPS

\* The fields redaction changes.
Written == {"value", "valueFrom", "secretName", "imagePullSecrets"}

IsDocument(d) == d = [o \in DOMAIN d |-> [k \in DOMAIN d[o] |-> d[o][k]]]

\* Field k is in both objects, and the same, or in neither.
SameIn(c, e, k) ==
    /\ k \in DOMAIN e <=> k \in DOMAIN c
    /\ k \in DOMAIN c => e[k] = c[k]

SameField(d, n, o, k) == SameIn(d[o], n[o], k)

\* What redaction goes by is never changed: it has the same lists and names.
SameShape(d, n) ==
    /\ DOMAIN n = DOMAIN d
    /\ \A o \in DOMAIN d : \A k \in (DOMAIN d[o] \union DOMAIN n[o]) \ Written :
         SameField(d, n, o, k)

Masked(d, n, o, k) == Secret(d, o, k) /\ (k \in DOMAIN n[o] => n[o][k] \in {Redacted, Placeholder})

EnvMasked(e) ==
    /\ "valueFrom" \in DOMAIN e => e["valueFrom"] = Redacted
    /\ HasSecretName(e) =>
         "valueFrom" \notin DOMAIN e /\ "value" \in DOMAIN e /\ e["value"] = Redacted

\* Nothing is left to mask for redactMap in this object.
MaskedAt(d, m) ==
    /\ \A e \in EnvVars(d, m) : EnvMasked(d[e])
    /\ \A s \in Secrets(d, m) : Is(d, s, "secretName", Redacted)
    /\ HasPullSecrets(d, m) => Is(d, m, "imagePullSecrets", Placeholder)

-----------------------------------------------------------------------------
(* The lists of two specs of the same shape *)

LEMMA SameObjectsAt ==
    ASSUME NEW d, NEW n, SameShape(d, n), NEW m \in DOMAIN d, NEW k, k \notin Written
    PROVE  ObjectsAt(n, m, k) = ObjectsAt(d, m, k)
<1>1. DOMAIN n = DOMAIN d /\ SameField(d, n, m, k)
  BY DEF SameShape, SameField, SameIn
<1>. QED BY <1>1 DEF ObjectsAt, SameField, SameIn

LEMMA NotWritten ==
    /\ {"containers", "initContainers", "env", "volumes", "secret", "name"} \intersect Written = {}
    /\ ContainerKeys \intersect Written = {}
  BY DEF Written, ContainerKeys

\* The objects in a list are objects of the spec.
LEMMA ObjectsOfSpec ==
    ASSUME NEW d, NEW m
    PROVE  /\ \A k : ObjectsAt(d, m, k) \subseteq DOMAIN d
           /\ Containers(d, m) \subseteq DOMAIN d
           /\ EnvVars(d, m) \subseteq DOMAIN d
           /\ Secrets(d, m) \subseteq DOMAIN d
<1>1. \A o, k : ObjectsAt(d, o, k) \subseteq DOMAIN d
  BY DEF ObjectsAt
<1>2. Containers(d, m) \subseteq DOMAIN d
  BY <1>1 DEF Containers
<1>3. EnvVars(d, m) \subseteq DOMAIN d
  BY <1>1 DEF EnvVars
<1>. QED BY <1>1, <1>2, <1>3 DEF Secrets

LEMMA SameMembers ==
    ASSUME NEW d, NEW n, SameShape(d, n), NEW m \in DOMAIN d
    PROVE  /\ Containers(n, m) = Containers(d, m)
           /\ EnvVars(n, m) = EnvVars(d, m)
           /\ Secrets(n, m) = Secrets(d, m)
           /\ HasSecretName(n[m]) <=> HasSecretName(d[m])
<1>1. \A k \in ContainerKeys : ObjectsAt(n, m, k) = ObjectsAt(d, m, k)
  BY SameObjectsAt, NotWritten
<1>2. Containers(n, m) = Containers(d, m)
  BY <1>1, Zenon DEF Containers
<1>3. \A c \in Containers(d, m) : ObjectsAt(n, c, "env") = ObjectsAt(d, c, "env")
  BY SameObjectsAt, NotWritten, ObjectsOfSpec
<1>4. EnvVars(n, m) = EnvVars(d, m)
  BY <1>2, <1>3 DEF EnvVars
<1>5. ObjectsAt(n, m, "volumes") = ObjectsAt(d, m, "volumes")
  BY SameObjectsAt, NotWritten
<1>6. \A v \in ObjectsAt(d, m, "volumes") : SameField(d, n, v, "secret")
  BY ObjectsOfSpec, NotWritten DEF SameShape, SameField, SameIn
<1>7. Secrets(n, m) = Secrets(d, m)
  BY <1>5, <1>6 DEF Secrets, Is, SameField, SameIn, SameShape
<1>8. SameField(d, n, m, "name")
  BY NotWritten DEF SameShape, SameField, SameIn
<1>9. HasSecretName(n[m]) <=> HasSecretName(d[m])
  BY <1>8 DEF HasSecretName, SameField, SameIn
<1>. QED BY <1>2, <1>4, <1>7, <1>9

-----------------------------------------------------------------------------
(* What is masked in an object *)

IsObject(c) == c = [k \in DOMAIN c |-> c[k]]

LEMMA EnvVarMasked ==
    ASSUME NEW c
    PROVE  /\ \A k : k \notin {"value", "valueFrom"} => SameIn(c, RedactEnvVar(c), k)
           /\ \A k \in {"value", "valueFrom"} : \/ SameIn(c, RedactEnvVar(c), k)
                                                \/ k \notin DOMAIN RedactEnvVar(c)
                                                \/ RedactEnvVar(c)[k] = Redacted
           /\ EnvMasked(RedactEnvVar(c))
           /\ IsObject(RedactEnvVar(c))
<1>. DEFINE names == IF HasSecretName(c) THEN (DOMAIN c \ {"valueFrom"}) \union {"value"}
                                        ELSE DOMAIN c
            e == RedactEnvVar(c)
<1>1. /\ DOMAIN e = names
      /\ \A k \in names :
            e[k] = IF k = "valueFrom" \/ (k = "value" /\ HasSecretName(c)) THEN Redacted ELSE c[k]
      /\ e = [k \in DOMAIN e |-> e[k]]
  BY DEF RedactEnvVar
<1>. HIDE DEF e
<1>2. ASSUME NEW k, k \notin {"value", "valueFrom"} PROVE SameIn(c, e, k)
  BY <1>1, <1>2 DEF SameIn
<1>3. HasSecretName(e) <=> HasSecretName(c)
  BY <1>2 DEF SameIn, HasSecretName
<1>4. \A k \in {"value", "valueFrom"} : SameIn(c, e, k) \/ k \notin DOMAIN e \/ e[k] = Redacted
  BY <1>1 DEF SameIn
<1>5. EnvMasked(e)
  BY <1>1, <1>3 DEF EnvMasked
<1>6. IsObject(e)
  BY <1>1 DEF IsObject
<1>. QED BY <1>2, <1>4, <1>5, <1>6 DEF e

LEMMA EnvVarStays ==
    ASSUME NEW c, IsObject(c), EnvMasked(c)
    PROVE  RedactEnvVar(c) = c
<1>1. (IF HasSecretName(c) THEN (DOMAIN c \ {"valueFrom"}) \union {"value"} ELSE DOMAIN c)
        = DOMAIN c
  BY DEF EnvMasked
<1>2. \A k \in DOMAIN c :
        (IF k = "valueFrom" \/ (k = "value" /\ HasSecretName(c)) THEN Redacted ELSE c[k]) = c[k]
  BY DEF EnvMasked
<1>3. RedactEnvVar(c) = [k \in DOMAIN c |-> c[k]]
  BY <1>1, <1>2 DEF RedactEnvVar
<1>. QED BY <1>3 DEF IsObject

LEMMA SecretNameHidden ==
    ASSUME NEW c
    PROVE  /\ \A k : k # "secretName" => SameIn(c, HideSecretName(c), k)
           /\ "secretName" \in DOMAIN HideSecretName(c)
           /\ HideSecretName(c)["secretName"] = Redacted
           /\ IsObject(HideSecretName(c))
           /\ IsObject(c) /\ "secretName" \in DOMAIN c /\ c["secretName"] = Redacted
                => HideSecretName(c) = c
<1>1. /\ DOMAIN HideSecretName(c) = DOMAIN c \union {"secretName"}
      /\ \A k \in DOMAIN c \union {"secretName"} :
            HideSecretName(c)[k] = IF k = "secretName" THEN Redacted ELSE c[k]
      /\ IsObject(HideSecretName(c))
  BY DEF HideSecretName, IsObject
<1>2. ASSUME IsObject(c), "secretName" \in DOMAIN c, c["secretName"] = Redacted
      PROVE  HideSecretName(c) = c
  <2>1. DOMAIN c \union {"secretName"} = DOMAIN c
    BY <1>2
  <2>2. \A k \in DOMAIN c : (IF k = "secretName" THEN Redacted ELSE c[k]) = c[k]
    BY <1>2
  <2>3. HideSecretName(c) = [k \in DOMAIN c |-> c[k]]
    BY <2>1, <2>2 DEF HideSecretName
  <2>. QED BY <1>2, <2>3 DEF IsObject
<1>. QED BY <1>1, <1>2 DEF SameIn

LEMMA PullSecretsHidden ==
    ASSUME NEW c, IsObject(c), "imagePullSecrets" \in DOMAIN c
    PROVE  /\ \A k : k # "imagePullSecrets" => SameIn(c, HidePullSecrets(c), k)
           /\ "imagePullSecrets" \in DOMAIN HidePullSecrets(c)
           /\ HidePullSecrets(c)["imagePullSecrets"] = Placeholder
           /\ IsObject(HidePullSecrets(c))
           /\ c["imagePullSecrets"] = Placeholder => HidePullSecrets(c) = c
<1>1. HidePullSecrets(c) = [k \in DOMAIN c |-> IF k = "imagePullSecrets" THEN Placeholder ELSE c[k]]
  BY DEF HidePullSecrets
<1>2. ASSUME c["imagePullSecrets"] = Placeholder PROVE HidePullSecrets(c) = c
  <2>1. \A k \in DOMAIN c : (IF k = "imagePullSecrets" THEN Placeholder ELSE c[k]) = c[k]
    BY <1>2
  <2>2. HidePullSecrets(c) = [k \in DOMAIN c |-> c[k]]
    BY <1>1, <2>1
  <2>. QED BY <2>2 DEF IsObject
<1>3. IsObject(HidePullSecrets(c))
  BY <1>1 DEF IsObject
<1>. QED BY <1>1, <1>2, <1>3 DEF SameIn

-----------------------------------------------------------------------------
(* What one call of redactMap does to a field *)

LEMMA RedactedObject ==
    ASSUME NEW d, NEW m, NEW o \in DOMAIN d
    PROVE  RedactObject(d, m)[o] =
             LET named == IF o \in EnvVars(d, m) THEN RedactEnvVar(d[o]) ELSE d[o]
                 hidden == IF o \in Secrets(d, m) THEN HideSecretName(named) ELSE named
             IN  IF o = m /\ HasPullSecrets(d, m) THEN HidePullSecrets(hidden) ELSE hidden
  BY DEF RedactObject

LEMMA RedactedDomain ==
    ASSUME NEW d, NEW m
    PROVE  DOMAIN RedactObject(d, m) = DOMAIN d
  BY DEF RedactObject

\* A field is as before, or one that is to be masked and is; and what is masked
\* stays masked.
LEMMA FieldsRedacted ==
    ASSUME NEW d, IsDocument(d), NEW m \in DOMAIN d, NEW o \in DOMAIN d, NEW n, n = RedactObject(d, m)
    PROVE  /\ IsObject(n[o])
           /\ \A k : SameField(d, n, o, k) \/ Masked(d, n, o, k)
           /\ o \in EnvVars(d, m) \/ EnvMasked(d[o]) => EnvMasked(n[o])
           /\ o \in Secrets(d, m) \/ Is(d, o, "secretName", Redacted) => Is(n, o, "secretName", Redacted)
           /\ (o = m /\ HasPullSecrets(d, m)) \/ Is(d, o, "imagePullSecrets", Placeholder)
                => Is(n, o, "imagePullSecrets", Placeholder)
<1>1. PICK named : named = IF o \in EnvVars(d, m) THEN RedactEnvVar(d[o]) ELSE d[o]
  OBVIOUS
<1>2. PICK hidden : hidden = IF o \in Secrets(d, m) THEN HideSecretName(named) ELSE named
  OBVIOUS
<1>3. n[o] = IF o = m /\ HasPullSecrets(d, m) THEN HidePullSecrets(hidden) ELSE hidden
  BY <1>1, <1>2, RedactedObject
<1>4. IsObject(d[o])
  BY DEF IsDocument, IsObject
<1>5. /\ IsObject(named)
      /\ \A k : k \notin {"value", "valueFrom"} \/ o \notin EnvVars(d, m) => SameIn(d[o], named, k)
      /\ \A k \in {"value", "valueFrom"} :
           SameIn(d[o], named, k) \/ k \notin DOMAIN named \/ named[k] = Redacted
      /\ o \in EnvVars(d, m) \/ EnvMasked(d[o]) => EnvMasked(named)
  BY <1>1, <1>4, EnvVarMasked DEF SameIn
<1>6. /\ IsObject(hidden)
      /\ \A k : k # "secretName" \/ o \notin Secrets(d, m) => SameIn(named, hidden, k)
      /\ o \in Secrets(d, m) => "secretName" \in DOMAIN hidden /\ hidden["secretName"] = Redacted
  BY <1>2, <1>5, SecretNameHidden DEF SameIn
<1>7. o = m /\ HasPullSecrets(d, m) => "imagePullSecrets" \in DOMAIN hidden
  <2>1. SameIn(d[o], named, "imagePullSecrets") /\ SameIn(named, hidden, "imagePullSecrets")
    BY <1>5, <1>6
  <2>. QED BY <2>1 DEF HasPullSecrets, SameIn
<1>8. /\ IsObject(n[o])
      /\ \A k : k # "imagePullSecrets" \/ ~(o = m /\ HasPullSecrets(d, m)) => SameIn(hidden, n[o], k)
      /\ o = m /\ HasPullSecrets(d, m) => Is(n, o, "imagePullSecrets", Placeholder)
  BY <1>3, <1>6, <1>7, PullSecretsHidden DEF SameIn, Is
<1>9. ASSUME NEW k PROVE SameField(d, n, o, k) \/ Masked(d, n, o, k)
  <2>1. CASE k \in {"value", "valueFrom"}
    <3>1. SameIn(named, hidden, k) /\ SameIn(hidden, n[o], k)
      BY <2>1, <1>6, <1>8
    <3>2. CASE SameIn(d[o], named, k)
      BY <3>1, <3>2 DEF SameIn, SameField
    <3>3. CASE ~SameIn(d[o], named, k)
      <4>1. o \in EnvVars(d, m) /\ (k \notin DOMAIN named \/ named[k] = Redacted)
        BY <2>1, <3>3, <1>5
      <4>. QED BY <2>1, <3>1, <4>1 DEF SameIn, Masked, Secret
    <3>. QED BY <3>2, <3>3
  <2>2. CASE k = "secretName"
    <3>1. SameIn(d[o], named, k) /\ SameIn(hidden, n[o], k)
      BY <2>2, <1>5, <1>8
    <3>. QED BY <2>2, <3>1, <1>6 DEF SameIn, SameField, Masked, Secret
  <2>3. CASE k = "imagePullSecrets"
    <3>1. SameIn(d[o], named, k) /\ SameIn(named, hidden, k)
      BY <2>3, <1>5, <1>6
    <3>. QED BY <2>3, <3>1, <1>8 DEF SameIn, SameField, Masked, Secret, Is
  <2>4. CASE k \notin Written
    <3>1. SameIn(d[o], named, k) /\ SameIn(named, hidden, k) /\ SameIn(hidden, n[o], k)
      BY <2>4, <1>5, <1>6, <1>8 DEF Written
    <3>. QED BY <3>1 DEF SameIn, SameField
  <2>. QED BY <2>1, <2>2, <2>3, <2>4 DEF Written
<1>10. ASSUME o \in EnvVars(d, m) \/ EnvMasked(d[o]) PROVE EnvMasked(n[o])
  <2>1. \A k \in {"name", "value", "valueFrom"} : SameIn(named, hidden, k) /\ SameIn(hidden, n[o], k)
    BY <1>6, <1>8
  <2>2. EnvMasked(named)
    BY <1>5, <1>10
  <2>. QED BY <2>1, <2>2 DEF EnvMasked, HasSecretName, SameIn
<1>11. ASSUME o \in Secrets(d, m) \/ Is(d, o, "secretName", Redacted)
       PROVE  Is(n, o, "secretName", Redacted)
  <2>1. SameIn(d[o], named, "secretName") /\ SameIn(hidden, n[o], "secretName")
    BY <1>5, <1>8
  <2>. QED BY <2>1, <1>6, <1>11 DEF Is, SameIn
<1>12. ASSUME \/ o = m /\ HasPullSecrets(d, m)
              \/ Is(d, o, "imagePullSecrets", Placeholder)
       PROVE  Is(n, o, "imagePullSecrets", Placeholder)
  <2>1. SameIn(d[o], named, "imagePullSecrets") /\ SameIn(named, hidden, "imagePullSecrets")
    BY <1>5, <1>6
  <2>. QED BY <2>1, <1>8, <1>12 DEF Is, SameIn
<1>. QED BY <1>8, <1>9, <1>10, <1>11, <1>12

\* redactMap changes the shape of no object, and masks nothing else.
LEMMA ShapeRedacted ==
    ASSUME NEW d, IsDocument(d), NEW m \in DOMAIN d, NEW n, n = RedactObject(d, m)
    PROVE  IsDocument(n) /\ SameShape(d, n)
<1>1. DOMAIN n = DOMAIN d /\ n = [o \in DOMAIN n |-> n[o]]
  BY RedactedDomain DEF RedactObject
<1>2. \A o \in DOMAIN d : n[o] = [k \in DOMAIN n[o] |-> n[o][k]]
  <2>1. \A o \in DOMAIN d : IsObject(n[o])
    BY FieldsRedacted
  <2>. QED BY <2>1, Zenon DEF IsObject
<1>3. IsDocument(n)
  BY <1>1, <1>2 DEF IsDocument
<1>4. ASSUME NEW o \in DOMAIN d, NEW k, k \notin Written PROVE SameField(d, n, o, k)
  <2>1. ~Masked(d, n, o, k)
    BY <1>4 DEF Masked, Secret, Written
  <2>. QED BY <2>1, FieldsRedacted
<1>. QED BY <1>1, <1>3, <1>4 DEF SameShape

LEMMA PullSecretsStay ==
    ASSUME NEW d, IsDocument(d), NEW m \in DOMAIN d, NEW o \in DOMAIN d,
           HasPullSecrets(RedactObject(d, m), o)
    PROVE  HasPullSecrets(d, o)
<1>. DEFINE n == RedactObject(d, m)
<1>1. SameField(d, n, o, "imagePullSecrets") \/ Masked(d, n, o, "imagePullSecrets")
  BY FieldsRedacted
<1>. HIDE DEF n
<1>2. HasPullSecrets(n, o)
  BY DEF n
<1>. QED BY <1>1, <1>2 DEF HasPullSecrets, SameField, SameIn, Masked, Secret

\* After the call the object is masked, and every other one that was is so still.
LEMMA MaskedStays ==
    ASSUME NEW d, IsDocument(d), NEW m \in DOMAIN d, NEW p \in DOMAIN d, p = m \/ MaskedAt(d, p)
    PROVE  MaskedAt(RedactObject(d, m), p)
<1>1. PICK n : n = RedactObject(d, m)
  OBVIOUS
<1>2. SameShape(d, n)
  BY <1>1, ShapeRedacted
<1>3. EnvVars(n, p) = EnvVars(d, p) /\ Secrets(n, p) = Secrets(d, p)
  BY <1>2, SameMembers
<1>4. ASSUME NEW e \in EnvVars(d, p) PROVE EnvMasked(n[e])
  <2>1. e \in DOMAIN d /\ (e \in EnvVars(d, m) \/ EnvMasked(d[e]))
    BY ObjectsOfSpec DEF MaskedAt
  <2>. QED BY <2>1, <1>1, FieldsRedacted
<1>5. ASSUME NEW s \in Secrets(d, p) PROVE Is(n, s, "secretName", Redacted)
  <2>1. s \in DOMAIN d /\ (s \in Secrets(d, m) \/ Is(d, s, "secretName", Redacted))
    BY ObjectsOfSpec DEF MaskedAt
  <2>. QED BY <2>1, <1>1, FieldsRedacted
<1>6. ASSUME HasPullSecrets(n, p) PROVE Is(n, p, "imagePullSecrets", Placeholder)
  <2>1. HasPullSecrets(d, p)
    BY <1>1, <1>6, PullSecretsStay
  <2>2. (p = m /\ HasPullSecrets(d, m)) \/ Is(d, p, "imagePullSecrets", Placeholder)
    BY <2>1 DEF MaskedAt
  <2>. QED BY <2>2, <1>1, FieldsRedacted
<1>7. MaskedAt(n, p)
  BY <1>3, <1>4, <1>5, <1>6 DEF MaskedAt
<1>. QED BY <1>1, <1>7

\* There is nothing to do in an object that is masked.
LEMMA MaskedIsKept ==
    ASSUME NEW d, IsDocument(d), NEW m \in DOMAIN d, MaskedAt(d, m)
    PROVE  RedactObject(d, m) = d
<1>1. ASSUME NEW o \in DOMAIN d PROVE RedactObject(d, m)[o] = d[o]
  <2>1. IsObject(d[o])
    BY DEF IsDocument, IsObject
  <2>2. (IF o \in EnvVars(d, m) THEN RedactEnvVar(d[o]) ELSE d[o]) = d[o]
    BY <2>1, EnvVarStays DEF MaskedAt
  <2>3. (IF o \in Secrets(d, m) THEN HideSecretName(d[o]) ELSE d[o]) = d[o]
    BY <2>1, SecretNameHidden DEF MaskedAt, Is
  <2>4. (IF o = m /\ HasPullSecrets(d, m) THEN HidePullSecrets(d[o]) ELSE d[o]) = d[o]
    BY <2>1, PullSecretsHidden DEF MaskedAt, Is
  <2>. QED BY <2>2, <2>3, <2>4, RedactedObject
<1>2. RedactObject(d, m) = [o \in DOMAIN d |-> RedactObject(d, m)[o]]
  BY DEF RedactObject
<1>3. RedactObject(d, m) = [o \in DOMAIN d |-> d[o]]
  BY <1>1, <1>2
<1>. QED BY <1>3 DEF IsDocument

-----------------------------------------------------------------------------
(* The walk *)

\* What was kept or masked before the call is so after it.
LEMMA OthersStayKept ==
    ASSUME NEW old, NEW d, IsDocument(d), NEW m \in DOMAIN d,
           SameShape(old, d), OthersKept(old, d)
    PROVE  SameShape(old, RedactObject(d, m)) /\ OthersKept(old, RedactObject(d, m))
<1>1. PICK n : n = RedactObject(d, m)
  OBVIOUS
<1>2. SameShape(d, n) /\ DOMAIN d = DOMAIN old /\ DOMAIN n = DOMAIN old
  BY <1>1, ShapeRedacted DEF SameShape
<1>3. ASSUME NEW o \in DOMAIN old, NEW k PROVE Secret(d, o, k) => Secret(old, o, k)
  <2>1. \A p \in DOMAIN old : EnvVars(d, p) = EnvVars(old, p) /\ Secrets(d, p) = Secrets(old, p)
    BY SameMembers
  <2>2. HasPullSecrets(d, o) => HasPullSecrets(old, o)
    BY DEF HasPullSecrets, OthersKept, Is, Secret
  <2>. QED BY <1>2, <2>1, <2>2 DEF Secret
<1>4. ASSUME NEW o \in DOMAIN old, NEW k PROVE SameField(d, n, o, k) \/ Masked(d, n, o, k)
  BY <1>1, <1>2, FieldsRedacted
<1>5. ASSUME NEW o \in DOMAIN old, NEW k \in DOMAIN old[o]
      PROVE  Is(n, o, k, old[o][k]) \/ Secret(old, o, k)
  <2>1. Is(d, o, k, old[o][k]) \/ Secret(old, o, k)
    BY DEF OthersKept
  <2>. QED BY <1>3, <1>4, <2>1 DEF SameField, SameIn, Masked, Is
<1>6. ASSUME NEW o \in DOMAIN old, NEW k \in DOMAIN n[o]
      PROVE  Is(old, o, k, n[o][k]) \/ (Secret(old, o, k) /\ n[o][k] \in {Redacted, Placeholder})
  <2>1. CASE SameField(d, n, o, k)
    <3>1. k \in DOMAIN d[o] /\ n[o][k] = d[o][k]
      BY <2>1 DEF SameField, SameIn
    <3>. QED BY <3>1 DEF OthersKept
  <2>2. CASE Masked(d, n, o, k)
    BY <2>2, <1>3 DEF Masked
  <2>. QED BY <1>4, <2>1, <2>2
<1>7. OthersKept(old, n)
  BY <1>2, <1>5, <1>6 DEF OthersKept
<1>8. ASSUME NEW o \in DOMAIN old, NEW k, k \notin Written PROVE SameField(old, n, o, k)
  <2>1. ~Secret(old, o, k)
    BY <1>8 DEF Secret, Written
  <2>. QED BY <2>1, <1>5, <1>6 DEF SameField, SameIn, Is
<1>9. SameShape(old, n)
  BY <1>2, <1>8 DEF SameShape
<1>. QED BY <1>1, <1>7, <1>9

\* The variables of containers are inside of them.
LEMMA EnvVarsInner ==
    ASSUME NEW d, NEW inner, IsInner(d, inner), NEW m \in DOMAIN d
    PROVE  EnvVars(d, m) \subseteq inner
<1>1. Containers(d, m) \subseteq inner
  BY DEF IsInner, Containers, OwnLists
<1>2. ASSUME NEW c \in inner PROVE ObjectsAt(d, c, "env") \subseteq inner
  <2>1. ObjectsAt(d, c, "env") \subseteq References(d, c)
    BY DEF ObjectsAt, References
  <2>. QED BY <2>1 DEF IsInner
<1>. QED BY <1>1, <1>2 DEF EnvVars

\* Masks do not hide an object from the walk.
LEMMA CalledStays ==
    ASSUME NEW d, NEW n, OthersKept(d, n), Typed(d),
           NEW inner, IsInner(d, inner), NEW m \in DOMAIN d \ inner
    PROVE  Called(d, m) \subseteq Called(n, m)
<1>. SUFFICES ASSUME NEW o \in DOMAIN d, NEW k \in DOMAIN d[m],
                     d[m][k] = Ref(o) \/ (k \notin OwnLists /\ o \in ObjectsAt(d, m, k))
              PROVE  o \in Called(n, m)
  BY DEF Called
<1>1. DOMAIN n = DOMAIN d
  BY DEF OthersKept
<1>2. d[m][k] = Ref(o) \/ IsList(d[m][k])
  BY DEF ObjectsAt
<1>3. ~Secret(d, m, k)
  <2>1. \A p \in DOMAIN d : m \notin EnvVars(d, p)
    BY EnvVarsInner
  <2>2. k # "secretName"
    BY <1>2 DEF Typed
  <2>3. k = "imagePullSecrets" => ~HasPullSecrets(d, m)
    BY DEF HasPullSecrets, OwnLists, Ref, IsList
  <2>. QED BY <2>1, <2>2, <2>3 DEF Secret
<1>4. k \in DOMAIN n[m] /\ n[m][k] = d[m][k]
  BY <1>3 DEF OthersKept, Is
<1>5. o \in ObjectsAt(d, m, k) => o \in ObjectsAt(n, m, k)
  BY <1>1, <1>4 DEF ObjectsAt
<1>. QED BY <1>1, <1>4, <1>5 DEF Called

\* An object without the lists of a pod spec has nothing to mask.
LEMMA NothingToMask ==
    ASSUME NEW d, NEW m, DOMAIN d[m] \intersect PodSpecLists = {}
    PROVE  MaskedAt(d, m)
<1>1. \A k \in PodSpecLists : ObjectsAt(d, m, k) = {}
  BY DEF ObjectsAt
<1>2. Containers(d, m) = {}
  BY <1>1 DEF Containers, PodSpecLists, OwnLists
<1>3. EnvVars(d, m) = {}
  BY <1>2 DEF EnvVars
<1>4. Secrets(d, m) = {}
  BY <1>1 DEF Secrets, PodSpecLists
<1>5. ~HasPullSecrets(d, m)
  BY DEF HasPullSecrets, PodSpecLists, OwnLists
<1>. QED BY <1>3, <1>4, <1>5 DEF MaskedAt

\* todo is what is left of the walk: what was gone through is masked, and the
\* objects it called for were gone through or are still to be.
Walked(old, d, rest, inner) ==
    \E gone \in SUBSET DOMAIN old :
        /\ Root \in gone \union rest
        /\ \A m \in gone : MaskedAt(d, m)
        /\ \A m \in gone \ inner : Called(old, m) \subseteq gone \union rest

WalkInv(old, d, rest) ==
    /\ IsDocument(d)
    /\ SameShape(old, d)
    /\ OthersKept(old, d)
    /\ rest \subseteq DOMAIN old
    /\ \A inner \in SUBSET DOMAIN old : IsInner(old, inner) => Walked(old, d, rest, inner)

LEMMA WalkBegins ==
    ASSUME NEW old, IsSpec(old)
    PROVE  WalkInv(old, old, {Root})
<1>1. IsDocument(old) /\ Root \in DOMAIN old
  BY DEF IsSpec, IsDocument
<1>2. SameShape(old, old)
  BY DEF SameShape, SameField, SameIn
<1>3. OthersKept(old, old)
  BY DEF OthersKept, Is
<1>4. ASSUME NEW inner PROVE Walked(old, old, {Root}, inner)
  <2>1. {} \in SUBSET DOMAIN old
    OBVIOUS
  <2>. QED BY <2>1 DEF Walked
<1>. QED BY <1>1, <1>2, <1>3, <1>4 DEF WalkInv

LEMMA WalkGoesOn ==
    ASSUME NEW old, IsSpec(old), NEW d, NEW rest, WalkInv(old, d, rest), NEW m \in rest
    PROVE  LET n == RedactObject(d, m) IN WalkInv(old, n, (rest \ {m}) \union Called(n, m))
<1>1. PICK n : n = RedactObject(d, m)
  OBVIOUS
<1>2. PICK more : more = (rest \ {m}) \union Called(n, m)
  OBVIOUS
<1>3. /\ IsDocument(d) /\ SameShape(old, d) /\ OthersKept(old, d) /\ rest \subseteq DOMAIN old
      /\ DOMAIN d = DOMAIN old /\ m \in DOMAIN d
  BY DEF WalkInv, SameShape
<1>4. IsDocument(n) /\ SameShape(old, n) /\ OthersKept(old, n)
  BY <1>1, <1>3, ShapeRedacted, OthersStayKept
<1>5. more \subseteq DOMAIN old
  BY <1>2, <1>3, <1>4 DEF Called, SameShape
<1>6. ASSUME NEW inner \in SUBSET DOMAIN old, IsInner(old, inner) PROVE Walked(old, n, more, inner)
  <2>1. PICK gone \in SUBSET DOMAIN old :
          /\ Root \in gone \union rest
          /\ \A p \in gone : MaskedAt(d, p)
          /\ \A p \in gone \ inner : Called(old, p) \subseteq gone \union rest
    BY <1>6 DEF WalkInv, Walked
  <2>2. \A p \in gone \union {m} : MaskedAt(n, p)
    BY <1>1, <1>3, <2>1, MaskedStays
  <2>3. m \notin inner => Called(old, m) \subseteq Called(n, m)
    BY <1>3, <1>4, <1>6, CalledStays DEF IsSpec
  <2>4. /\ gone \union {m} \in SUBSET DOMAIN old
        /\ Root \in (gone \union {m}) \union more
        /\ \A p \in (gone \union {m}) \ inner : Called(old, p) \subseteq (gone \union {m}) \union more
    BY <1>2, <1>3, <2>1, <2>3
  <2>. QED BY <2>2, <2>4 DEF Walked
<1>7. WalkInv(old, n, more)
  BY <1>4, <1>5, <1>6 DEF WalkInv
<1>. QED BY <1>1, <1>2, <1>7

\* When nothing is left to do, the walk has been wherever a pod spec may be.
LEMMA WalkReachesAll ==
    ASSUME NEW old, IsSpec(old), NEW d, WalkInv(old, d, {}), NEW m \in DOMAIN old
    PROVE  MaskedAt(d, m)
<1>1. PICK inner \in SUBSET DOMAIN old : IsInner(old, inner)
  BY DEF IsSpec, Typed
<1>2. PICK gone \in SUBSET DOMAIN old :
        /\ Root \in gone
        /\ \A p \in gone : MaskedAt(d, p)
        /\ \A p \in gone \ inner : Called(old, p) \subseteq gone
  BY <1>1 DEF WalkInv, Walked
<1>3. ASSUME NEW p \in gone \union inner PROVE References(old, p) \subseteq gone \union inner
  <2>1. CASE p \in inner
    BY <1>1, <2>1 DEF IsInner
  <2>2. CASE p \in gone \ inner
    <3>1. ASSUME NEW o \in References(old, p) PROVE o \in Called(old, p) \union inner
      <4>1. PICK k \in DOMAIN old[p] : old[p][k] = Ref(o) \/ o \in ObjectsAt(old, p, k)
        BY <3>1 DEF References
      <4>2. o \in DOMAIN old /\ p \in DOMAIN old
        BY <2>2, <3>1 DEF References
      <4>3. k \in OwnLists => ObjectsAt(old, p, k) \subseteq inner
        BY <1>1, <4>2 DEF IsInner
      <4>. QED BY <4>1, <4>2, <4>3 DEF Called
    <3>. QED BY <1>2, <2>2, <3>1
  <2>. QED BY <2>1, <2>2, <1>3
<1>4. gone \union inner = DOMAIN old
  <2>1. gone \union inner \in SUBSET DOMAIN old
    OBVIOUS
  <2>. QED BY <1>2, <1>3, <2>1 DEF IsSpec, Connected
<1>5. CASE m \in gone
  BY <1>2, <1>5
<1>6. CASE m \in inner
  <2>1. DOMAIN old[m] \intersect PodSpecLists = {}
    BY <1>1, <1>6 DEF IsInner
  <2>2. ASSUME NEW k \in DOMAIN d[m] PROVE k \notin PodSpecLists
    <3>1. k \in DOMAIN old[m] \/ Secret(old, m, k)
      BY DEF WalkInv, OthersKept, Is
    <3>2. Secret(old, m, k) /\ k \in PodSpecLists => k \in DOMAIN old[m]
      BY DEF Secret, PodSpecLists, OwnLists, ContainerKeys, HasPullSecrets
    <3>. QED BY <2>1, <3>1, <3>2
  <2>. QED BY <2>2, NothingToMask
<1>. QED BY <1>4, <1>5, <1>6

-----------------------------------------------------------------------------
(* The request *)

\* A step of the request is a step of the gathering of evidence, or none of it:
\* what is proved of the evidence holds of the request.
THEOREM RequestGathersEvidence == RequestSpec => Spec
<1>1. RequestInit => Init
  BY DEF RequestInit
<1>2. [RequestNext]_allVars => [Next]_vars
  <2>1. ASSUME NEW m \in todo, RedactMap(m) PROVE UNCHANGED vars
    BY <2>1 DEF RedactMap
  <2>2. SendRedacted \/ EndAnalysis => Next
    BY DEF SendRedacted, EndAnalysis, Next, Gathers
  <2>3. Collects \/ Kubernetes => Next
    BY DEF Next, Gathers
  <2>4. UNCHANGED allVars => UNCHANGED vars
    BY DEF allVars
  <2>. QED BY <2>1, <2>2, <2>3, <2>4 DEF RequestNext
<1>. QED BY <1>1, <1>2, PTL DEF RequestSpec, Spec

RedactInv ==
    /\ case \in Cases
    /\ WalkInv(case.spec, doc, todo)
    /\ phase = "sent" => todo = {}

LEMMA CaseStays == Next => case' = case
  BY DEF Next, Gathers, Collects, Detect, CollectEvents, ListPods, ListFails, RedactFails,
         GetPodLogs, GetHistoricalLogs, CollectNode, Send, Done, Kubernetes

LEMMA RedactInvInit == RequestInit => RedactInv
<1>. SUFFICES ASSUME RequestInit PROVE RedactInv
  OBVIOUS
<1>1. case \in Cases /\ phase # "sent" /\ doc = case.spec /\ todo = {Root}
  BY DEF RequestInit, Init
<1>2. WalkInv(case.spec, case.spec, {Root})
  BY <1>1, SpecsAssumption, WalkBegins
<1>. QED BY <1>1, <1>2 DEF RedactInv

LEMMA RedactInvStep == RedactInv /\ [RequestNext]_allVars => RedactInv'
<1>. SUFFICES ASSUME RedactInv, [RequestNext]_allVars PROVE RedactInv'
  OBVIOUS
<1>1. case \in Cases /\ IsSpec(case.spec)
  BY SpecsAssumption DEF RedactInv
<1>2. ASSUME NEW m \in todo, RedactMap(m) PROVE RedactInv'
  <2>1. /\ doc' = RedactObject(doc, m) /\ todo' = (todo \ {m}) \union Called(doc', m)
        /\ case' = case /\ phase' = phase /\ phase = "nodes"
    BY <1>2 DEF RedactMap, vars
  <2>2. WalkInv(case.spec, RedactObject(doc, m), (todo \ {m}) \union Called(RedactObject(doc, m), m))
    BY <1>1, WalkGoesOn DEF RedactInv
  <2>. QED BY <1>1, <2>1, <2>2 DEF RedactInv
<1>3. CASE SendRedacted
  <2>1. case' = case /\ doc' = doc /\ todo' = todo /\ todo = {}
    BY <1>3 DEF SendRedacted, Send
  <2>. QED BY <2>1 DEF RedactInv
<1>4. CASE EndAnalysis
  <2>1. case' = case /\ phase' = "idle" /\ doc' = case.spec /\ todo' = {Root}
    BY <1>4 DEF EndAnalysis, Done, ListFails, RedactFails, Clear
  <2>2. WalkInv(case.spec, case.spec, {Root})
    BY <1>1, WalkBegins
  <2>. QED BY <1>1, <2>1, <2>2 DEF RedactInv
<1>5. CASE (Collects \/ Kubernetes) /\ UNCHANGED <<doc, todo>>
  <2>1. case' = case
    BY <1>5, CaseStays DEF Next, Gathers
  <2>2. phase' = "sent" => phase = "sent"
    BY <1>5 DEF Collects, Detect, CollectEvents, ListPods, GetPodLogs, GetHistoricalLogs,
              GoOn, AfterPod, CollectNode, Kubernetes
  <2>. QED BY <1>5, <2>1, <2>2 DEF RedactInv
<1>6. CASE UNCHANGED allVars
  BY <1>6 DEF allVars, vars, RedactInv
<1>. QED BY <1>2, <1>3, <1>4, <1>5, <1>6 DEF RequestNext

\* Whatever spec the workload has, with its pod spec wherever it is nested, and in
\* whichever order redactMap goes through its objects: in what is sent the
\* variables of containers and init containers, the names of secret volumes and
\* the pull secrets are masked, all else is as it was, ephemeral containers and
\* other places that name secrets included, and a second redaction changes nothing.
THEOREM PlacesAreRedacted == RequestSpec => []PlacesRedacted
<1>1. RedactInv => PlacesRedacted
  <2>. SUFFICES ASSUME RedactInv, phase = "sent"
                PROVE  PlacesMasked(doc) /\ OthersKept(case.spec, doc) /\ SameAgain(doc)
    BY DEF PlacesRedacted
  <2>1. /\ IsSpec(case.spec) /\ WalkInv(case.spec, doc, {})
        /\ IsDocument(doc) /\ OthersKept(case.spec, doc) /\ DOMAIN doc = DOMAIN case.spec
    BY SpecsAssumption DEF RedactInv, WalkInv, OthersKept
  <2>2. \A m \in DOMAIN doc : MaskedAt(doc, m)
    BY <2>1, WalkReachesAll
  <2>3. PlacesMasked(doc)
    BY <2>2 DEF PlacesMasked, VarMasked, MaskedAt, EnvMasked, Is
  <2>4. SameAgain(doc)
    BY <2>1, <2>2, MaskedIsKept DEF SameAgain
  <2>. QED BY <2>1, <2>3, <2>4
<1>. QED BY <1>1, RedactInvInit, RedactInvStep, PTL DEF RequestSpec
=============================================================================
