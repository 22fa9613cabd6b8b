------------------------------- MODULE Request -------------------------------
(***************************************************************************)
(* What leaves the cluster: the evidence, with the spec of the workload    *)
(* redacted.  RedactSpec works on a copy, object by object; Go goes        *)
(* through the fields of an object in any order, and so do the calls here. *)
(* Nothing but the sending depends on when it does so.                     *)
(***************************************************************************)
EXTENDS Evidence, Redaction

ASSUME SpecsAssumption == \A c \in Cases : IsSpec(c.spec)

VARIABLES
    doc,   \* the copy of the spec
    todo   \* the objects redactMap is called for and has not gone through

allVars == <<vars, doc, todo>>

RequestInit ==
    /\ Init
    /\ doc = case.spec
    /\ todo = {Root}

RedactMap(m) ==
    /\ phase = "nodes" /\ Len(nodes) = Len(NodeNames)
    /\ m \in todo
    /\ doc' = RedactObject(doc, m)
    /\ todo' = (todo \ {m}) \union Called(doc', m)
    /\ UNCHANGED vars

SendRedacted == Send /\ todo = {} /\ UNCHANGED <<doc, todo>>

\* The next analysis makes a copy of its own; one that fails is made no use of.
EndAnalysis ==
    /\ Done \/ ListFails \/ (RedactFails /\ doc = case.spec /\ todo = {Root})
    /\ doc' = case.spec
    /\ todo' = {Root}

RequestNext ==
    \/ \E m \in todo : RedactMap(m)
    \/ SendRedacted
    \/ EndAnalysis
    \/ (Collects \/ Kubernetes) /\ UNCHANGED <<doc, todo>>

RequestSpec == RequestInit /\ [][RequestNext]_allVars

\* The places that redactMap knows are masked in what leaves the cluster, wherever
\* the pod spec is nested and in whichever order its objects are gone through:
\* the variables of containers and init containers, the names of secret volumes
\* and the pull secrets.  All else is sent as it is, and a spec that was redacted
\* is not changed again.
PlacesRedacted ==
    phase = "sent" => PlacesMasked(doc) /\ OthersKept(case.spec, doc) /\ SameAgain(doc)

(* What the documents say and the code does not do *)

\* docs/security.md: "Any env var whose name ... contains SECRET, TOKEN, ...; the
\* value is replaced" and "All valueFrom ... are removed or replaced", whatever
\* kind of container it is in; and this is "so the LLM never sees secret or
\* config map names", said here of secrets only.
NoSecretLeaves ==
    phase = "sent" =>
        /\ \A c \in DOMAIN doc : \A e \in ObjectsAt(doc, c, "env") : VarMasked(doc[e])
        /\ \A s \in SecretSources(doc) : Is(doc, s, "name", Redacted)
=============================================================================
