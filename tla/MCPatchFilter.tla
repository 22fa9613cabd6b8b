--------------------------- MODULE MCPatchFilter ---------------------------
(* Patches for TLC: good ones, ones that ask for too much, and bad shapes. *)
EXTENDS PatchFilter, TLC

Strange == {Null, Atom("text")}

\* A container of a patch: its name, or none, and some of the other fields.
Fragments ==
    {"name" :> Atom(n) @@ f :
        n \in {"app", "side"},
        f \in {"image" :> Atom("new"), "image" :> Null, "Image" :> Atom("odd"),
               "env" :> Atom("vars") @@ "command" :> Atom("shell"),
               "image" :> Atom("new") @@ "command" :> Null,
               "$patch" :> Atom("delete")}}
    \union {"image" :> Atom("new")}

Containers == {Map(f) : f \in Fragments}

Names(n) == {c \in Containers : Name(c) = Atom(n)}

\* Two containers, or one that is given twice.
Pairs ==
    {List(<<c, d>>) : c \in Names("side"), d \in Containers \ Names("side")}
    \union {List(<<c, d>>) : c \in Names("app"), d \in Names("app")}

ContainerLists ==
    {List(<<>>)} \union {List(<<c>>) : c \in Containers \union {Atom("text")}}
    \union Pairs \union {List(<<Atom("text"), c>>) : c \in Containers}

PodSpecs ==
    {Map("containers" :> v) : v \in ContainerLists \union Strange}
    \union {Map("containers" :> v @@ "volumes" :> Atom("tmp")) : v \in ContainerLists}

Specs ==
    PodSpecs \union Strange
    \union {Map("template" :> Map("spec" :> v)) : v \in PodSpecs \union Strange}
    \union {Map("template" :> v) : v \in Strange \union {Map(<<>>)}}
    \union {Map("replicas" :> Atom("two") @@ "template" :> Map("spec" :> v)) : v \in PodSpecs}

SomePatches == {Map(<<>>)} \union {Map("spec" :> v) : v \in Specs}

AppContainer == Atom("app") :> ("image" :> Atom("old") @@ "command" :> Atom("run"))
=============================================================================
