------------------------------- MODULE Specs -------------------------------
(***************************************************************************)
(* The comparison of a service's declared spec with the one the daemon     *)
(* gives back (drift/live.go).                                             *)
(*                                                                         *)
(* A facet stands for the fields that are compared in one way, and a spec  *)
(* for its value in one facet.  Per facet: the values that can be written, *)
(* what the daemon stores for one (Stored: external), what the code makes  *)
(* of the two sides (Differs), and what the stored value makes run, which  *)
(* is the reference the code is checked against (Effect).                  *)
(***************************************************************************)
EXTENDS Integers, Sequences, FiniteSets

CONSTANT Words  \* the command lines of the facet "command"

Unset == -1
Blank == "-"  \* stands for the empty string
Elements(s) == {s[i] : i \in DOMAIN s}
\* Equal once sorted.
SameSorted(s, t) ==
    \A x \in Elements(s) \cup Elements(t) :
        Cardinality({i \in DOMAIN s : s[i] = x}) = Cardinality({i \in DOMAIN t : t[i] = x})

Facets == {"mode", "image", "limit", "env", "constraints", "preferences", "labels", "ports",
           "endpoint", "networks", "policy", "init", "command", "mounts", "secrets"}

-----------------------------------------------------------------------------
(* Values that can be written; Blank, Unset or {} is what is left out *)

Mode(k, n, t) == [kind |-> k, count |-> n, total |-> t]
Image(r, t, d) == [repo |-> r, tag |-> t, digest |-> d]
Label(k, v) == [key |-> k, value |-> v]
Port(p, proto, m) == [published |-> p, target |-> 80, protocol |-> proto, mode |-> m]
Policy(a, n) == {[action |-> a, attempts |-> n]}
Mount(k, s, ro) == [target |-> "/t", type |-> k, source |-> s, readOnly |-> ro]
Secret(t) == [name |-> "s", target |-> t]

Written(f) ==
    CASE f = "mode" -> {Mode("replicated", Unset, Unset), Mode("replicated", 2, Unset),
                        Mode("global", Unset, Unset), Mode("replicated-job", Unset, Unset),
                        Mode("replicated-job", 2, 2)}
      [] f = "image" -> {Image("docker.io/library/app", Blank, Blank), Image("app", "2", Blank),
                         Image("app", Blank, "d1"), Image("app", "latest", Blank)}
      [] f = "limit" -> {Unset, 0, 5}
      [] f = "env" -> {{}, {Label("a", Blank)}, {Label("a", "1")},
                       {Label("a", "1"), Label("b", Blank)}}
      [] f \in {"constraints", "preferences"} -> {<<>>, <<"x">>, <<"x", "y">>, <<"y", "x">>}
      [] f = "labels" -> {{Label("stack", "1")}, {Label("stack", "2")},
                          {Label("stack", "1"), Label("team", "a")}, {Label("team", "b")}}
      [] f = "ports" -> {{}, {Port(0, Blank, Blank)}, {Port(81, "tcp", Blank)},
                         {Port(82, Blank, "host")}, {Port(81, Blank, Blank), Port(82, Blank, Blank)}}
      [] f = "endpoint" -> {Blank, "vip", "dnsrr"}
      [] f = "networks" -> {<<>>, <<"front">>, <<"back", "front">>, <<"front", "back">>}
      [] f = "policy" -> {{}, Policy(Blank, Unset), Policy("any", 0), Policy("none", 3)}
      [] f = "init" -> {Blank, "false", "true"}
      [] f = "command" -> Words
      [] f = "mounts" -> {{}, {Mount(Blank, "src", FALSE)}, {Mount("bind", "src", TRUE)},
                          {Mount("volume", Blank, FALSE)}}
      [] f = "secrets" -> {<<>>, <<Secret("p")>>, <<Secret("p"), Secret("q")>>,
                           <<Secret("q"), Secret("p")>>, <<Secret(Blank)>>}

-----------------------------------------------------------------------------
(* Normalisations, which the comparison applies to what it reads *)

OrOne(n) == IF n = Unset THEN 1 ELSE n
OrZero(n) == IF n = Unset THEN 0 ELSE n
Or(s, default) == IF s = Blank THEN default ELSE s

\* jobCounts: an unstated total is the concurrency.
JobCounts(m) == <<OrOne(m.count), IF m.total = Unset THEN OrOne(m.count) ELSE m.total>>
\* normalisedImage: the familiar name, and the default tag where there is neither
\* a tag nor a digest.
Normalised(i) ==
    Image("app", IF i.tag = Blank /\ i.digest = Blank THEN "latest" ELSE i.tag, i.digest)
\* SameImage: only the wanted side is normalised.
SameImage(live, wanted) ==
    live = Normalised(wanted) \/ Image(live.repo, live.tag, Blank) = Normalised(wanted)
OwnLabels(ls) == {l \in ls : l.key # "stack"}
\* Mutant: of a port, only what it leads to.
PortKeyTarget(p) == <<p.target, Or(p.protocol, "tcp"), Or(p.mode, "ingress")>>
PortKey(p) == <<p.published, p.target, Or(p.protocol, "tcp"), Or(p.mode, "ingress")>>
PortSet(ps) == {PortKey(p) : p \in ps}
PolicyOf(p) == <<Or(p.action, "any"), OrZero(p.attempts)>>
MountOf(m) == <<m.target, Or(m.type, "bind"), Or(m.source, "(anonymous)"), m.readOnly>>
\* A secret may be mounted at several paths; one without a target is not kept.
\* The place in the list is, and nothing depends on it.
SecretTargets(rs) == [i \in {j \in DOMAIN rs : rs[j].target # Blank} |-> rs[i]]
\* Words, joined by blanks: a word is the sequence of its parts.
Joined(ws) ==
    LET join[i \in 0 .. Len(ws)] == IF i = 0 THEN <<>> ELSE join[i - 1] \o ws[i]
    IN join[Len(ws)]

-----------------------------------------------------------------------------
(* The daemon *)

\* A network's id, which is what a stored spec names it by.
IdOf(n) == <<"id", n>>

Stored(f, v) ==
    CASE f = "mode" /\ v.kind = "replicated" -> Mode(v.kind, OrOne(v.count), v.total)
      [] f = "mode" /\ v.kind = "replicated-job" ->
             Mode(v.kind, JobCounts(v)[1], JobCounts(v)[2])
      [] f = "image" -> LET i == Normalised(v) IN Image(i.repo, i.tag, Or(i.digest, "resolved"))
      [] f = "limit" -> OrZero(v)
      [] f = "ports" ->
             {Port(p.published, Or(p.protocol, "tcp"), Or(p.mode, "ingress")) : p \in v}
      [] f = "endpoint" -> Or(v, "vip")
      [] f = "networks" -> [i \in DOMAIN v |-> IdOf(v[i])]
      [] f = "policy" ->
             {[action |-> Or(p.action, "any"), attempts |-> OrZero(p.attempts)] : p \in v}
      [] f = "mounts" -> {Mount(Or(m.type, "bind"), m.source, m.readOnly) : m \in v}
      [] f = "secrets" -> SecretTargets(v)
      [] OTHER -> v

-----------------------------------------------------------------------------
(* compareService: the declared value, the stored one, and the listing of the *)
(* networks, by id, if there is one.                                          *)

ModeDiffers(w, g) ==
    \/ w.kind # g.kind
    \/ w.kind = "replicated" /\ OrOne(w.count) # OrOne(g.count)
    \/ w.kind = "replicated-job" /\ JobCounts(w) # JobCounts(g)
ImageDiffers(w, g) == ~SameImage(g, w)
LimitDiffers(w, g) == OrZero(w) # OrZero(g)
\* envMap cuts an entry at its first "=": KEY and KEY= are one entry, as they are
\* one value here, with no text.
EnvDiffers(w, g) == w # g
ConstraintsDiffer(w, g) == ~SameSorted(w, g)
PreferencesDiffer(w, g) == w # g
LabelsDiffer(w, g) == OwnLabels(w) # OwnLabels(g)
PortsDiffer(w, g) == PortSet(w) # PortSet(g)
EndpointDiffers(w, g) == Or(w, "vip") # Or(g, "vip")
\* A struct that may be left out is compared by presence, then by its fields.
PolicyDiffers(w, g) == {PolicyOf(p) : p \in w} # {PolicyOf(p) : p \in g}
InitDiffers(w, g) == w # g
CommandDiffers(w, g) == Joined(w) # Joined(g)
MountsDiffer(w, g) == {MountOf(m) : m \in w} # {MountOf(m) : m \in g}
SecretsDiffer(w, g) == ~SameSorted(SecretTargets(w), SecretTargets(g))

\* The live side names networks by id.  nets has at most one listing: without one,
\* or with a network the listing does not name, attachments are not compared.
Named(g, nets) == \E listing \in nets : Elements(g) \subseteq listing
NetworksDiffer(w, g, nets) ==
    Named(g, nets) /\ ~SameSorted([i \in DOMAIN w |-> IdOf(w[i])], g)

Differs(f, w, g, nets) ==
    CASE f = "mode" -> ModeDiffers(w, g)
      [] f = "image" -> ImageDiffers(w, g)
      [] f = "limit" -> LimitDiffers(w, g)
      [] f = "env" -> EnvDiffers(w, g)
      [] f = "constraints" -> ConstraintsDiffer(w, g)
      [] f = "preferences" -> PreferencesDiffer(w, g)
      [] f = "labels" -> LabelsDiffer(w, g)
      [] f = "ports" -> PortsDiffer(w, g)
      [] f = "endpoint" -> EndpointDiffers(w, g)
      [] f = "networks" -> NetworksDiffer(w, g, nets)
      [] f = "policy" -> PolicyDiffers(w, g)
      [] f = "init" -> InitDiffers(w, g)
      [] f = "command" -> CommandDiffers(w, g)
      [] f = "mounts" -> MountsDiffer(w, g)
      [] f = "secrets" -> SecretsDiffer(w, g)

-----------------------------------------------------------------------------
(* What runs *)

Effect(f, g) ==
    CASE f \in {"constraints", "networks", "secrets"} -> Elements(g)
      [] f = "image" -> IF g.tag = Blank THEN g ELSE Image(g.repo, g.tag, Blank)
      [] f = "labels" -> {l \in g : l.key # "stack"}
      [] OTHER -> g
=============================================================================
