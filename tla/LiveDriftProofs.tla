-------------------------- MODULE LiveDriftProofs --------------------------
(***************************************************************************)
(* Proofs about LiveDrift, for every set of command lines and every bound: *)
(* what is reported of a service is exact, and what is published of its    *)
(* health and drift is true.                                               *)
(*                                                                         *)
(* Nothing is said of the past: what the daemon holds was written by       *)
(* somebody (TypeOK), and a comparison of what can be written with what is *)
(* stored for it is exact, one facet at a time.                            *)
(***************************************************************************)
EXTENDS LiveDrift, FiniteSetTheorems, TLAPS

\* The comparison of a declared value with a stored one is the comparison of their
\* effects.
Exact(f, w, g, ns) ==
    Differs(f, w, g, ns) <=> Effect(f, Stored(f, w)) # Effect(f, g)

\* Command lines that differ do so also when their words are joined by blanks, which
\* is how they are compared.
JoinedApart == \A v, w \in Words : Joined(v) = Joined(w) => v = w

\* No element is listed twice.
Distinct(s) == \A i, j \in DOMAIN s : s[i] = s[j] => i = j

-----------------------------------------------------------------------------
(* Comparing lists by their sorted elements *)

LEMMA CountOne ==
    ASSUME NEW s, Distinct(s), NEW x
    PROVE  Cardinality({i \in DOMAIN s : s[i] = x}) = IF x \in Elements(s) THEN 1 ELSE 0
<1> DEFINE at == {i \in DOMAIN s : s[i] = x}
<1>1. CASE x \in Elements(s)
  <2>1. PICK i \in DOMAIN s : s[i] = x
    BY <1>1 DEF Elements
  <2>2. at = {i}
    BY <2>1 DEF Distinct
  <2> QED BY <1>1, <2>2, FS_Singleton
<1>2. CASE x \notin Elements(s)
  <2>1. at = {}
    BY <1>2 DEF Elements
  <2> QED BY <1>2, <2>1, FS_EmptySet
<1> QED BY <1>1, <1>2

LEMMA SortedIsSet ==
    ASSUME NEW s, NEW t, Distinct(s), Distinct(t)
    PROVE  SameSorted(s, t) <=> Elements(s) = Elements(t)
<1>1. ASSUME SameSorted(s, t), NEW x \in Elements(s) \cup Elements(t)
      PROVE  x \in Elements(s) /\ x \in Elements(t)
  <2>1. Cardinality({i \in DOMAIN s : s[i] = x}) = Cardinality({i \in DOMAIN t : t[i] = x})
    BY <1>1 DEF SameSorted
  <2>2. (IF x \in Elements(s) THEN 1 ELSE 0) = IF x \in Elements(t) THEN 1 ELSE 0
    BY <2>1, CountOne
  <2> QED BY <1>1, <2>2
<1>2. ASSUME Elements(s) = Elements(t)
      PROVE  SameSorted(s, t)
  BY <1>2, CountOne DEF SameSorted
<1> QED BY <1>1, <1>2

-----------------------------------------------------------------------------
(* One facet at a time *)

LEMMA ModeExact ==
    ASSUME NEW w \in Written("mode"), NEW v \in Written("mode"), NEW ns
    PROVE  Exact("mode", w, Stored("mode", v), ns)
<1>1. ASSUME NEW m \in Written("mode")
      PROVE  /\ m = Mode(m.kind, m.count, m.total)
             /\ \/ m.kind = "global" /\ m.count = Unset /\ m.total = Unset
                \/ m.kind = "replicated" /\ m.count \in {Unset, 2} /\ m.total = Unset
                \/ m.kind = "replicated-job" /\ m.count = Unset /\ m.total = Unset
                \/ m.kind = "replicated-job" /\ m.count = 2 /\ m.total = 2
  BY DEF Written, Mode
<1>2. ASSUME NEW m
      PROVE  Stored("mode", m) =
                 IF m.kind = "replicated" THEN Mode(m.kind, OrOne(m.count), m.total)
                 ELSE IF m.kind = "replicated-job"
                      THEN Mode(m.kind, JobCounts(m)[1], JobCounts(m)[2]) ELSE m
  BY DEF Stored
<1>3. ModeDiffers(w, Stored("mode", v)) <=> Stored("mode", w) # Stored("mode", v)
  BY <1>1, <1>2 DEF ModeDiffers, Mode, OrOne, JobCounts, Unset
<1>4. Differs("mode", w, Stored("mode", v), ns) <=> ModeDiffers(w, Stored("mode", v))
  BY DEF Differs
<1>5. \A x : Effect("mode", x) = x
  BY DEF Effect
<1> QED BY <1>3, <1>4, <1>5 DEF Exact

\* The digest that the daemon resolves a tag to is what no repository writes.
LEMMA ImageExact ==
    ASSUME NEW w \in Written("image"), NEW v \in Written("image"), NEW ns
    PROVE  Exact("image", w, Stored("image", v), ns)
<1> DEFINE norm(i) == Normalised(i)
           pinned(i) == Image("app", norm(i).tag, Or(norm(i).digest, "resolved"))
           ran(i) == IF i.tag = Blank THEN i ELSE Image(i.repo, i.tag, Blank)
<1>1. ASSUME NEW i \in Written("image")
      PROVE  /\ \/ norm(i).tag = Blank /\ norm(i).digest = "d1"
                \/ norm(i).tag # Blank /\ norm(i).digest = Blank
             /\ norm(i) = Image("app", norm(i).tag, norm(i).digest)
  <2>1. i \in {Image("docker.io/library/app", Blank, Blank), Image("app", "2", Blank),
               Image("app", Blank, "d1"), Image("app", "latest", Blank)}
    BY DEF Written
  <2>2. /\ norm(i) = Image("app", IF i.tag = Blank /\ i.digest = Blank THEN "latest" ELSE i.tag,
                           i.digest)
        /\ norm(i).tag = IF i.tag = Blank /\ i.digest = Blank THEN "latest" ELSE i.tag
        /\ norm(i).digest = i.digest
    BY DEF Normalised, Image
  <2>3. \/ i.tag = Blank /\ i.digest = Blank
        \/ i.tag = "2" /\ i.digest = Blank
        \/ i.tag = Blank /\ i.digest = "d1"
        \/ i.tag = "latest" /\ i.digest = Blank
    <3>1. \A r, t, d : Image(r, t, d).tag = t /\ Image(r, t, d).digest = d
      BY DEF Image
    <3> QED BY <2>1, <3>1
  <2> QED BY <2>2, <2>3 DEF Blank
<1>2. ASSUME NEW i \in Written("image")
      PROVE  ran(pinned(i)) = norm(i)
  <2>1. norm(i) = Image("app", norm(i).tag, norm(i).digest)
    BY <1>1
  <2>2. \A t, d : LET im == Image("app", t, d)
                   IN ran(im) = IF t = Blank THEN im ELSE Image("app", t, Blank)
    BY DEF Image
  <2> HIDE DEF norm, ran
  <2>3. /\ norm(i).tag = Blank => Or(norm(i).digest, "resolved") = norm(i).digest
        /\ norm(i).tag # Blank => norm(i).digest = Blank
    BY <1>1 DEF Or, Blank
  <2> QED BY <2>1, <2>2, <2>3
<1>3. SameImage(pinned(v), w) <=> norm(w) = norm(v)
  <2> DEFINE W == norm(w)
             V == norm(v)
  <2>1. SameImage(pinned(v), w) <=>
            \/ Image("app", V.tag, Or(V.digest, "resolved")) = W
            \/ Image("app", V.tag, Blank) = W
    BY DEF SameImage, Image
  <2>2. /\ W = Image("app", W.tag, W.digest) /\ V = Image("app", V.tag, V.digest)
        /\ (W.tag = Blank /\ W.digest = "d1") \/ (W.tag # Blank /\ W.digest = Blank)
        /\ (V.tag = Blank /\ V.digest = "d1") \/ (V.tag # Blank /\ V.digest = Blank)
    BY <1>1
  <2> HIDE DEF W, V
  <2>3. (W = V) <=> (W.tag = V.tag /\ W.digest = V.digest)
    BY <2>2
  <2>4. \A a, b, c, d : Image("app", a, b) = Image("app", c, d) <=> a = c /\ b = d
    BY DEF Image
  <2>5. ASSUME NEW a, NEW b
        PROVE  (Image("app", a, b) = W) <=> (a = W.tag /\ b = W.digest)
    <3>1. W = Image("app", W.tag, W.digest)
      BY <2>2
    <3> QED BY <2>4, <3>1
  <2>6. Or(V.digest, "resolved") = IF V.digest = Blank THEN "resolved" ELSE V.digest
    BY DEF Or
  <2>7. (Image("app", V.tag, Or(V.digest, "resolved")) = W)
            <=> V.tag = W.tag /\ Or(V.digest, "resolved") = W.digest
    BY <2>5
  <2>8. (Image("app", V.tag, Blank) = W) <=> V.tag = W.tag /\ Blank = W.digest
    BY <2>5
  <2>9. (W.tag = V.tag /\ W.digest = V.digest)
            <=> \/ V.tag = W.tag /\ Or(V.digest, "resolved") = W.digest
                \/ V.tag = W.tag /\ Blank = W.digest
    BY <2>2, <2>6 DEF Blank
  <2>10. SameImage(pinned(v), w) <=> W = V
    BY <2>1, <2>3, <2>7, <2>8, <2>9
  <2> QED BY <2>10 DEF W, V
<1>4. Stored("image", w) = pinned(w) /\ Stored("image", v) = pinned(v)
  BY DEF Stored, Normalised, Image
<1>5. \A i : Effect("image", i) = ran(i)
  BY DEF Effect
<1>6. Differs("image", w, pinned(v), ns) <=> ~SameImage(pinned(v), w)
  BY DEF Differs, ImageDiffers
<1> HIDE DEF norm, pinned, ran
<1> QED BY <1>2, <1>3, <1>4, <1>5, <1>6 DEF Exact

LEMMA LimitExact ==
    ASSUME NEW w \in Written("limit"), NEW v \in Written("limit"), NEW ns
    PROVE  Exact("limit", w, Stored("limit", v), ns)
BY DEF Exact, Differs, LimitDiffers, Effect, Stored, Written, OrZero, Unset

LEMMA PlainExact ==
    ASSUME NEW f \in {"env", "preferences", "init"}, NEW w \in Written(f),
           NEW v \in Written(f), NEW ns
    PROVE  Exact(f, w, Stored(f, v), ns)
BY DEF Exact, Differs, EnvDiffers, PreferencesDiffer, InitDiffers, Effect, Stored

LEMMA ConstraintsExact ==
    ASSUME NEW w \in Written("constraints"), NEW v \in Written("constraints"), NEW ns
    PROVE  Exact("constraints", w, Stored("constraints", v), ns)
<1>1. ASSUME NEW s \in Written("constraints")
      PROVE  Distinct(s)
  BY DEF Written, Distinct
<1>2. SameSorted(w, v) <=> Elements(w) = Elements(v)
  BY <1>1, SortedIsSet
<1> QED BY <1>2 DEF Exact, Differs, ConstraintsDiffer, Effect, Stored

LEMMA LabelsExact ==
    ASSUME NEW w \in Written("labels"), NEW v \in Written("labels"), NEW ns
    PROVE  Exact("labels", w, Stored("labels", v), ns)
BY DEF Exact, Differs, LabelsDiffer, OwnLabels, Effect, Stored

LEMMA PortsExact ==
    ASSUME NEW w \in Written("ports"), NEW v \in Written("ports"), NEW ns
    PROVE  Exact("ports", w, Stored("ports", v), ns)
<1> DEFINE full(p) == Port(p.published, Or(p.protocol, "tcp"), Or(p.mode, "ingress"))
<1>1. /\ \A p \in w \cup v : PortKey(full(p)) = PortKey(p)
      /\ \A p, q \in w \cup v : full(p) = full(q) <=> PortKey(p) = PortKey(q)
  <2>1. ASSUME NEW p \in w \cup v
        PROVE  p.target = 80
    <3>1. {w, v} \subseteq {{}, {Port(0, Blank, Blank)}, {Port(81, "tcp", Blank)},
                            {Port(82, Blank, "host")}, {Port(81, Blank, Blank), Port(82, Blank, Blank)}}
      BY DEF Written
    <3>2. p \in {Port(0, Blank, Blank), Port(81, "tcp", Blank), Port(82, Blank, "host"),
                 Port(81, Blank, Blank), Port(82, Blank, Blank)}
      BY <3>1
    <3>3. \A a, b, c : Port(a, b, c).target = 80
      BY DEF Port
    <3> QED BY <3>2, <3>3
  <2>2. ASSUME NEW p, p.target = 80
        PROVE  /\ PortKey(full(p)) = PortKey(p)
               /\ full(p) = Port(PortKey(p)[1], PortKey(p)[3], PortKey(p)[4])
    BY <2>2 DEF PortKey, Port, Or
  <2> HIDE DEF full
  <2> QED BY <2>1, <2>2
<1>2. Stored("ports", w) = {full(p) : p \in w} /\ Stored("ports", v) = {full(p) : p \in v}
  BY DEF Stored
<1> HIDE DEF full
<1>3. PortSet(Stored("ports", v)) = PortSet(v)
  BY <1>1, <1>2 DEF PortSet
<1>4. ASSUME Stored("ports", w) = Stored("ports", v)
      PROVE  PortSet(w) = PortSet(v)
  <2>1. /\ \A x \in w : \E y \in v : full(x) = full(y)
        /\ \A y \in v : \E x \in w : full(x) = full(y)
    <3>1. /\ \A x \in w : full(x) \in Stored("ports", v)
          /\ \A y \in v : full(y) \in Stored("ports", w)
      BY <1>2, <1>4
    <3> QED BY <1>2, <3>1
  <2>2. /\ \A x \in w : \E y \in v : PortKey(x) = PortKey(y)
        /\ \A y \in v : \E x \in w : PortKey(x) = PortKey(y)
    BY <1>1, <2>1
  <2> QED BY <2>2 DEF PortSet
<1>5. ASSUME PortSet(w) = PortSet(v)
      PROVE  Stored("ports", w) = Stored("ports", v)
  <2>1. /\ \A x \in w : \E y \in v : PortKey(x) = PortKey(y)
        /\ \A y \in v : \E x \in w : PortKey(x) = PortKey(y)
    BY <1>5 DEF PortSet
  <2>2. /\ \A x \in w : \E y \in v : full(x) = full(y)
        /\ \A y \in v : \E x \in w : full(x) = full(y)
    BY <1>1, <2>1
  <2> QED BY <1>2, <2>2
<1>6. Differs("ports", w, Stored("ports", v), ns)
          <=> PortSet(w) # PortSet(Stored("ports", v))
  BY DEF Differs, PortsDiffer
<1>7. \A x : Effect("ports", x) = x
  BY DEF Effect
<1>8. Differs("ports", w, Stored("ports", v), ns) <=> Stored("ports", w) # Stored("ports", v)
  BY <1>3, <1>4, <1>5, <1>6
<1> QED BY <1>7, <1>8 DEF Exact

LEMMA EndpointExact ==
    ASSUME NEW w \in Written("endpoint"), NEW v \in Written("endpoint"), NEW ns
    PROVE  Exact("endpoint", w, Stored("endpoint", v), ns)
BY DEF Exact, Differs, EndpointDiffers, Effect, Stored, Written, Or

LEMMA PolicyExact ==
    ASSUME NEW w \in Written("policy"), NEW v \in Written("policy"), NEW ns
    PROVE  Exact("policy", w, Stored("policy", v), ns)
<1> DEFINE full(p) == [action |-> Or(p.action, "any"), attempts |-> OrZero(p.attempts)]
<1>1. /\ \A p \in w \cup v : PolicyOf(full(p)) = PolicyOf(p)
      /\ \A p, q \in w \cup v : full(p) = full(q) <=> PolicyOf(p) = PolicyOf(q)
  <2>1. ASSUME NEW p
        PROVE  /\ PolicyOf(full(p)) = PolicyOf(p)
               /\ full(p) = [action |-> PolicyOf(p)[1], attempts |-> PolicyOf(p)[2]]
    BY DEF PolicyOf, Or, OrZero, Unset
  <2> HIDE DEF full
  <2> QED BY <2>1
<1>2. Stored("policy", w) = {full(p) : p \in w} /\ Stored("policy", v) = {full(p) : p \in v}
  BY DEF Stored
<1> HIDE DEF full
<1>3. {PolicyOf(p) : p \in Stored("policy", v)} = {PolicyOf(p) : p \in v}
  BY <1>1, <1>2
<1>4. ASSUME Stored("policy", w) = Stored("policy", v)
      PROVE  {PolicyOf(p) : p \in w} = {PolicyOf(p) : p \in v}
  <2>1. /\ \A x \in w : \E y \in v : full(x) = full(y)
        /\ \A y \in v : \E x \in w : full(x) = full(y)
    <3>1. /\ \A x \in w : full(x) \in Stored("policy", v)
          /\ \A y \in v : full(y) \in Stored("policy", w)
      BY <1>2, <1>4
    <3> QED BY <1>2, <3>1
  <2>2. /\ \A x \in w : \E y \in v : PolicyOf(x) = PolicyOf(y)
        /\ \A y \in v : \E x \in w : PolicyOf(x) = PolicyOf(y)
    BY <1>1, <2>1
  <2> QED BY <2>2
<1>5. ASSUME {PolicyOf(p) : p \in w} = {PolicyOf(p) : p \in v}
      PROVE  Stored("policy", w) = Stored("policy", v)
  <2>1. /\ \A x \in w : \E y \in v : PolicyOf(x) = PolicyOf(y)
        /\ \A y \in v : \E x \in w : PolicyOf(x) = PolicyOf(y)
    BY <1>5
  <2>2. /\ \A x \in w : \E y \in v : full(x) = full(y)
        /\ \A y \in v : \E x \in w : full(x) = full(y)
    BY <1>1, <2>1
  <2> QED BY <1>2, <2>2
<1>6. Differs("policy", w, Stored("policy", v), ns)
          <=> {PolicyOf(p) : p \in w} # {PolicyOf(p) : p \in Stored("policy", v)}
  BY DEF Differs, PolicyDiffers
<1>7. \A x : Effect("policy", x) = x
  BY DEF Effect
<1>8. Differs("policy", w, Stored("policy", v), ns) <=> Stored("policy", w) # Stored("policy", v)
  BY <1>3, <1>4, <1>5, <1>6
<1> QED BY <1>7, <1>8 DEF Exact

LEMMA MountsExact ==
    ASSUME NEW w \in Written("mounts"), NEW v \in Written("mounts"), NEW ns
    PROVE  Exact("mounts", w, Stored("mounts", v), ns)
<1> DEFINE full(m) == Mount(Or(m.type, "bind"), m.source, m.readOnly)
<1>1. /\ \A m \in w \cup v : MountOf(full(m)) = MountOf(m)
      /\ \A m, n \in w \cup v : full(m) = full(n) <=> MountOf(m) = MountOf(n)
  <2>1. ASSUME NEW m \in w \cup v
        PROVE  m.target = "/t" /\ m.source # "(anonymous)"
    <3>1. {w, v} \subseteq {{}, {Mount(Blank, "src", FALSE)}, {Mount("bind", "src", TRUE)},
                            {Mount("volume", Blank, FALSE)}}
      BY DEF Written
    <3>2. m \in {Mount(Blank, "src", FALSE), Mount("bind", "src", TRUE),
                 Mount("volume", Blank, FALSE)}
      BY <3>1
    <3> QED BY <3>2 DEF Mount, Blank
  <2>2. ASSUME NEW m, m.target = "/t"
        PROVE  MountOf(full(m)) = MountOf(m)
    BY <2>2 DEF MountOf, Mount, Or
  <2>3. ASSUME NEW m, NEW n, MountOf(m) = MountOf(n),
               m.source # "(anonymous)", n.source # "(anonymous)"
        PROVE  full(m) = full(n)
    BY <2>3 DEF MountOf, Or
  <2>4. ASSUME NEW m, NEW n, full(m) = full(n)
        PROVE  MountOf(full(m)) = MountOf(full(n))
    BY <2>4
  <2> HIDE DEF full
  <2> QED BY <2>1, <2>2, <2>3, <2>4
<1>2. Stored("mounts", w) = {full(m) : m \in w} /\ Stored("mounts", v) = {full(m) : m \in v}
  BY DEF Stored
<1> HIDE DEF full
<1>3. {MountOf(m) : m \in Stored("mounts", v)} = {MountOf(m) : m \in v}
  BY <1>1, <1>2
<1>4. ASSUME Stored("mounts", w) = Stored("mounts", v)
      PROVE  {MountOf(m) : m \in w} = {MountOf(m) : m \in v}
  <2>1. /\ \A x \in w : \E y \in v : full(x) = full(y)
        /\ \A y \in v : \E x \in w : full(x) = full(y)
    <3>1. /\ \A x \in w : full(x) \in Stored("mounts", v)
          /\ \A y \in v : full(y) \in Stored("mounts", w)
      BY <1>2, <1>4
    <3> QED BY <1>2, <3>1
  <2>2. /\ \A x \in w : \E y \in v : MountOf(x) = MountOf(y)
        /\ \A y \in v : \E x \in w : MountOf(x) = MountOf(y)
    BY <1>1, <2>1
  <2> QED BY <2>2
<1>5. ASSUME {MountOf(m) : m \in w} = {MountOf(m) : m \in v}
      PROVE  Stored("mounts", w) = Stored("mounts", v)
  <2>1. /\ \A x \in w : \E y \in v : MountOf(x) = MountOf(y)
        /\ \A y \in v : \E x \in w : MountOf(x) = MountOf(y)
    BY <1>5
  <2>2. /\ \A x \in w : \E y \in v : full(x) = full(y)
        /\ \A y \in v : \E x \in w : full(x) = full(y)
    BY <1>1, <2>1
  <2> QED BY <1>2, <2>2
<1>6. Differs("mounts", w, Stored("mounts", v), ns)
          <=> {MountOf(m) : m \in w} # {MountOf(m) : m \in Stored("mounts", v)}
  BY DEF Differs, MountsDiffer
<1>7. \A x : Effect("mounts", x) = x
  BY DEF Effect
<1>8. Differs("mounts", w, Stored("mounts", v), ns) <=> Stored("mounts", w) # Stored("mounts", v)
  BY <1>3, <1>4, <1>5, <1>6
<1> QED BY <1>7, <1>8 DEF Exact

LEMMA SecretsExact ==
    ASSUME NEW w \in Written("secrets"), NEW v \in Written("secrets"), NEW ns
    PROVE  Exact("secrets", w, Stored("secrets", v), ns)
<1> DEFINE kept(s) == SecretTargets(s)
<1>1. ASSUME NEW s \in Written("secrets")
      PROVE  Distinct(kept(s))
  <2>1. s \in {<<>>, <<Secret("p")>>, <<Secret("p"), Secret("q")>>,
                <<Secret("q"), Secret("p")>>, <<Secret(Blank)>>}
    BY DEF Written
  <2>2. Secret("p") # Secret("q")
    BY DEF Secret
  <2>3. \A a, b : a # b => Distinct(<<a, b>>) /\ Distinct(<<a>>) /\ Distinct(<< >>)
    BY DEF Distinct
  <2>4. Distinct(s)
    BY <2>1, <2>2, <2>3
  <2> QED BY <2>4 DEF SecretTargets, Distinct
<1>2. kept(kept(v)) = kept(v)
  BY DEF SecretTargets
<1>3. SameSorted(kept(w), kept(v)) <=> Elements(kept(w)) = Elements(kept(v))
  BY <1>1, SortedIsSet
<1> QED BY <1>2, <1>3 DEF Exact, Differs, SecretsDiffer, Effect, Stored

\* Without the words' parts, a command line may go unreported, but none is reported
\* in vain.
LEMMA CommandExact ==
    ASSUME NEW w \in Written("command"), NEW v \in Written("command"), NEW ns
    PROVE  /\ JoinedApart => Exact("command", w, Stored("command", v), ns)
           /\ Differs("command", w, Stored("command", v), ns) =>
                  Effect("command", Stored("command", w)) # Effect("command", Stored("command", v))
<1>1. Stored("command", w) = w /\ Stored("command", v) = v
  BY DEF Stored
<1>2. Effect("command", w) = w /\ Effect("command", v) = v
  BY DEF Effect
<1>3. Differs("command", w, v, ns) <=> Joined(w) # Joined(v)
  BY DEF Differs, CommandDiffers
<1>4. w \in Words /\ v \in Words
  BY DEF Written
<1> QED BY <1>1, <1>2, <1>3, <1>4 DEF Exact, JoinedApart

\* Where there is a listing that names every attached network; where there is none,
\* nothing is reported.
LEMMA NetworksExact ==
    ASSUME NEW w \in Written("networks"), NEW v \in Written("networks"), NEW ns
    PROVE  IF Named(Stored("networks", v), ns)
           THEN Exact("networks", w, Stored("networks", v), ns)
           ELSE ~Differs("networks", w, Stored("networks", v), ns)
<1> DEFINE ids(s) == [i \in DOMAIN s |-> IdOf(s[i])]
<1>1. ASSUME NEW s \in Written("networks")
      PROVE  Distinct(ids(s))
  BY DEF Written, Distinct, IdOf
<1>2. SameSorted(ids(w), ids(v)) <=> Elements(ids(w)) = Elements(ids(v))
  BY <1>1, SortedIsSet
<1>3. Stored("networks", w) = ids(w) /\ Stored("networks", v) = ids(v)
  BY DEF Stored
<1>4. Differs("networks", w, ids(v), ns) <=> Named(ids(v), ns) /\ ~SameSorted(ids(w), ids(v))
  BY DEF Differs, NetworksDiffer
<1>5. Effect("networks", ids(w)) = Elements(ids(w)) /\ Effect("networks", ids(v)) = Elements(ids(v))
  BY DEF Effect
<1> QED BY <1>2, <1>3, <1>4, <1>5 DEF Exact

-----------------------------------------------------------------------------
(* What is reported *)

LEMMA AllExact ==
    ASSUME NEW f \in Facets, NEW w \in Written(f), NEW v \in Written(f), NEW ns
    PROVE  /\ Differs(f, w, Stored(f, v), ns) =>
                  Effect(f, Stored(f, w)) # Effect(f, Stored(f, v))
           /\ (f = "command" => JoinedApart) /\ (f = "networks" => Named(Stored(f, v), ns)) =>
                  Exact(f, w, Stored(f, v), ns)
<1>1. CASE f = "networks"
  BY <1>1, NetworksExact DEF Exact
<1>2. CASE f = "command"
  BY <1>2, CommandExact
<1>3. CASE f \in {"env", "preferences", "init"}
  BY <1>3, PlainExact DEF Exact
<1>4. CASE f = "mode"
  BY <1>4, ModeExact DEF Exact
<1>5. CASE f = "image"
  BY <1>5, ImageExact DEF Exact
<1>6. CASE f = "limit"
  BY <1>6, LimitExact DEF Exact
<1>7. CASE f = "constraints"
  BY <1>7, ConstraintsExact DEF Exact
<1>8. CASE f = "labels"
  BY <1>8, LabelsExact DEF Exact
<1>9. CASE f = "ports"
  BY <1>9, PortsExact DEF Exact
<1>10. CASE f = "endpoint"
  BY <1>10, EndpointExact DEF Exact
<1>11. CASE f = "policy"
  BY <1>11, PolicyExact DEF Exact
<1>12. CASE f = "mounts"
  BY <1>12, MountsExact DEF Exact
<1>13. CASE f = "secrets"
  BY <1>13, SecretsExact DEF Exact
<1> QED BY <1>1, <1>2, <1>3, <1>4, <1>5, <1>6, <1>7, <1>8, <1>9, <1>10, <1>11, <1>12, <1>13
        DEF Facets

-----------------------------------------------------------------------------
(* Type correctness: what is stored was written by somebody *)

LEMMA TheOne == \A x : The({x}) = x
BY DEF The

LEMMA TypeInit == Init => TypeOK
<1> SUFFICES ASSUME Init PROVE TypeOK
  OBVIOUS
<1>1. \A x : {x} = {} \/ \E v \in {x} : {x} = {v}
  OBVIOUS
<1>2. \A x \in {want, got, prev, rejected} : x = {} \/ \E v \in x : x = {v}
  BY <1>1 DEF Init
<1>3. want \subseteq Written(facet) /\ got \cup prev \cup rejected = {}
  BY DEF Init
<1>4. commits \in 0 .. MaxCommits /\ edits \in 0 .. MaxEdits
  BY LiveDriftAssumption DEF Init
<1> QED BY <1>2, <1>3, <1>4 DEF Init, TypeOK, Listings

LEMMA TypeWrite ==
    ASSUME TypeOK, facet' = facet, NEW v \in Written(facet), Write(v)
    PROVE  /\ got' = {Stored(facet, v)} /\ prev' = got
           /\ status' \in {"none", "updating"} /\ tasks' \in BOOLEAN /\ rejected' = rejected
BY DEF Write, TypeOK

LEMMA TypeNext == TypeOK /\ [Next]_vars => TypeOK'
<1> SUFFICES ASSUME TypeOK, [Next]_vars
             PROVE  TypeOK'
  OBVIOUS
<1> USE LiveDriftAssumption
<1>1. ASSUME facet' = facet, NEW v \in Written(facet), Write(v),
             settled' \in BOOLEAN, installed' \in BOOLEAN, want' = want, nets' = nets,
             commits' = commits, edits' \in 0 .. MaxEdits
      PROVE  TypeOK'
  <2>1. /\ got' = {Stored(facet, v)} /\ prev' = got
        /\ status' \in {"none", "updating"} /\ tasks' \in BOOLEAN /\ rejected' = rejected
    BY <1>1, TypeWrite
  <2> QED BY <1>1, <2>1 DEF TypeOK
<1>2. ASSUME want # {}
      PROVE  The(want) \in Written(facet)
  BY <1>2, TheOne DEF TypeOK
<1>3. CASE Deploy
  <2>1. CASE want = {}
    BY <1>3, <2>1 DEF Deploy, TypeOK, service
  <2>2. CASE want # {}
    BY <1>1, <1>2, <1>3, <2>2 DEF Deploy, TypeOK
  <2> QED BY <2>1, <2>2
<1>4. CASE Correct
  <2>1. want # {}
    BY <1>4 DEF Correct, Convergeable, Report
  <2> QED BY <1>1, <1>2, <1>4, <2>1 DEF Correct, TypeOK
<1>5. CASE List
  BY <1>5 DEF List, TypeOK, service
<1>6. CASE Commit
  <2>1. want' \in {{}} \cup {{v} : v \in Written(facet)}
    BY <1>6 DEF Commit
  <2>2. want' = {} \/ \E v \in want' : want' = {v}
    BY <2>1
  <2>3. want' \subseteq Written(facet)
    BY <2>1
  <2>4. commits' \in 0 .. MaxCommits
    BY <1>6 DEF Commit, TypeOK
  <2>5. /\ facet' = facet /\ got' = got /\ prev' = prev /\ rejected' = rejected
        /\ settled' = FALSE /\ UNCHANGED <<installed, tasks, status, nets, edits>>
    BY <1>6 DEF Commit, service
  <2>6. \A s \in {want', got', prev', rejected'} : s = {} \/ \E v \in s : s = {v}
    BY <2>2, <2>5 DEF TypeOK
  <2>7. got' \cup prev' \cup rejected' \subseteq {Stored(facet', v) : v \in Written(facet')}
    BY <2>5 DEF TypeOK
  <2> QED BY <2>3, <2>4, <2>5, <2>6, <2>7 DEF TypeOK
<1>7. CASE Edit
  BY <1>1, <1>7 DEF Edit, Edited, TypeOK
<1>8. CASE Remove
  <2>1. edits' \in 0 .. MaxEdits
    BY <1>8 DEF Remove, Edited, TypeOK
  <2>2. /\ got' = {} /\ prev' = {} /\ status' = "none" /\ tasks' = FALSE
        /\ UNCHANGED <<facet, want, settled, installed, rejected, nets, commits>>
    BY <1>8 DEF Remove
  <2>3. \A s \in {want', got', prev', rejected'} : s = {} \/ \E v \in s : s = {v}
    BY <2>2 DEF TypeOK
  <2>4. got' \cup prev' \cup rejected' \subseteq {Stored(facet', v) : v \in Written(facet')}
    BY <2>2 DEF TypeOK
  <2> QED BY <2>1, <2>2, <2>3, <2>4 DEF TypeOK
<1>9. CASE RollOut
  BY <1>9 DEF RollOut, SwarmStep, TypeOK, RolledBack
<1>10. CASE Stick
  BY <1>10 DEF Stick, SwarmStep, TypeOK, RolledBack
<1>11. CASE RollBack
  BY <1>11 DEF RollBack, TypeOK, RolledBack
<1>12. CASE TasksUp
  BY <1>12 DEF TasksUp, TypeOK
<1>13. CASE UNCHANGED vars
  BY <1>13 DEF vars, service, TypeOK
<1> QED BY <1>3, <1>4, <1>5, <1>6, <1>7, <1>8, <1>9, <1>10, <1>11, <1>12, <1>13 DEF Next

LEMMA TypeInvariant == Spec => []TypeOK
<1> QED BY TypeInit, TypeNext, PTL DEF Spec

-----------------------------------------------------------------------------
(* The theorems *)

\* What the comparison of the state is a comparison of.
LEMMA Compares ==
    ASSUME TypeOK, Both
    PROVE  /\ The(want) \in Written(facet)
           /\ \E v \in Written(facet) : The(got) = Stored(facet, v)
           /\ Report = IF ~Differs(facet, The(want), The(got), nets) THEN "none"
                       ELSE IF IsRolledBack THEN "rolled-back" ELSE "modified"
<1>1. PICK w : want = {w}
  BY DEF TypeOK, Both
<1>2. PICK g : got = {g}
  BY DEF TypeOK, Both
<1>3. The(want) = w /\ The(got) = g
  BY <1>1, <1>2, TheOne
<1> QED BY <1>1, <1>2, <1>3 DEF TypeOK, Both, Report

\* A service that runs what the repository declares is never reported.
THEOREM InventsNothing == Spec => []NothingInvented
<1>1. TypeOK => NothingInvented
  <2> SUFFICES ASSUME TypeOK, Both, SameEffect
               PROVE  Report = "none"
    BY DEF NothingInvented
  <2>1. PICK v \in Written(facet) : The(got) = Stored(facet, v)
    BY Compares
  <2>2. facet \in Facets
    BY DEF TypeOK
  <2>3. ~Differs(facet, The(want), The(got), nets)
    BY <2>1, <2>2, Compares, AllExact DEF SameEffect
  <2> QED BY <2>3, Compares
<1> QED BY <1>1, TypeInvariant, PTL

\* The comparison reports every difference that matters and no other, where no two
\* command lines are the same words grouped otherwise.
THEOREM ReportSafe == ASSUME JoinedApart PROVE Spec => []ReportedExactly
<1>1. TypeOK => NothingInvented /\ EditsSeen
  <2> SUFFICES ASSUME TypeOK, Both
               PROVE  /\ SameEffect => Report = "none"
                      /\ ~SameEffect =>
                             \/ Report \in {"modified", "rolled-back"}
                             \/ /\ facet = "networks"
                                /\ \A listing \in nets : ~(Elements(The(got)) \subseteq listing)
    BY DEF NothingInvented, EditsSeen
  <2>1. PICK v \in Written(facet) : The(got) = Stored(facet, v)
    BY Compares
  <2>2. facet \in Facets
    BY DEF TypeOK
  <2>3. Differs(facet, The(want), The(got), nets) => ~SameEffect
    BY <2>1, <2>2, Compares, AllExact DEF SameEffect
  <2>4. ASSUME ~SameEffect, ~Differs(facet, The(want), The(got), nets)
        PROVE  /\ facet = "networks"
               /\ \A listing \in nets : ~(Elements(The(got)) \subseteq listing)
    <3>1. ~Exact(facet, The(want), The(got), nets)
      BY <2>4 DEF Exact, SameEffect
    <3> QED BY <2>1, <2>2, <3>1, Compares, AllExact DEF Named
  <2> QED BY <2>3, <2>4, Compares
<1>2. TypeOK => ReportedExactly
  BY <1>1 DEF ReportedExactly
<1> QED BY <1>2, TypeInvariant, PTL

\* The rollup is healthy only if everything it rolls up is.
LEMMA WorstHealthy ==
    ASSUME NEW a \in Elements(HealthStates), NEW b \in Elements(HealthStates),
           Worst({a, b}) = "healthy"
    PROVE  a = "healthy" /\ b = "healthy"
<1> DEFINE best(i) == /\ HealthStates[i] \in {a, b}
                      /\ \A j \in 1 .. i - 1 : HealthStates[j] \notin {a, b}
           i == CHOOSE i \in 1 .. 5 : best(i)
<1>1. /\ HealthStates[1] = "degraded" /\ HealthStates[2] = "missing"
      /\ HealthStates[3] = "progressing" /\ HealthStates[4] = "unknown"
      /\ HealthStates[5] = "healthy"
  BY DEF HealthStates
<1>2. Elements(HealthStates) = {"degraded", "missing", "progressing", "unknown", "healthy"}
  BY DEF HealthStates, Elements
<1>3. \E k \in 1 .. 5 : best(k)
  BY <1>1, <1>2
<1>4. i \in 1 .. 5 /\ best(i)
  BY <1>3
<1>5. HealthStates[i] = "healthy"
  BY DEF Worst
<1>6. i = 5
  BY <1>1, <1>4, <1>5
<1> QED BY <1>1, <1>2, <1>4, <1>6

LEMMA HealthRange ==
    ASSUME NEW r \in BOOLEAN, NEW f \in BOOLEAN
    PROVE  Health(r, f) \in Elements(HealthStates)
<1>1. Elements(HealthStates) = {"degraded", "missing", "progressing", "unknown", "healthy"}
  BY DEF HealthStates, Elements
<1> QED BY <1>1 DEF Health, ServiceHealth

\* What is published of a service's health and drift is neither too good nor too bad.
THEOREM HealthSafe == Spec => []HealthTold
<1>1. ASSUME TypeOK, NEW r \in BOOLEAN, NEW f \in BOOLEAN, Health(r, f) = "healthy"
      PROVE  /\ ~r /\ got # {} /\ tasks
             /\ status \in {"none", "completed", "rollback_completed"}
             /\ status = "rollback_completed" => Compared /\ Report = "none"
  BY <1>1 DEF Health, ServiceHealth, Phase, AsDeclared, RolledBack, TypeOK
<1>2. TypeOK => HealthyIsTrue
  <2> SUFFICES ASSUME TypeOK, NEW r \in BOOLEAN, NEW f \in BOOLEAN,
                      NEW other \in Elements(HealthStates),
                      Worst({Health(r, f), other}) = "healthy"
               PROVE  /\ other = "healthy" /\ ~r /\ got # {} /\ tasks
                      /\ status \in {"none", "completed", "rollback_completed"}
                      /\ status = "rollback_completed" => Compared /\ Report = "none"
    BY DEF HealthyIsTrue
  <2>1. Health(r, f) = "healthy" /\ other = "healthy"
    BY HealthRange, WorstHealthy
  <2> QED BY <1>1, <2>1
<1>3. HistoryIsHealthy
  BY DEF HistoryIsHealthy, Compared, Both, Health, ServiceHealth, Phase, AsDeclared, RolledBack
<1>4. NoDriftIsTrue
  BY DEF NoDriftIsTrue, DriftOf, Drift, SyncState
<1> QED BY <1>2, <1>3, <1>4, TypeInvariant, PTL DEF HealthTold
=============================================================================
