---------------------------- MODULE StreamsProofs ----------------------------
(***************************************************************************)
(* No event and no log line is lost in silence, sent twice or sent out of  *)
(* order; for any clients, buffers, ring and bounds.                       *)
(***************************************************************************)
EXTENDS Streams, SequenceTheorems, FiniteSetTheorems, TLAPS

-----------------------------------------------------------------------------
(* What is in flight to a client: a sequence in three parts *)

\* The handler takes the head of the channel ...
LEMMA FlightTakes ==
    ASSUME NEW S, NEW g \in Seq(S), NEW q \in Seq(S), q # <<>>
    PROVE  (g \o <<Head(q)>>) \o Tail(q) = (g \o <<>>) \o q
<1>1. Head(q) \in S /\ Tail(q) \in Seq(S) /\ Len(q) \in Nat \ {0} /\ Len(Tail(q)) = Len(q) - 1
  BY HeadTailProperties, EmptySeq
<1>2. <<Head(q)>> \o Tail(q) = q
  <2>1. \A i \in 1 .. Len(Tail(q)) : Tail(q)[i] = q[i + 1]
    BY HeadTailProperties
  <2>2. <<Head(q)>> \in Seq(S) /\ Len(<<Head(q)>>) = 1 /\ <<Head(q)>>[1] = q[1]
    BY <1>1
  <2>3. <<Head(q)>> \o Tail(q) \in Seq(S) /\ Len(<<Head(q)>> \o Tail(q)) = Len(q)
    BY <1>1, <2>2, ConcatProperties
  <2>4. \A i \in 1 .. Len(q) : (<<Head(q)>> \o Tail(q))[i] = q[i]
    BY <1>1, <2>1, <2>2, ConcatProperties
  <2> QED
    BY <2>3, <2>4, SeqEqual
<1>3. <<Head(q)>> \in Seq(S)
  BY <1>1
<1>4. (g \o <<Head(q)>>) \o Tail(q) = g \o (<<Head(q)>> \o Tail(q))
  BY <1>1, <1>3, ConcatAssociative
<1> QED
  BY <1>2, <1>4, ConcatEmptySeq

\* ... writes it ...
LEMMA FlightLands ==
    ASSUME NEW S, NEW g \in Seq(S), NEW q \in Seq(S), NEW f \in S
    PROVE  (Append(g, f) \o <<>>) \o q = (g \o <<f>>) \o q
<1>1. Append(g, f) \in Seq(S) /\ Append(g, f) = g \o <<f>>
  BY AppendProperties, AppendIsConcat
<1> QED
  BY <1>1, ConcatEmptySeq

\* ... and publish appends to what is left.
LEMMA FlightGrows ==
    ASSUME NEW S, NEW s \in Seq(S), NEW q \in Seq(S), NEW e \in S
    PROVE  s \o Append(q, e) = Append(s \o q, e)
<1>1. <<e>> \in Seq(S) /\ s \o q \in Seq(S)
  BY ConcatProperties
<1>2. (s \o q) \o <<e>> = s \o (q \o <<e>>)
  BY <1>1, ConcatAssociative
<1> QED
  BY <1>1, <1>2, AppendIsConcat

\* An event that is withheld drops out of the middle.
LEMMA FlightSkips ==
    ASSUME NEW S, NEW g \in Seq(S), NEW q \in Seq(S), q # <<>>
    PROVE  /\ Len(g \o q) = Len(g \o Tail(q)) + 1 /\ Len(g \o Tail(q)) \in Nat
           /\ Len(g) \in 0 .. Len(g \o Tail(q))
           /\ (g \o q)[Len(g) + 1] = Head(q)
           /\ \A i \in 1 .. Len(g \o Tail(q)) :
                 (g \o Tail(q))[i] = (g \o q)[IF i <= Len(g) THEN i ELSE i + 1]
<1>1. Tail(q) \in Seq(S) /\ Len(q) \in Nat \ {0} /\ Len(Tail(q)) = Len(q) - 1 /\ Head(q) = q[1]
  BY HeadTailProperties, EmptySeq
<1>2. \A i \in 1 .. Len(Tail(q)) : Tail(q)[i] = q[i + 1]
  BY HeadTailProperties
<1>3. Len(g) \in Nat /\ Len(g \o q) = Len(g) + Len(q) /\ Len(g \o Tail(q)) = Len(g) + Len(q) - 1
  BY <1>1, ConcatProperties, LenProperties
<1>4. \A i \in 1 .. Len(g) + Len(q) : (g \o q)[i] = IF i <= Len(g) THEN g[i] ELSE q[i - Len(g)]
  BY ConcatProperties
<1>5. \A i \in 1 .. Len(g) + Len(Tail(q)) :
         (g \o Tail(q))[i] = IF i <= Len(g) THEN g[i] ELSE Tail(q)[i - Len(g)]
  BY <1>1, ConcatProperties
<1>6. (g \o q)[Len(g) + 1] = Head(q)
  BY <1>1, <1>3, <1>4
<1>7. ASSUME NEW i \in 1 .. Len(g \o Tail(q))
      PROVE  (g \o Tail(q))[i] = (g \o q)[IF i <= Len(g) THEN i ELSE i + 1]
  <2>1. CASE i <= Len(g)
    BY <1>1, <1>3, <1>4, <1>5, <2>1
  <2>2. CASE i > Len(g)
    <3>1. i - Len(g) \in 1 .. Len(Tail(q)) /\ i + 1 \in 1 .. Len(g) + Len(q) /\ ~(i + 1 <= Len(g))
      BY <1>1, <1>3, <2>2
    <3>2. (g \o Tail(q))[i] = Tail(q)[i - Len(g)]
      BY <1>1, <1>3, <1>5, <2>2
    <3>3. (g \o q)[i + 1] = q[i + 1 - Len(g)] /\ i + 1 - Len(g) = i - Len(g) + 1
      BY <1>3, <1>4, <3>1
    <3>4. ~(i <= Len(g))
      BY <1>3, <2>2
    <3> QED
      BY <1>2, <3>1, <3>2, <3>3, <3>4
  <2> QED
    BY <1>3, <2>1, <2>2
<1> QED
  BY <1>1, <1>3, <1>6, <1>7

-----------------------------------------------------------------------------
(* Event streams: the inductive invariant *)

Rising(s) == \A i, j \in DOMAIN s : i < j => s[i] < s[j]

\* The ring holds the newest events, without a gap.
RingInv ==
    /\ Len(recent) = IF published < recentLimit THEN published ELSE recentLimit
    /\ \A i \in 1 .. Len(recent) : recent[i] = published - Len(recent) + i

\* A frame is what a handler writes; who is subscribed has a handler.
HandlerInv ==
    \A c \in Clients : /\ frame[c] # NoFrame <=> at[c] = "writing"
                       /\ c \in subs => at[c] \in {"serving", "writing"}

EIInv == ETypeOK /\ NoSendOnClosed /\ SentIsPublished /\ RingInv /\ HandlerInv

\* What SentIsPublished says of one client, of what it was, is being and will be sent.
Whole(s, lost, from, joined) ==
    /\ Rising(s)
    /\ joined => Items(s) \cup lost = from + 1 .. published
    /\ Items(s) \cap lost = {}

LEMMA SentWhole ==
    SentIsPublished <=> \A c \in Clients : Whole(Sent(c), missed[c], since[c], c \in subs)
BY DEF SentIsPublished, Whole, Rising

\* A new event is younger than all that were sent.
LEMMA RisingAppend ==
    ASSUME NEW n \in Nat, NEW s \in Seq(1 .. n), Rising(s), NEW e \in Nat, e = n + 1
    PROVE  Rising(Append(s, e)) /\ Items(Append(s, e)) = Items(s) \cup {e}
<1> DEFINE t == Append(s, e)
<1>1. s \in Seq(Nat) /\ Len(s) \in Nat /\ DOMAIN s = 1 .. Len(s)
  BY SeqMonotonic, LenProperties
<1>2. /\ t \in Seq(Nat) /\ Len(t) = Len(s) + 1 /\ t[Len(s) + 1] = e
      /\ \A i \in 1 .. Len(s) : t[i] = s[i]
  BY <1>1, AppendProperties
<1> HIDE DEF t
<1>3. DOMAIN t = 1 .. Len(s) + 1
  BY <1>2, LenProperties
<1>4. \A i \in 1 .. Len(s) : s[i] \in 1 .. n
  BY ElementOfSeq
<1>5. Rising(t)
  <2> SUFFICES ASSUME NEW i \in 1 .. Len(s) + 1, NEW j \in 1 .. Len(s) + 1, i < j
               PROVE  t[i] < t[j]
    BY <1>3 DEF Rising
  <2>1. i \in 1 .. Len(s)
    BY <1>1
  <2>2. CASE j \in 1 .. Len(s)
    BY <1>1, <1>2, <2>1, <2>2 DEF Rising
  <2>3. CASE j = Len(s) + 1
    <3>1. t[i] = s[i] /\ s[i] \in 1 .. n /\ t[j] = e
      BY <1>2, <1>4, <2>1, <2>3
    <3> QED
      BY <3>1
  <2> QED
    BY <1>1, <2>2, <2>3
<1>6. Items(t) = Items(s) \cup {e}
  <2>1. DOMAIN t = DOMAIN s \cup {Len(s) + 1} /\ \A i \in DOMAIN s : t[i] = s[i]
    BY <1>1, <1>2, <1>3
  <2> QED
    BY <1>2, <2>1 DEF Items
<1> QED
  BY <1>5, <1>6 DEF t

\* An event that is withheld counts as missed.
LEMMA WholeSkip ==
    ASSUME published \in Nat, NEW g \in Seq(1 .. published), NEW q \in Seq(1 .. published),
           q # <<>>, NEW lost, NEW from \in Nat, NEW joined \in BOOLEAN,
           Whole(g \o q, lost, from, joined)
    PROVE  Whole(g \o Tail(q), lost \cup {Head(q)}, from, joined)
<1> DEFINE s == g \o q
           t == g \o Tail(q)
           at1(i) == IF i <= Len(g) THEN i ELSE i + 1
<1>1. s \in Seq(1 .. published) /\ t \in Seq(1 .. published)
  BY ConcatProperties, HeadTailProperties
<1>2. /\ Len(s) = Len(t) + 1 /\ Len(t) \in Nat /\ Len(g) \in 0 .. Len(t)
      /\ s[Len(g) + 1] = Head(q)
      /\ \A i \in 1 .. Len(t) : t[i] = s[at1(i)]
  BY FlightSkips
<1>3. DOMAIN s = 1 .. Len(t) + 1 /\ DOMAIN t = 1 .. Len(t)
  BY <1>1, <1>2, LenProperties
<1>4. \A i \in 1 .. Len(t) + 1 : s[i] \in Nat
  <2>1. \A i \in 1 .. Len(s) : s[i] \in 1 .. published
    BY <1>1, ElementOfSeq
  <2> QED
    BY <1>2, <2>1
<1> HIDE DEF s, t
<1>5. Rising(s) /\ Items(s) \cap lost = {} /\ (joined => Items(s) \cup lost = from + 1 .. published)
  BY DEF Whole, s
<1>6. Rising(t)
  <2> SUFFICES ASSUME NEW i \in 1 .. Len(t), NEW j \in 1 .. Len(t), i < j
               PROVE  t[i] < t[j]
    BY <1>3 DEF Rising
  <2>1. at1(i) \in 1 .. Len(t) + 1 /\ at1(j) \in 1 .. Len(t) + 1 /\ at1(i) < at1(j)
    BY <1>2
  <2>2. s[at1(i)] < s[at1(j)]
    BY <1>3, <1>5, <2>1 DEF Rising
  <2> QED
    BY <1>2, <2>2
<1>7. \A i \in 1 .. Len(t) : t[i] # Head(q)
  <2> SUFFICES ASSUME NEW i \in 1 .. Len(t)
               PROVE  t[i] # Head(q)
    OBVIOUS
  <2>1. at1(i) \in 1 .. Len(t) + 1 /\ Len(g) + 1 \in 1 .. Len(t) + 1
        /\ (at1(i) < Len(g) + 1 \/ Len(g) + 1 < at1(i))
    BY <1>2
  <2>2. s[at1(i)] < s[Len(g) + 1] \/ s[Len(g) + 1] < s[at1(i)]
    BY <1>3, <1>5, <2>1 DEF Rising
  <2> QED
    BY <1>2, <1>4, <2>1, <2>2
<1>8. Items(s) = Items(t) \cup {Head(q)}
  <2>1. \A i \in 1 .. Len(t) + 1 :
           s[i] = Head(q) \/ \E k \in 1 .. Len(t) : t[k] = s[i]
    <3> SUFFICES ASSUME NEW i \in 1 .. Len(t) + 1, s[i] # Head(q)
                 PROVE  \E k \in 1 .. Len(t) : t[k] = s[i]
      OBVIOUS
    <3>1. i # Len(g) + 1
      BY <1>2
    <3>2. CASE i <= Len(g)
      <4>1. i \in 1 .. Len(t) /\ at1(i) = i
        BY <1>2, <3>2
      <4> QED
        BY <1>2, <4>1
    <3>3. CASE i > Len(g) + 1
      <4>1. i - 1 \in 1 .. Len(t) /\ at1(i - 1) = i
        BY <1>2, <3>3
      <4> QED
        BY <1>2, <4>1
    <3>4. i <= Len(g) \/ i = Len(g) + 1 \/ i > Len(g) + 1
      <4>1. Len(g) \in Nat /\ i \in Nat
        BY <1>2
      <4> QED
        BY <4>1
    <3> QED
      BY <3>1, <3>2, <3>3, <3>4
  <2>2. \A k \in 1 .. Len(t) : at1(k) \in 1 .. Len(t) + 1 /\ t[k] = s[at1(k)]
    BY <1>2
  <2>3. Items(s) \subseteq Items(t) \cup {Head(q)}
    BY <1>3, <2>1 DEF Items
  <2>4. Items(t) \subseteq Items(s)
    BY <1>3, <2>2 DEF Items
  <2>5. Head(q) \in Items(s)
    <3>1. Len(g) + 1 \in 1 .. Len(t) + 1
      BY <1>2
    <3> QED
      BY <1>2, <1>3, <3>1 DEF Items
  <2> QED
    BY <2>3, <2>4, <2>5
<1>9. Head(q) \notin Items(t)
  BY <1>3, <1>7 DEF Items
<1>10. Items(t) \cap (lost \cup {Head(q)}) = {}
  BY <1>5, <1>8, <1>9
<1>11. joined => Items(t) \cup (lost \cup {Head(q)}) = from + 1 .. published
  BY <1>5, <1>8
<1>12. Whole(t, lost \cup {Head(q)}, from, joined)
  BY <1>6, <1>10, <1>11 DEF Whole
<1> QED
  BY <1>12 DEF t

-----------------------------------------------------------------------------
(* Event streams: the steps *)

LEMMA EAssumed == /\ subscriberBuffer \in Nat \ {0} /\ recentLimit \in Nat \ {0}
                  /\ MaxEvents \in Nat
BY EventStreamAssumption DEF EventStreamAssumption, MaxEvents

\* The ring after one more event.
LEMMA Remembered ==
    ASSUME ETypeOK, RingInv, NEW e, e = published + 1
    PROVE  LET r == Remember(e) IN
           /\ r \in Seq(1 .. e) /\ Len(r) <= recentLimit
           /\ Len(r) = IF e < recentLimit THEN e ELSE recentLimit
           /\ \A i \in 1 .. Len(r) : r[i] = e - Len(r) + i
<1> DEFINE a == Append(recent, e)
           n == Len(recent)
           m == 1 + (IF Len(a) > recentLimit THEN Len(a) - recentLimit ELSE 0)
           r == SubSeq(a, m, Len(a))
<1>1. published \in Nat /\ e \in Nat /\ recentLimit \in Nat \ {0} /\ n \in Nat
  BY EAssumed, LenProperties DEF ETypeOK
<1>2. recent \in Seq(1 .. e)
  <2>1. 1 .. published \subseteq 1 .. e /\ recent \in Seq(1 .. published)
    BY <1>1 DEF ETypeOK
  <2> QED
    BY <2>1, SeqMonotonic
<1>3. /\ a \in Seq(1 .. e) /\ Len(a) = n + 1 /\ a[n + 1] = e
      /\ \A i \in 1 .. n : a[i] = recent[i]
  BY <1>1, <1>2, AppendProperties
<1>4. /\ n = IF published < recentLimit THEN published ELSE recentLimit
      /\ \A i \in 1 .. n : recent[i] = published - n + i
  BY DEF RingInv
<1>5. Remember(e) = r
  BY DEF Remember, Newest
<1> HIDE DEF a
<1>6. \A i \in 1 .. n + 1 : a[i] = published - n + i
  BY <1>1, <1>3, <1>4
<1>7. /\ m \in Int /\ Len(a) \in Int /\ m \in 1 .. n + 1
      /\ Len(a) - m + 1 = IF e < recentLimit THEN e ELSE recentLimit
  BY <1>1, <1>3, <1>4
<1> HIDE DEF m
<1>8. \A i \in m .. Len(a) : a[i] \in 1 .. e
  <2>1. \A i \in 1 .. Len(a) : a[i] \in 1 .. e
    BY <1>3, ElementOfSeq
  <2> QED
    BY <1>1, <1>3, <1>7, <2>1
<1>9. /\ r \in Seq(1 .. e) /\ Len(r) = IF m <= Len(a) THEN Len(a) - m + 1 ELSE 0
      /\ \A i \in 1 .. Len(a) - m + 1 : r[i] = a[m + i - 1]
  BY <1>7, <1>8, SubSeqProperties
<1> HIDE DEF r
<1>10. Len(r) = Len(a) - m + 1 /\ Len(r) = IF e < recentLimit THEN e ELSE recentLimit
  BY <1>1, <1>3, <1>7, <1>9
<1>11. ASSUME NEW i \in 1 .. Len(r)
       PROVE  r[i] = e - Len(r) + i
  <2>1. r[i] = a[m + i - 1] /\ m + i - 1 \in 1 .. n + 1
    BY <1>1, <1>3, <1>7, <1>9, <1>10
  <2>2. a[m + i - 1] = published - n + (m + i - 1)
    BY <1>6, <2>1
  <2> QED
    BY <1>1, <1>3, <1>7, <1>10, <2>1, <2>2
<1>12. Len(r) <= recentLimit
  BY <1>1, <1>10
<1> QED
  BY <1>5, <1>9, <1>10, <1>11, <1>12

LEMMA EInitInv == EInit => EIInv
<1> SUFFICES ASSUME EInit PROVE EIInv
  OBVIOUS
<1> USE DEF EInit, NoFrame
<1>1. ETypeOK
  <2>1. published \in 0 .. MaxEvents /\ 0 \in 0 .. published
    BY EAssumed
  <2>2. <<>> \in Seq(1 .. published) /\ Len(<<>>) = 0
    BY EmptySeq
  <2>3. \A n \in Nat \ {0} : 0 <= n
    OBVIOUS
  <2> QED
    BY <2>1, <2>2, <2>3, EAssumed DEF ETypeOK
<1>2. NoSendOnClosed /\ HandlerInv /\ RingInv
  BY EAssumed DEF NoSendOnClosed, HandlerInv, RingInv
<1>3. SentIsPublished
  <2>1. ASSUME NEW c \in Clients PROVE Sent(c) = <<>>
    BY DEF Sent
  <2>2. ASSUME NEW c \in Clients PROVE Whole(Sent(c), missed[c], since[c], c \in subs)
    <3>1. Sent(c) = <<>> /\ missed[c] = {} /\ c \notin subs
      BY <2>1
    <3> QED
      BY <3>1 DEF Whole, Rising, Items
  <2> QED
    BY <2>2, SentWhole
<1> QED
  BY <1>1, <1>2, <1>3 DEF EIInv

WholeAt(c) == Whole(Sent(c), missed[c], since[c], c \in subs)

LEMMA SentParts ==
    ASSUME ETypeOK, NEW c \in Clients
    PROVE  /\ got[c] \in Seq(1 .. published) /\ queue[c] \in Seq(1 .. published)
           /\ missed[c] \subseteq 1 .. published /\ since[c] \in 0 .. published
           /\ frame[c] \in 0 .. published /\ published \in Nat
           /\ Sent(c) \in Seq(1 .. published)
<1>1. /\ got[c] \in Seq(1 .. published) /\ queue[c] \in Seq(1 .. published)
      /\ missed[c] \subseteq 1 .. published /\ since[c] \in 0 .. published
      /\ frame[c] \in 0 .. published /\ published \in Nat
  BY EAssumed DEF ETypeOK
<1> DEFINE f == IF frame[c] = NoFrame THEN <<>> ELSE <<frame[c]>>
<1>2. f \in Seq(1 .. published)
  <2>1. CASE frame[c] = NoFrame
    BY <2>1
  <2>2. CASE frame[c] # NoFrame
    <3>1. frame[c] \in 1 .. published
      BY <1>1, <2>2 DEF NoFrame
    <3> QED
      BY <2>2, <3>1
  <2> QED
    BY <2>1, <2>2
<1> HIDE DEF f
<1>3. (got[c] \o f) \o queue[c] \in Seq(1 .. published)
  <2>1. got[c] \o f \in Seq(1 .. published)
    BY <1>1, <1>2, ConcatProperties
  <2> QED
    BY <1>1, <2>1, ConcatProperties
<1>4. Sent(c) = (got[c] \o f) \o queue[c]
  BY DEF Sent, f
<1> QED
  BY <1>1, <1>3, <1>4

\* A step of one connection disturbs no other.
LEMMA OthersWhole ==
    ASSUME SentIsPublished, NEW c \in Clients, published' = published,
           \A d \in Clients \ {c} :
              /\ queue'[d] = queue[d] /\ got'[d] = got[d] /\ frame'[d] = frame[d]
              /\ missed'[d] = missed[d] /\ since'[d] = since[d]
              /\ d \in subs' <=> d \in subs,
           WholeAt(c)'
    PROVE  SentIsPublished'
<1>1. ASSUME NEW d \in Clients PROVE WholeAt(d)'
  <2>1. CASE d = c
    BY <2>1
  <2>2. CASE d # c
    <3>1. Sent(d)' = Sent(d)
      BY <2>2 DEF Sent
    <3>2. Whole(Sent(d), missed[d], since[d], d \in subs)
      BY DEF SentIsPublished, Whole, Rising
    <3>3. /\ missed'[d] = missed[d] /\ since'[d] = since[d]
          /\ d \in subs' <=> d \in subs
      BY <2>2
    <3> HIDE DEF Sent
    <3> QED
      BY <3>1, <3>2, <3>3 DEF WholeAt, Whole, Rising, Items
  <2> QED
    BY <2>1, <2>2
<1> QED
  BY <1>1 DEF SentIsPublished, WholeAt, Whole, Rising

\* A connection that has been sent nothing, and has just begun if it has.
LEMMA FreshWhole ==
    ASSUME NEW c \in Clients, Sent(c)' = <<>>, missed'[c] = {}, published' \in Nat,
           c \in subs' => since'[c] = published'
    PROVE  WholeAt(c)'
<1>1. c \in subs' => since'[c] + 1 .. published' = {}
  OBVIOUS
<1> QED
  BY <1>1 DEF WholeAt, Whole, Rising, Items

LEMMA PublishKeeps == ASSUME EIInv, Publish PROVE EIInv'
<1> DEFINE e == published + 1
<1> USE DEF EIInv
<1>1. /\ published \in Nat /\ e \in Nat /\ published' = e /\ e <= MaxEvents
      /\ 1 .. published \subseteq 1 .. e /\ e = published + 1
  BY EAssumed DEF Publish, ETypeOK
<1> HIDE DEF e
<1>2. /\ recent' \in Seq(1 .. e) /\ Len(recent') <= recentLimit
      /\ RingInv'
  <2>1. recent' = Remember(e)
    BY DEF Publish, e
  <2> QED
    BY <1>1, <2>1, Remembered DEF RingInv
<1>3. /\ UNCHANGED <<subs, shut, stopping, at, frame, got, since, grants>>
      /\ queue' = [c \in Clients |-> IF c \in subs /\ Hears(c, e) THEN Append(queue[c], e) ELSE queue[c]]
      /\ missed' = [c \in Clients |-> IF c \in subs /\ ~Hears(c, e) THEN missed[c] \cup {e} ELSE missed[c]]
  BY DEF Publish, e
<1>4. ASSUME NEW c \in Clients
      PROVE  /\ queue'[c] \in Seq(1 .. e) /\ got[c] \in Seq(1 .. e)
             /\ Len(queue'[c]) <= subscriberBuffer
             /\ missed'[c] \subseteq 1 .. e
             /\ WholeAt(c)'
  <2>1. /\ got[c] \in Seq(1 .. published) /\ queue[c] \in Seq(1 .. published)
        /\ missed[c] \subseteq 1 .. published /\ since[c] \in 0 .. published
        /\ Sent(c) \in Seq(1 .. published) /\ Len(queue[c]) <= subscriberBuffer
    BY SentParts DEF ETypeOK
  <2>2. got[c] \in Seq(1 .. e) /\ queue[c] \in Seq(1 .. e) /\ Len(queue[c]) \in Nat /\ e \in 1 .. e
    BY <1>1, <2>1, SeqMonotonic, LenProperties
  <2>3. Whole(Sent(c), missed[c], since[c], c \in subs)
    BY DEF SentIsPublished, Whole, Rising
  <2>4. CASE c \notin subs
    <3>1. queue'[c] = queue[c] /\ missed'[c] = missed[c] /\ Sent(c)' = Sent(c) /\ c \notin subs'
          /\ since'[c] = since[c]
      BY <1>3, <2>4 DEF Sent
    <3>2. WholeAt(c)'
      <4> HIDE DEF Sent
      <4> QED
        BY <2>3, <3>1 DEF WholeAt, Whole, Rising, Items
    <3> QED
      BY <1>1, <2>1, <2>2, <3>1, <3>2
  <2>5. CASE c \in subs /\ ~Hears(c, e)
    <3>1. queue'[c] = queue[c] /\ missed'[c] = missed[c] \cup {e} /\ Sent(c)' = Sent(c) /\ c \in subs'
          /\ since'[c] = since[c]
      BY <1>3, <2>5 DEF Sent
    <3>2. e \notin Items(Sent(c))
      <4>1. \A i \in DOMAIN Sent(c) : Sent(c)[i] \in 1 .. published
        BY <2>1, LenProperties, ElementOfSeq
      <4> HIDE DEF Sent
      <4> QED
        BY <1>1, <4>1 DEF Items
    <3>3. since[c] + 1 .. e = (since[c] + 1 .. published) \cup {e}
      BY <1>1, <2>1
    <3>4. WholeAt(c)'
      <4> HIDE DEF Sent
      <4>1. Rising(Sent(c)) /\ Items(Sent(c)) \cap (missed[c] \cup {e}) = {}
            /\ Items(Sent(c)) \cup (missed[c] \cup {e}) = since[c] + 1 .. e
        BY <2>3, <2>5, <3>2, <3>3 DEF Whole
      <4> QED
        BY <1>1, <3>1, <4>1 DEF WholeAt, Whole, Rising, Items
    <3> QED
      BY <1>1, <2>1, <2>2, <3>1, <3>4
  <2>6. CASE c \in subs /\ Hears(c, e)
    <3>1. queue'[c] = Append(queue[c], e) /\ missed'[c] = missed[c] /\ c \in subs'
          /\ since'[c] = since[c]
      BY <1>3, <2>6
    <3>2. /\ Append(queue[c], e) \in Seq(1 .. e)
          /\ Len(Append(queue[c], e)) = Len(queue[c]) + 1
      BY <2>2, AppendProperties
    <3>3. Len(queue[c]) < subscriberBuffer
      BY <2>6 DEF Hears
    <3>4. Sent(c)' = Append(Sent(c), e)
      <4> DEFINE f == IF frame[c] = NoFrame THEN <<>> ELSE <<frame[c]>>
      <4>1. f \in Seq(1 .. e)
        <5>1. frame[c] = NoFrame \/ frame[c] \in 1 .. e
          BY <1>1, SentParts DEF NoFrame
        <5>2. CASE frame[c] = NoFrame
          BY <5>2
        <5>3. CASE frame[c] # NoFrame
          <6>1. frame[c] \in 1 .. e
            BY <5>1, <5>3
          <6> QED
            BY <5>3, <6>1
        <5> QED
          BY <5>1, <5>2, <5>3
      <4>2. Sent(c) = (got[c] \o f) \o queue[c] /\ Sent(c)' = (got[c] \o f) \o Append(queue[c], e)
        BY <1>3, <3>1 DEF Sent
      <4> HIDE DEF f
      <4>3. got[c] \o f \in Seq(1 .. e)
        BY <2>2, <4>1, ConcatProperties
      <4> DEFINE T == 1 .. e
                 s == got[c] \o f
                 q == queue[c]
      <4>4. s \in Seq(T) /\ q \in Seq(T) /\ e \in T
        BY <2>2, <4>3
      <4> HIDE DEF T, s, q
      <4>5. s \o Append(q, e) = Append(s \o q, e)
        BY <4>4, FlightGrows
      <4> QED
        BY <4>2, <4>5 DEF s, q
    <3>5. WholeAt(c)'
      <4> DEFINE t == Append(Sent(c), e)
      <4> HIDE DEF Sent
      <4>0. published \in Nat /\ e \in Nat /\ e = published + 1 /\ Rising(Sent(c))
        BY <1>1, <2>3 DEF Whole
      <4>1. Rising(t) /\ Items(t) = Items(Sent(c)) \cup {e}
        <5> DEFINE s == Sent(c)
        <5>1. published \in Nat /\ s \in Seq(1 .. published) /\ Rising(s) /\ e \in Nat /\ e = published + 1
          BY <2>1, <4>0
        <5> HIDE DEF s
        <5>2. Rising(Append(s, e)) /\ Items(Append(s, e)) = Items(s) \cup {e}
          BY <5>1, RisingAppend
        <5> QED
          BY <5>2 DEF s
      <4>3. Items(t) \cap missed[c] = {} /\ Items(t) \cup missed[c] = since[c] + 1 .. e
        <5>1. e \notin missed[c] /\ since[c] + 1 .. e = (since[c] + 1 .. published) \cup {e}
          BY <1>1, <2>1
        <5> QED
          BY <2>3, <2>6, <4>1, <5>1 DEF Whole
      <4> HIDE DEF t
      <4>2. Sent(c)' = t
        BY <3>4 DEF t
      <4> QED
        BY <1>1, <1>3, <3>1, <4>1, <4>2, <4>3 DEF WholeAt, Whole, Rising, Items
    <3> QED
      BY <1>1, <2>1, <2>2, <3>1, <3>2, <3>3, <3>5, EAssumed
  <2> QED
    BY <2>4, <2>5, <2>6
<1>5. SentIsPublished'
  BY <1>4 DEF SentIsPublished, WholeAt, Whole, Rising
<1>6. ETypeOK'
  <2>1. frame \in [Clients -> 0 .. e] /\ since \in [Clients -> 0 .. e] /\ got \in [Clients -> Seq(1 .. e)]
    <3>1. 0 .. published \subseteq 0 .. e
      BY <1>1
    <3>2. frame \in [Clients -> 0 .. published] /\ since \in [Clients -> 0 .. published]
          /\ got \in [Clients -> Seq(1 .. published)]
      BY DEF ETypeOK
    <3> QED
      BY <1>4, <3>1, <3>2
  <2>2. queue' \in [Clients -> Seq(1 .. e)] /\ missed' \in [Clients -> SUBSET (1 .. e)]
    <3>1. queue' = [c \in Clients |-> queue'[c]] /\ missed' = [c \in Clients |-> missed'[c]]
      BY <1>3
    <3> QED
      BY <1>4, <3>1
  <2> QED
    BY <1>1, <1>2, <1>3, <1>4, <2>1, <2>2 DEF ETypeOK
<1>7. NoSendOnClosed' /\ HandlerInv'
  BY <1>3 DEF NoSendOnClosed, HandlerInv
<1> QED
  BY <1>2, <1>5, <1>6, <1>7

\* Steps that leave alone what is in flight.
LEMMA QuietKeeps ==
    ASSUME EIInv, UNCHANGED <<published, recent, queue, frame, got, since, missed>>,
           subs' \subseteq subs, at' \in [Clients -> {"off", "authorized", "serving", "writing"}],
           \A c \in Clients : at'[c] # at[c] => at[c] = "off" /\ at'[c] = "authorized",
           grants' \in [Clients -> SUBSET Apps], shut' \subseteq Clients, stopping' \in BOOLEAN,
           subs' \cap shut' = {}
    PROVE  EIInv'
<1> USE DEF EIInv
<1>1. ETypeOK'
  BY DEF ETypeOK
<1>2. RingInv' /\ NoSendOnClosed'
  BY DEF RingInv, NoSendOnClosed
<1>3. HandlerInv'
  BY DEF HandlerInv, ETypeOK
<1>4. SentIsPublished'
  <2>1. \A c \in Clients : Sent(c)' = Sent(c)
    BY DEF Sent
  <2> HIDE DEF Sent
  <2> QED
    BY <2>1 DEF SentIsPublished, Items
<1> QED
  BY <1>1, <1>2, <1>3, <1>4

LEMMA ConnectKeeps == ASSUME EIInv, NEW c \in Clients, Connect(c) PROVE EIInv'
<1>1. at' \in [Clients -> {"off", "authorized", "serving", "writing"}]
  BY DEF Connect, EIInv, ETypeOK
<1>2. \A d \in Clients : at'[d] # at[d] => at[d] = "off" /\ at'[d] = "authorized"
  BY DEF Connect, EIInv, ETypeOK
<1>3. /\ UNCHANGED <<published, recent, queue, frame, got, since, missed>>
      /\ UNCHANGED <<subs, grants, shut, stopping>>
  BY DEF Connect
<1>4. /\ grants \in [Clients -> SUBSET Apps] /\ shut \subseteq Clients /\ stopping \in BOOLEAN
      /\ subs \cap shut = {}
  BY DEF EIInv, ETypeOK, NoSendOnClosed
<1> QED
  BY <1>1, <1>2, <1>3, <1>4, QuietKeeps

LEMMA WithdrawKeeps == ASSUME EIInv, NEW c \in Clients, Withdraw(c) PROVE EIInv'
<1>1. grants' \in [Clients -> SUBSET Apps]
  <2> PICK a \in grants[c] : grants' = [grants EXCEPT ![c] = @ \ {a}]
    BY DEF Withdraw
  <2> QED
    BY DEF EIInv, ETypeOK
<1>2. /\ UNCHANGED <<published, recent, queue, frame, got, since, missed>>
      /\ UNCHANGED <<subs, at, shut, stopping>>
  BY DEF Withdraw
<1>3. /\ at \in [Clients -> {"off", "authorized", "serving", "writing"}]
      /\ shut \subseteq Clients /\ stopping \in BOOLEAN /\ subs \cap shut = {}
  BY DEF EIInv, ETypeOK, NoSendOnClosed
<1> QED
  BY <1>1, <1>2, <1>3, QuietKeeps

LEMMA DrainKeeps == ASSUME EIInv, Drain PROVE EIInv'
<1>1. /\ UNCHANGED <<published, recent, queue, frame, got, since, missed>>
      /\ UNCHANGED <<at, grants>> /\ subs' = {} /\ shut' = shut \cup subs /\ stopping' = TRUE
  BY DEF Drain
<1>2. /\ at \in [Clients -> {"off", "authorized", "serving", "writing"}]
      /\ grants \in [Clients -> SUBSET Apps] /\ shut \cup subs \subseteq Clients
  BY DEF EIInv, ETypeOK
<1> QED
  BY <1>1, <1>2, QuietKeeps

\* A connection begins, and ends, with nothing in flight.
LEMMA EmptyKeeps ==
    ASSUME EIInv, NEW c \in Clients, UNCHANGED <<published, recent, stopping, grants>>,
           queue' = [queue EXCEPT ![c] = <<>>], got' = [got EXCEPT ![c] = <<>>],
           missed' = [missed EXCEPT ![c] = {}], frame' = [frame EXCEPT ![c] = NoFrame],
           NEW a \in {"off", "serving"}, at' = [at EXCEPT ![c] = a],
           NEW n \in 0 .. published, since' = [since EXCEPT ![c] = n],
           subs' \subseteq Clients, subs' \ {c} = subs \ {c},
           c \in subs' => a = "serving" /\ n = published,
           shut' \subseteq Clients, subs' \cap shut' = {}
    PROVE  EIInv'
<1> USE DEF EIInv
<1>1. ETypeOK'
  <2>1. <<>> \in Seq(1 .. published) /\ Len(<<>>) = 0 /\ 0 <= subscriberBuffer /\ NoFrame \in 0 .. published
    BY EAssumed, EmptySeq DEF ETypeOK, NoFrame
  <2>2. queue' \in [Clients -> Seq(1 .. published)] /\ got' \in [Clients -> Seq(1 .. published)]
    BY <2>1 DEF ETypeOK
  <2>3. /\ frame' \in [Clients -> 0 .. published] /\ since' \in [Clients -> 0 .. published]
        /\ missed' \in [Clients -> SUBSET (1 .. published)]
        /\ at' \in [Clients -> {"off", "authorized", "serving", "writing"}]
    BY <2>1 DEF ETypeOK
  <2>4. \A d \in Clients : Len(queue'[d]) <= subscriberBuffer
    BY <2>1 DEF ETypeOK
  <2> QED
    BY <2>2, <2>3, <2>4 DEF ETypeOK
<1>2. RingInv' /\ NoSendOnClosed'
  BY DEF RingInv, NoSendOnClosed
<1>3. HandlerInv'
  <2> SUFFICES ASSUME NEW d \in Clients
               PROVE  /\ frame'[d] # NoFrame <=> at'[d] = "writing"
                      /\ d \in subs' => at'[d] \in {"serving", "writing"}
    BY DEF HandlerInv
  <2>1. CASE d = c
    BY <2>1 DEF ETypeOK
  <2>2. CASE d # c
    BY <2>2 DEF ETypeOK, HandlerInv
  <2> QED
    BY <2>1, <2>2
<1>4. SentIsPublished'
  <2>1. Sent(c)' = <<>>
    <3>1. queue'[c] = <<>> /\ got'[c] = <<>> /\ frame'[c] = NoFrame
      BY DEF ETypeOK
    <3> QED
      BY <3>1 DEF Sent
  <2>2. missed'[c] = {} /\ since'[c] = n /\ published' \in Nat /\ published' = published
    BY EAssumed DEF ETypeOK
  <2>3. WholeAt(c)'
    BY <2>1, <2>2, FreshWhole
  <2>4. \A d \in Clients \ {c} :
           /\ queue'[d] = queue[d] /\ got'[d] = got[d] /\ frame'[d] = frame[d]
           /\ missed'[d] = missed[d] /\ since'[d] = since[d]
           /\ d \in subs' <=> d \in subs
    BY DEF ETypeOK
  <2> QED
    BY <2>2, <2>3, <2>4, OthersWhole
<1> QED
  BY <1>1, <1>2, <1>3, <1>4

LEMMA SubscribeKeeps == ASSUME EIInv, NEW c \in Clients, Subscribe(c) PROVE EIInv'
<1>1. /\ UNCHANGED <<published, recent, stopping, grants>>
      /\ queue' = [queue EXCEPT ![c] = <<>>] /\ got' = [got EXCEPT ![c] = <<>>]
      /\ missed' = [missed EXCEPT ![c] = {}] /\ frame' = frame
      /\ at[c] = "authorized" /\ at' = [at EXCEPT ![c] = "serving"]
      /\ since' = [since EXCEPT ![c] = published] /\ Joins(c)
  BY DEF Subscribe
<1>2. frame[c] = NoFrame /\ frame = [frame EXCEPT ![c] = NoFrame] /\ c \notin subs
  BY <1>1 DEF EIInv, HandlerInv, ETypeOK
<1>3. published \in 0 .. published
  BY EAssumed DEF EIInv, ETypeOK
<1>4. /\ subs' \subseteq Clients /\ subs' \ {c} = subs \ {c} /\ shut' \subseteq Clients
      /\ subs' \cap shut' = {}
  BY <1>1, <1>2 DEF Joins, EIInv, ETypeOK, NoSendOnClosed
<1> QED
  BY <1>1, <1>2, <1>3, <1>4, EmptyKeeps

LEMMA LeavesKeeps == ASSUME EIInv, NEW c \in Clients, Leaves(c) PROVE EIInv'
<1>1. /\ UNCHANGED <<published, recent, stopping, grants>>
      /\ queue' = [queue EXCEPT ![c] = <<>>] /\ got' = [got EXCEPT ![c] = <<>>]
      /\ missed' = [missed EXCEPT ![c] = {}] /\ frame' = [frame EXCEPT ![c] = NoFrame]
      /\ at' = [at EXCEPT ![c] = "off"] /\ since' = [since EXCEPT ![c] = 0]
      /\ subs' = subs \ {c} /\ shut' = shut \cup {c}
  BY DEF Leaves
<1>2. 0 \in 0 .. published
  BY EAssumed DEF EIInv, ETypeOK
<1>3. /\ subs' \subseteq Clients /\ subs' \ {c} = subs \ {c} /\ shut' \subseteq Clients
      /\ subs' \cap shut' = {} /\ c \notin subs'
  BY <1>1 DEF EIInv, ETypeOK, NoSendOnClosed
<1> QED
  BY <1>1, <1>2, <1>3, EmptyKeeps

\* The handler moves an event on; what is in flight stays what it was, or loses one
\* that is missed.
LEMMA MoveKeeps ==
    ASSUME EIInv, NEW c \in Clients,
           UNCHANGED <<published, recent, subs, shut, stopping, since, grants>>,
           NEW q \in Seq(1 .. published), queue' = [queue EXCEPT ![c] = q],
           Len(q) <= subscriberBuffer,
           NEW g \in Seq(1 .. published), got' = [got EXCEPT ![c] = g],
           NEW f \in 0 .. published, frame' = [frame EXCEPT ![c] = f],
           NEW m \in SUBSET (1 .. published), missed' = [missed EXCEPT ![c] = m],
           NEW a \in {"serving", "writing"}, at' = [at EXCEPT ![c] = a],
           f # NoFrame <=> a = "writing", at[c] \in {"serving", "writing"},
           Whole((g \o (IF f = NoFrame THEN <<>> ELSE <<f>>)) \o q, m, since[c], c \in subs)
    PROVE  EIInv'
<1> USE DEF EIInv
<1>1. ETypeOK'
  <2>1. queue' \in [Clients -> Seq(1 .. published)] /\ got' \in [Clients -> Seq(1 .. published)]
    BY DEF ETypeOK
  <2>2. /\ frame' \in [Clients -> 0 .. published]
        /\ missed' \in [Clients -> SUBSET (1 .. published)]
        /\ at' \in [Clients -> {"off", "authorized", "serving", "writing"}]
    BY DEF ETypeOK
  <2>3. \A d \in Clients : Len(queue'[d]) <= subscriberBuffer
    BY DEF ETypeOK
  <2> QED
    BY <2>1, <2>2, <2>3 DEF ETypeOK
<1>2. RingInv' /\ NoSendOnClosed'
  BY DEF RingInv, NoSendOnClosed
<1>3. HandlerInv'
  BY DEF ETypeOK, HandlerInv
<1>4. SentIsPublished'
  <2> DEFINE s == (g \o (IF f = NoFrame THEN <<>> ELSE <<f>>)) \o q
  <2>1. queue'[c] = q /\ got'[c] = g /\ frame'[c] = f /\ missed'[c] = m
    BY DEF ETypeOK
  <2>2. Sent(c)' = s
    <3>1. Sent(c)' = (got'[c] \o (IF frame'[c] = NoFrame THEN <<>> ELSE <<frame'[c]>>)) \o queue'[c]
      BY DEF Sent
    <3>2. CASE f = NoFrame
      BY <2>1, <3>1, <3>2
    <3>3. CASE f # NoFrame
      BY <2>1, <3>1, <3>3
    <3> QED
      BY <3>2, <3>3
  <2>3. Whole(s, m, since[c], c \in subs) /\ published' = published /\ since'[c] = since[c] /\ subs' = subs
    OBVIOUS
  <2> HIDE DEF s
  <2>4. WholeAt(c)'
    BY <2>1, <2>2, <2>3 DEF WholeAt, Whole, Rising, Items
  <2>5. \A d \in Clients \ {c} :
           /\ queue'[d] = queue[d] /\ got'[d] = got[d] /\ frame'[d] = frame[d]
           /\ missed'[d] = missed[d] /\ since'[d] = since[d]
           /\ d \in subs' <=> d \in subs
    BY DEF ETypeOK
  <2> QED
    BY <2>3, <2>4, <2>5, OthersWhole
<1> QED
  BY <1>1, <1>2, <1>3, <1>4

LEMMA TakeKeeps == ASSUME EIInv, NEW c \in Clients, Take(c) PROVE EIInv'
<1> DEFINE S == 1 .. published
           q == queue[c]
           g == got[c]
           e == Head(q)
<1>1. /\ q \in Seq(S) /\ g \in Seq(S) /\ missed[c] \subseteq S /\ since[c] \in 0 .. published
      /\ published \in Nat /\ Len(q) <= subscriberBuffer
      /\ Whole(Sent(c), missed[c], since[c], c \in subs)
      /\ at[c] = "serving" /\ q # <<>> /\ frame[c] = NoFrame
  BY SentParts DEF EIInv, ETypeOK, HandlerInv, SentIsPublished, Whole, Rising, Take
<1>2. /\ e \in S /\ Tail(q) \in Seq(S) /\ Len(Tail(q)) = Len(q) - 1 /\ Len(q) \in Nat
      /\ Len(Tail(q)) <= subscriberBuffer
  <2> HIDE DEF q, S
  <2>1. e \in S /\ Tail(q) \in Seq(S) /\ Len(Tail(q)) = Len(q) - 1 /\ Len(q) \in Nat
    BY <1>1, HeadTailProperties, LenProperties
  <2> QED
    BY <1>1, <2>1, EAssumed
<1>3. Sent(c) = (g \o <<>>) \o q
  BY <1>1 DEF Sent
<1>4. /\ UNCHANGED <<published, recent, subs, shut, stopping, since, grants, got>>
      /\ queue' = [queue EXCEPT ![c] = Tail(q)]
      /\ got' = [got EXCEPT ![c] = g]
  BY DEF Take, EIInv, ETypeOK
<1>5. CASE May(c, e)
  <2>1. at' = [at EXCEPT ![c] = "writing"] /\ frame' = [frame EXCEPT ![c] = e]
        /\ missed' = [missed EXCEPT ![c] = missed[c]]
    BY <1>5 DEF Take, EIInv, ETypeOK
  <2>2. e # NoFrame /\ e \in 0 .. published
    BY <1>1, <1>2 DEF NoFrame
  <2> HIDE DEF q, g
  <2>3. (g \o <<e>>) \o Tail(q) = (g \o <<>>) \o q
    <3> HIDE DEF S
    <3> QED
      BY <1>1, FlightTakes
  <2>4. (g \o (IF e = NoFrame THEN <<>> ELSE <<e>>)) \o Tail(q) = Sent(c)
    BY <1>3, <2>2, <2>3
  <2>5. Whole((g \o (IF e = NoFrame THEN <<>> ELSE <<e>>)) \o Tail(q), missed[c], since[c], c \in subs)
    <3> HIDE DEF Sent
    <3> QED
      BY <1>1, <2>4
  <2> QED
    BY <1>1, <1>2, <1>4, <2>1, <2>2, <2>5, MoveKeeps
<1>6. CASE ~May(c, e)
  <2> DEFINE m == missed[c] \cup {e}
  <2>1. at' = [at EXCEPT ![c] = "serving"] /\ frame' = [frame EXCEPT ![c] = NoFrame]
        /\ missed' = [missed EXCEPT ![c] = m]
    BY <1>1, <1>6 DEF Take, EIInv, ETypeOK
  <2>2. m \in SUBSET S /\ NoFrame \in 0 .. published
    BY <1>1, <1>2 DEF NoFrame
  <2>3. Whole((g \o <<>>) \o Tail(q), m, since[c], c \in subs)
    <3>1. g \o <<>> = g
      <4> HIDE DEF g, S
      <4> QED
        BY <1>1, ConcatEmptySeq
    <3> HIDE DEF Sent, g, q
    <3>2. Whole(g \o q, missed[c], since[c], c \in subs) /\ since[c] \in Nat
      BY <1>1, <1>3, <3>1
    <3>3. Whole(g \o Tail(q), missed[c] \cup {Head(q)}, since[c], c \in subs)
      <4> DEFINE lost == missed[c]
                 from == since[c]
                 joined == c \in subs
      <4>1. Whole(g \o q, lost, from, joined) /\ from \in Nat /\ joined \in BOOLEAN /\ published \in Nat
            /\ g \in Seq(1 .. published) /\ q \in Seq(1 .. published) /\ q # <<>>
        BY <1>1, <3>2
      <4> HIDE DEF lost, from, joined
      <4>2. Whole(g \o Tail(q), lost \cup {Head(q)}, from, joined)
        BY <4>1, WholeSkip
      <4> QED
        BY <4>2 DEF lost, from, joined
    <3> QED
      BY <3>1, <3>3
  <2>4. Whole((g \o (IF NoFrame = NoFrame THEN <<>> ELSE <<NoFrame>>)) \o Tail(q), m, since[c], c \in subs)
    BY <2>3
  <2> HIDE DEF m, q, g
  <2> QED
    BY <1>1, <1>2, <1>4, <2>1, <2>2, <2>4, MoveKeeps
<1> QED
  BY <1>5, <1>6

LEMMA WroteKeeps == ASSUME EIInv, NEW c \in Clients, Wrote(c) PROVE EIInv'
<1> DEFINE S == 1 .. published
           q == queue[c]
           g == got[c]
           f == frame[c]
           h == Append(g, f)
<1>1. /\ q \in Seq(S) /\ g \in Seq(S) /\ missed[c] \in SUBSET S /\ since[c] \in 0 .. published
      /\ published \in Nat /\ Len(q) <= subscriberBuffer /\ f \in 0 .. published
      /\ Whole(Sent(c), missed[c], since[c], c \in subs)
      /\ at[c] = "writing" /\ f # NoFrame
  BY SentParts DEF EIInv, ETypeOK, HandlerInv, SentIsPublished, Whole, Rising, Wrote
<1>2. f \in S
  BY <1>1 DEF NoFrame
<1>3. /\ UNCHANGED <<published, recent, subs, shut, stopping, since, grants>>
      /\ queue' = [queue EXCEPT ![c] = q] /\ got' = [got EXCEPT ![c] = h]
      /\ frame' = [frame EXCEPT ![c] = NoFrame] /\ missed' = [missed EXCEPT ![c] = missed[c]]
      /\ at' = [at EXCEPT ![c] = "serving"]
  BY DEF Wrote, EIInv, ETypeOK
<1>4. Sent(c) = (g \o <<f>>) \o q
  BY <1>1 DEF Sent
<1> HIDE DEF q, g, f
<1>5. h \in Seq(S) /\ (h \o <<>>) \o q = (g \o <<f>>) \o q
  <2> HIDE DEF S
  <2> QED
    BY <1>1, <1>2, AppendProperties, FlightLands
<1> HIDE DEF h
<1>6. Whole((h \o (IF NoFrame = NoFrame THEN <<>> ELSE <<NoFrame>>)) \o q, missed[c], since[c], c \in subs)
  <2> HIDE DEF Sent
  <2> QED
    BY <1>1, <1>4, <1>5
<1>7. NoFrame \in 0 .. published
  BY <1>1 DEF NoFrame
<1> QED
  BY <1>1, <1>3, <1>5, <1>6, <1>7, MoveKeeps

LEMMA EStepKeeps == ASSUME EIInv, ENext \/ Drain PROVE EIInv'
<1>1. CASE Publish
  BY <1>1, PublishKeeps
<1>2. CASE Drain
  BY <1>2, DrainKeeps
<1>3. ASSUME NEW c \in Clients, Connect(c) \/ Serve(c) \/ Wrote(c) \/ HangUp(c) \/ Withdraw(c)
      PROVE  EIInv'
  <2>1. CASE Connect(c)
    BY <2>1, ConnectKeeps
  <2>2. CASE Subscribe(c)
    BY <2>2, SubscribeKeeps
  <2>3. CASE Take(c)
    BY <2>3, TakeKeeps
  <2>4. CASE SeeClosed(c) \/ HangUp(c)
    BY <2>4, LeavesKeeps DEF SeeClosed, HangUp
  <2>5. CASE Wrote(c)
    BY <2>5, WroteKeeps
  <2>6. CASE Withdraw(c)
    BY <2>6, WithdrawKeeps
  <2> QED
    BY <1>3, <2>1, <2>2, <2>3, <2>4, <2>5, <2>6 DEF Serve
<1> QED
  BY <1>1, <1>2, <1>3 DEF ENext

LEMMA EStutterKeeps == ASSUME EIInv, UNCHANGED evars PROVE EIInv'
<1>1. /\ UNCHANGED <<published, recent, queue, frame, got, since, missed>>
      /\ UNCHANGED <<subs, at, grants, shut, stopping>>
  BY DEF evars
<1>2. /\ at \in [Clients -> {"off", "authorized", "serving", "writing"}]
      /\ grants \in [Clients -> SUBSET Apps]
      /\ shut \subseteq Clients /\ stopping \in BOOLEAN /\ subs \cap shut = {}
  BY DEF EIInv, ETypeOK, NoSendOnClosed
<1> QED
  BY <1>1, <1>2, QuietKeeps

\* The ring is the last of what was published, so what it lacks is older.
LEMMA DocumentFollows == EIInv => DocumentComplete
<1> SUFFICES ASSUME EIInv, NEW c \in Clients, NEW e \in Items(Sent(c)) \cup missed[c],
                    May(c, e), e + recentLimit > published
             PROVE  e \in Document(c)
  BY DEF DocumentComplete
<1>1. e \in 1 .. published /\ published \in Nat
  <2>1. /\ missed[c] \subseteq 1 .. published /\ published \in Nat
        /\ Sent(c) \in Seq(1 .. published)
    BY SentParts DEF EIInv
  <2> HIDE DEF Sent
  <2>2. \A i \in DOMAIN Sent(c) : Sent(c)[i] \in 1 .. published
    BY <2>1, LenProperties, ElementOfSeq
  <2> QED
    BY <2>1, <2>2 DEF Items
<1>2. /\ Len(recent) = IF published < recentLimit THEN published ELSE recentLimit
      /\ \A i \in 1 .. Len(recent) : recent[i] = published - Len(recent) + i
      /\ DOMAIN recent = 1 .. Len(recent)
  BY LenProperties DEF EIInv, RingInv, ETypeOK
<1> DEFINE k == e - published + Len(recent)
<1>3. k \in 1 .. Len(recent) /\ published - Len(recent) + k = e
  BY <1>1, <1>2, EAssumed
<1>4. recent[k] = e /\ k \in DOMAIN recent
  BY <1>2, <1>3
<1> HIDE DEF k
<1> QED
  BY <1>4 DEF Document, Items

-----------------------------------------------------------------------------
(* Log streams: what a channel accounts for *)

LEMMA LAssumed == /\ maxLogStreams \in Nat \ {0} /\ logBuffer \in Nat \ {0} /\ MaxLines \in Nat
                  /\ IsFiniteSet(Readers) /\ Tails \subseteq Nat
BY LogStreamAssumption DEF LogStreamAssumption

InOrder(s) == \A i, j \in DOMAIN s : i < j => s[j].line = 0 \/ s[i].line < s[j].line

\* What a stream tells, of which n lines are accounted for and none is after line r.
Tells(s, n, r) == InOrder(s) /\ CountIs(s, n) /\ \A i \in DOMAIN s : s[i].line <= r

LEMMA TellsAppend ==
    ASSUME NEW s \in Seq(Event), s # <<>>, NEW n, NEW r \in Nat, Tells(s, n, r),
           NEW e \in Event, NEW r2 \in Nat, r <= r2, e.line <= r2,
           e.line = 0 \/ r < e.line, NEW n2 \in 0 .. MaxLines, n2 = n + e.count
    PROVE  Tells(Append(s, e), n2, r2)
<1> DEFINE t == Append(s, e)
           k == Len(s)
<1>1. k \in Nat \ {0} /\ DOMAIN s = 1 .. k
  BY EmptySeq, LenProperties
<1>2. /\ t \in Seq(Event) /\ Len(t) = k + 1 /\ t[k + 1] = e
      /\ \A i \in 1 .. k : t[i] = s[i]
  BY AppendProperties
<1> HIDE DEF t
<1>3. DOMAIN t = 1 .. k + 1
  BY <1>2, LenProperties
<1>4. \A i \in 1 .. k : s[i].line \in Nat
  <2>1. \A i \in 1 .. k : s[i] \in Event
    BY ElementOfSeq
  <2> QED
    BY <2>1, LAssumed DEF Event
<1> HIDE DEF k
<1>5. InOrder(t)
  <2> SUFFICES ASSUME NEW i \in 1 .. k + 1, NEW j \in 1 .. k + 1, i < j
               PROVE  t[j].line = 0 \/ t[i].line < t[j].line
    BY <1>3 DEF InOrder
  <2>1. i \in 1 .. k
    BY <1>1
  <2>2. CASE j \in 1 .. k
    BY <1>1, <1>2, <2>1, <2>2 DEF Tells, InOrder
  <2>3. CASE j = k + 1
    <3>1. s[i].line <= r /\ s[i].line \in Nat
      BY <1>1, <1>4, <2>1 DEF Tells
    <3>2. t[i] = s[i] /\ t[j] = e /\ e.line \in Nat
      BY <1>2, <2>1, <2>3, LAssumed DEF Event
    <3> QED
      BY <3>1, <3>2
  <2> QED
    BY <1>1, <2>2, <2>3
<1>6. CountIs(t, n2)
  <2> PICK sum \in [1 .. k -> 0 .. MaxLines] :
         /\ sum[1] = s[1].count /\ sum[k] = n
         /\ \A i \in 2 .. k : sum[i] = sum[i - 1] + s[i].count
    BY DEF Tells, CountIs, k
  <2> DEFINE new == [i \in 1 .. k + 1 |-> IF i = k + 1 THEN n2 ELSE sum[i]]
  <2>1. new \in [1 .. k + 1 -> 0 .. MaxLines]
    BY <1>1
  <2>2. new[1] = t[1].count /\ new[k + 1] = n2
    BY <1>1, <1>2
  <2>3. ASSUME NEW i \in 2 .. k + 1 PROVE new[i] = new[i - 1] + t[i].count
    <3>1. CASE i \in 2 .. k
      BY <1>1, <1>2, <3>1
    <3>2. CASE i = k + 1
      BY <1>1, <1>2, <3>2
    <3> QED
      BY <1>1, <3>1, <3>2
  <2> HIDE DEF new
  <2> QED
    BY <1>2, <2>1, <2>2, <2>3 DEF CountIs
<1>7. \A i \in 1 .. k + 1 : t[i].line <= r2
  <2> SUFFICES ASSUME NEW i \in 1 .. k + 1 PROVE t[i].line <= r2
    OBVIOUS
  <2>1. CASE i \in 1 .. k
    BY <1>1, <1>2, <1>4, <2>1 DEF Tells
  <2>2. CASE i = k + 1
    BY <1>2, <2>2
  <2> QED
    BY <1>1, <2>1, <2>2
<1>8. Tells(t, n2, r2)
  BY <1>3, <1>5, <1>6, <1>7 DEF Tells
<1> QED
  BY <1>8 DEF t

\* What is written to the client goes on being accounted for.
LEMMA TellsWritten ==
    ASSUME NEW x \in Event, NEW q \in Seq(Event), q # <<>>, NEW n, NEW r \in Nat,
           Tells(<<x>> \o q, n, r)
    PROVE  Tells(<<Written(x, Head(q))>> \o Tail(q), n, r)
<1> DEFINE w == Written(x, Head(q))
           s == <<x>> \o q
           t == <<w>> \o Tail(q)
           k == Len(q)
<1>1. /\ Head(q) \in Event /\ Tail(q) \in Seq(Event) /\ Len(Tail(q)) = k - 1 /\ Head(q) = q[1]
      /\ \A i \in 1 .. k - 1 : Tail(q)[i] = q[i + 1]
  BY HeadTailProperties
<1>2. k \in Nat \ {0}
  BY EmptySeq, LenProperties
<1>3. w \in Event /\ w.count = x.count + Head(q).count
      /\ w.line = IF Head(q).line = 0 THEN x.line ELSE Head(q).line
  BY <1>1 DEF Written, Event
<1>4. <<x>> \in Seq(Event) /\ <<w>> \in Seq(Event)
  BY <1>3
<1> HIDE DEF w, k
<1>5. /\ Len(s) = k + 1 /\ s[1] = x /\ \A i \in 1 .. k : s[i + 1] = q[i]
      /\ s \in Seq(Event)
  <2>1. /\ s \in Seq(Event) /\ Len(s) = 1 + k
        /\ \A i \in 1 .. 1 + k : s[i] = IF i <= 1 THEN <<x>>[i] ELSE q[i - 1]
    BY <1>4, ConcatProperties DEF k
  <2> HIDE DEF s
  <2>2. s[1] = x
    BY <1>2, <2>1
  <2>3. ASSUME NEW i \in 1 .. k PROVE s[i + 1] = q[i]
    <3>1. i + 1 \in 1 .. 1 + k /\ ~(i + 1 <= 1) /\ i + 1 - 1 = i
      BY <1>2
    <3> QED
      BY <2>1, <3>1
  <2> QED
    BY <1>2, <2>1, <2>2, <2>3
<1>6. /\ Len(t) = k /\ t[1] = w /\ \A i \in 2 .. k : t[i] = s[i + 1]
      /\ t \in Seq(Event)
  <2>1. /\ t \in Seq(Event) /\ Len(t) = 1 + (k - 1)
        /\ \A i \in 1 .. 1 + (k - 1) : t[i] = IF i <= 1 THEN <<w>>[i] ELSE Tail(q)[i - 1]
    BY <1>1, <1>4, ConcatProperties
  <2> HIDE DEF s, t
  <2>2. t[1] = w
    BY <1>2, <2>1
  <2>3. ASSUME NEW i \in 2 .. k PROVE t[i] = s[i + 1]
    <3>1. i \in 1 .. 1 + (k - 1) /\ ~(i <= 1) /\ i - 1 \in 1 .. k - 1 /\ i - 1 + 1 = i /\ i \in 1 .. k
      BY <1>2
    <3> QED
      BY <1>1, <1>5, <2>1, <3>1
  <2> QED
    BY <1>2, <2>1, <2>2, <2>3
<1>7. Head(q) = s[2]
  BY <1>1, <1>2, <1>5
<1> HIDE DEF s, t
<1>8. DOMAIN s = 1 .. k + 1 /\ DOMAIN t = 1 .. k
  BY <1>5, <1>6, LenProperties
<1>9. \A i \in 1 .. k + 1 : s[i].line \in Nat
  <2>1. \A i \in 1 .. Len(s) : s[i] \in Event
    BY <1>5, ElementOfSeq
  <2> QED
    BY <1>5, <2>1, LAssumed DEF Event
<1>10. InOrder(s) /\ CountIs(s, n) /\ \A i \in 1 .. k + 1 : s[i].line <= r
  BY <1>8 DEF Tells, s
<1>11. w.line = s[1].line \/ (w.line = s[2].line /\ s[2].line # 0)
  BY <1>3, <1>5, <1>7
<1>12. InOrder(t)
  <2> SUFFICES ASSUME NEW i \in 1 .. k, NEW j \in 1 .. k, i < j
               PROVE  t[j].line = 0 \/ t[i].line < t[j].line
    BY <1>8 DEF InOrder
  <2>1. t[j] = s[j + 1] /\ j + 1 \in 1 .. k + 1 /\ 2 < j + 1 /\ 2 \in 1 .. k + 1 /\ 1 \in 1 .. k + 1
        /\ 1 < j + 1
    BY <1>2, <1>6
  <2>2. CASE i = 1
    BY <1>6, <1>8, <1>10, <1>11, <2>1, <2>2 DEF InOrder
  <2>3. CASE i # 1
    <3>1. t[i] = s[i + 1] /\ i + 1 \in 1 .. k + 1 /\ i + 1 < j + 1
      BY <1>2, <1>6, <2>3
    <3> QED
      BY <1>8, <1>10, <2>1, <3>1 DEF InOrder
  <2> QED
    BY <2>2, <2>3
<1>13. CountIs(t, n)
  <2> PICK sum \in [1 .. k + 1 -> 0 .. MaxLines] :
         /\ sum[1] = s[1].count /\ sum[k + 1] = n
         /\ \A i \in 2 .. k + 1 : sum[i] = sum[i - 1] + s[i].count
    BY <1>5, <1>10 DEF CountIs
  <2> DEFINE new == [i \in 1 .. k |-> sum[i + 1]]
  <2>1. new \in [1 .. k -> 0 .. MaxLines]
    BY <1>2
  <2>2. new[1] = t[1].count /\ new[k] = n
    <3>1. sum[2] = sum[1] + s[2].count
      BY <1>2
    <3> QED
      BY <1>2, <1>3, <1>5, <1>6, <1>7, <3>1
  <2>3. ASSUME NEW i \in 2 .. k PROVE new[i] = new[i - 1] + t[i].count
    <3>1. i + 1 \in 2 .. k + 1 /\ i + 1 - 1 = i /\ i - 1 + 1 = i /\ i \in 1 .. k /\ i - 1 \in 1 .. k
      BY <1>2
    <3>2. new[i] = sum[i + 1] /\ new[i - 1] = sum[i] /\ t[i] = s[i + 1]
      BY <1>6, <3>1
    <3>3. sum[i + 1] = sum[i] + s[i + 1].count
      BY <3>1
    <3> HIDE DEF new
    <3> QED
      BY <3>2, <3>3
  <2> HIDE DEF new
  <2> QED
    BY <1>6, <2>1, <2>2, <2>3 DEF CountIs
<1>14. \A i \in 1 .. k : t[i].line <= r
  <2> SUFFICES ASSUME NEW i \in 1 .. k PROVE t[i].line <= r
    OBVIOUS
  <2>1. CASE i = 1
    BY <1>2, <1>6, <1>10, <1>11, <2>1
  <2>2. CASE i # 1
    <3>1. t[i] = s[i + 1] /\ i + 1 \in 1 .. k + 1
      BY <1>2, <1>6, <2>2
    <3> QED
      BY <1>10, <3>1
  <2> QED
    BY <2>1, <2>2
<1>15. Tells(t, n, r)
  BY <1>8, <1>12, <1>13, <1>14 DEF Tells
<1> QED
  BY <1>15 DEF t, w

-----------------------------------------------------------------------------
(* Log streams: the inductive invariant *)

\* What the pump has read of t, but for the line in its hands.
ReadOf(t, p) == t.line - (IF p \in {"noticing", "sending"} THEN 1 ELSE 0)
Accounts(t, p) == Tells(<<t.told>> \o t.out, ReadOf(t, p) - t.dropped, ReadOf(t, p))

\* A stream that lives accounts for every line read, and is ahead of none.
LIInv ==
    /\ LTypeOK /\ SlotsReturned
    /\ \A c \in Readers : Live(c) => Accounts(st[c], pump[c])

Kept == [out: Seq(Event), backlog: Nat, line: 0 .. MaxLines, dropped: 0 .. MaxLines, told: Event]

LEMMA GapsFollow == LIInv => GapsCounted
<1> SUFFICES ASSUME LIInv, NEW c \in Readers, Live(c)
             PROVE  LET s == <<st[c].told>> \o st[c].out IN
                    /\ \A i, j \in DOMAIN s : i < j => s[j].line = 0 \/ s[i].line < s[j].line
                    /\ CountIs(s, Read(c) - st[c].dropped)
  BY DEF GapsCounted
<1>1. Accounts(st[c], pump[c])
  BY DEF LIInv
<1> QED
  BY <1>1 DEF Accounts, Tells, InOrder, Read, ReadOf

\* What is to be shown of a step of one stream.
LEMMA StreamStep ==
    ASSUME LIInv, NEW c \in Readers,
           NEW h \in {"off", "slotted", "open", "writing"}, handler' = [handler EXCEPT ![c] = h],
           NEW p \in {"none", "reading", "noticing", "sending"}, pump' = [pump EXCEPT ![c] = p],
           NEW t \in Kept, st' = [st EXCEPT ![c] = t], Len(t.out) <= logBuffer,
           slots' \in 0 .. maxLogStreams, SlotsReturned',
           revoked' \subseteq Readers, outShut' \subseteq Readers,
           h \in {"open", "writing"} => Accounts(t, p)
    PROVE  LIInv'
<1> USE DEF LIInv
<1>1. LTypeOK'
  <2>1. st' \in [Readers -> Kept]
    BY DEF LTypeOK, Kept
  <2>2. \A d \in Readers : Len(st'[d].out) <= logBuffer
    BY DEF LTypeOK
  <2> QED
    BY <2>1, <2>2 DEF LTypeOK, Kept
<1>2. ASSUME NEW d \in Readers, Live(d)' PROVE Accounts(st'[d], pump'[d])
  <2>1. CASE d = c
    BY <1>2, <2>1 DEF LTypeOK, Live
  <2>2. CASE d # c
    <3>1. handler'[d] = handler[d] /\ pump'[d] = pump[d] /\ st'[d] = st[d] /\ Live(d)
      BY <1>2, <2>2 DEF LTypeOK, Live
    <3> QED
      BY <3>1
  <2> QED
    BY <2>1, <2>2
<1>3. \A d \in Readers : Live(d)' => Accounts(st[d], pump[d])'
  BY <1>2 DEF Accounts, Tells, InOrder, ReadOf
<1> QED
  BY <1>1, <1>3

LEMMA StreamKinds ==
    ASSUME LIInv, NEW c \in Readers
    PROVE  /\ st[c] \in Kept /\ Len(st[c].out) <= logBuffer /\ st[c].out \in Seq(Event)
           /\ Len(st[c].out) \in Nat
           /\ handler[c] \in {"off", "slotted", "open", "writing"}
           /\ pump[c] \in {"none", "reading", "noticing", "sending"}
           /\ handler = [handler EXCEPT ![c] = handler[c]]
           /\ pump = [pump EXCEPT ![c] = pump[c]] /\ st = [st EXCEPT ![c] = st[c]]
           /\ slots \in 0 .. maxLogStreams /\ revoked \subseteq Readers /\ outShut \subseteq Readers
           /\ Live(c) => Accounts(st[c], pump[c])
           /\ SlotsReturned /\ LTypeOK
<1>1. st[c] \in Kept /\ Len(st[c].out) <= logBuffer
  BY DEF LIInv, LTypeOK, Kept
<1>2. st[c].out \in Seq(Event)
  BY <1>1 DEF Kept
<1>3. Len(st[c].out) \in Nat
  BY <1>2, LenProperties
<1> QED
  BY <1>1, <1>2, <1>3 DEF LIInv, LTypeOK

Taken == {c \in Readers : handler[c] # "off"}

LEMMA TakenFinite == IsFiniteSet(Taken) /\ Cardinality(Taken) \in Nat
<1>1. Taken \in SUBSET Readers
  BY DEF Taken
<1>2. IsFiniteSet(Taken)
  BY <1>1, LAssumed, FS_Subset
<1> QED
  BY <1>2, FS_CardinalityType

LEMMA SlotTaken ==
    ASSUME LIInv, NEW c \in Readers, handler[c] = "off",
           handler' = [handler EXCEPT ![c] = "slotted"], slots' = slots + 1
    PROVE  SlotsReturned'
<1>1. slots = Cardinality(Taken) /\ c \notin Taken
  BY DEF LIInv, SlotsReturned, Taken
<1>2. {d \in Readers : handler'[d] # "off"} = Taken \cup {c}
  BY DEF Taken, LIInv, LTypeOK
<1>3. Cardinality(Taken \cup {c}) = Cardinality(Taken) + 1
  BY <1>1, TakenFinite, FS_AddElement
<1> QED
  BY <1>1, <1>2, <1>3 DEF SlotsReturned

LEMMA SlotFreed ==
    ASSUME LIInv, NEW c \in Readers, handler[c] # "off",
           handler' = [handler EXCEPT ![c] = "off"], slots' = slots - 1
    PROVE  SlotsReturned' /\ slots' \in 0 .. maxLogStreams
<1>1. slots = Cardinality(Taken) /\ c \in Taken /\ slots \in 0 .. maxLogStreams
  BY DEF LIInv, LTypeOK, SlotsReturned, Taken
<1>2. {d \in Readers : handler'[d] # "off"} = Taken \ {c}
  BY DEF Taken, LIInv, LTypeOK
<1>3. Cardinality(Taken \ {c}) = Cardinality(Taken) - 1
  BY <1>1, TakenFinite, FS_RemoveElement
<1>4. Cardinality(Taken) # 0
  BY <1>1, TakenFinite, FS_EmptySet
<1>5. slots' \in 0 .. maxLogStreams
  BY <1>1, <1>4, TakenFinite, LAssumed
<1> QED
  BY <1>1, <1>2, <1>3, <1>5 DEF SlotsReturned

LEMMA SlotStays ==
    ASSUME LIInv, NEW c \in Readers, handler[c] # "off", NEW h, h # "off",
           handler' = [handler EXCEPT ![c] = h], slots' = slots
    PROVE  SlotsReturned'
<1>1. {d \in Readers : handler'[d] # "off"} = {d \in Readers : handler[d] # "off"}
  BY DEF LIInv, LTypeOK
<1> QED
  BY <1>1 DEF LIInv, SlotsReturned

LEMMA LInitInv == LInit => LIInv
<1> SUFFICES ASSUME LInit PROVE LIInv
  OBVIOUS
<1>1. Fresh(0) \in Kept /\ Fresh(0).out = <<>> /\ Len(<<>>) <= logBuffer
  <2>1. <<>> \in Seq(Event) /\ Len(<<>>) = 0 /\ 0 \in 0 .. MaxLines /\ 0 <= logBuffer
    BY LAssumed, EmptySeq
  <2> QED
    BY <2>1 DEF Fresh, Kept, Nothing, Notice, Event
<1>2. LTypeOK
  BY <1>1, LAssumed DEF LInit, LTypeOK, Kept
<1>3. SlotsReturned
  <2>1. {c \in Readers : handler[c] # "off"} = {}
    BY DEF LInit
  <2> QED
    BY <2>1, FS_EmptySet DEF LInit, SlotsReturned
<1> QED
  BY <1>2, <1>3 DEF LInit, LIInv, Live

-----------------------------------------------------------------------------
(* Log streams: the steps *)

LEMMA SlotKeeps == ASSUME LIInv, NEW c \in Readers, Slot(c) PROVE LIInv'
<1>1. /\ handler[c] = "off" /\ slots < maxLogStreams /\ slots' = slots + 1
      /\ handler' = [handler EXCEPT ![c] = "slotted"]
      /\ UNCHANGED <<revoked, pump, outShut, st>>
  BY DEF Slot
<1>2. SlotsReturned'
  BY <1>1, SlotTaken
<1>3. slots' \in 0 .. maxLogStreams
  BY <1>1, LAssumed, StreamKinds
<1>4. /\ st[c] \in Kept /\ Len(st[c].out) <= logBuffer
      /\ pump[c] \in {"none", "reading", "noticing", "sending"}
      /\ pump = [pump EXCEPT ![c] = pump[c]] /\ st = [st EXCEPT ![c] = st[c]]
      /\ revoked \subseteq Readers /\ outShut \subseteq Readers
  BY StreamKinds
<1> DEFINE t == st[c]
           p == pump[c]
<1>5. /\ st' = [st EXCEPT ![c] = t] /\ t \in Kept /\ Len(t.out) <= logBuffer
      /\ pump' = [pump EXCEPT ![c] = p] /\ p \in {"none", "reading", "noticing", "sending"}
      /\ revoked' \subseteq Readers /\ outShut' \subseteq Readers
  BY <1>1, <1>4
<1> HIDE DEF t, p
<1> QED
  BY <1>1, <1>2, <1>3, <1>5, StreamStep

\* Nothing has been read of a stream that has just been opened.
LEMMA FreshKept ==
    ASSUME NEW n \in Nat
    PROVE  /\ Fresh(n) \in Kept /\ Len(Fresh(n).out) <= logBuffer
           /\ Accounts(Fresh(n), "reading")
<1>1. <<>> \in Seq(Event) /\ Len(<<>>) = 0 /\ 0 \in 0 .. MaxLines /\ 0 <= logBuffer
  BY LAssumed, EmptySeq
<1>2. Fresh(n) \in Kept /\ Fresh(n).out = <<>> /\ Fresh(n).told = Nothing /\ Nothing \in Event
  BY <1>1 DEF Fresh, Kept, Nothing, Notice, Event
<1>3. ReadOf(Fresh(n), "reading") = 0 /\ Fresh(n).dropped = 0
  BY DEF Fresh, ReadOf
<1>4. <<Nothing>> \o <<>> = <<Nothing>>
  BY <1>2, ConcatEmptySeq
<1>5. Tells(<<Nothing>>, 0, 0)
  <2>1. Len(<<Nothing>>) = 1 /\ <<Nothing>>[1] = Nothing /\ DOMAIN <<Nothing>> = {1}
    OBVIOUS
  <2>2. Nothing.line = 0 /\ Nothing.count = 0
    BY DEF Nothing, Notice
  <2>3. CountIs(<<Nothing>>, 0)
    <3> DEFINE sum == [i \in 1 .. 1 |-> 0]
    <3>1. sum \in [1 .. Len(<<Nothing>>) -> 0 .. MaxLines] /\ sum[1] = 0
      BY <1>1, <2>1
    <3>2. 2 .. Len(<<Nothing>>) = {}
      BY <2>1
    <3> HIDE DEF sum
    <3> QED
      BY <2>1, <2>2, <3>1, <3>2 DEF CountIs
  <2> QED
    BY <2>1, <2>2, <2>3 DEF Tells, InOrder
<1>6. Accounts(Fresh(n), "reading")
  <2>1. ReadOf(Fresh(n), "reading") - Fresh(n).dropped = 0
    BY <1>3
  <2> QED
    BY <1>2, <1>3, <1>4, <1>5, <2>1 DEF Accounts
<1> QED
  BY <1>1, <1>2, <1>6

LEMMA OpenKeeps == ASSUME LIInv, NEW c \in Readers, Open(c) PROVE LIInv'
<1> PICK n \in Tails :
       /\ handler[c] = "slotted" /\ handler' = [handler EXCEPT ![c] = "open"]
       /\ pump' = [pump EXCEPT ![c] = "reading"] /\ outShut' = outShut \ {c}
       /\ st' = [st EXCEPT ![c] = Fresh(n)]
       /\ UNCHANGED <<slots, revoked>>
  BY DEF Open
<1>1. n \in Nat
  BY LAssumed
<1>2. /\ Fresh(n) \in Kept /\ Len(Fresh(n).out) <= logBuffer /\ Accounts(Fresh(n), "reading")
  BY <1>1, FreshKept
<1>3. SlotsReturned'
  BY SlotStays
<1>4. slots' \in 0 .. maxLogStreams /\ revoked' \subseteq Readers /\ outShut' \subseteq Readers
  BY StreamKinds
<1> QED
  BY <1>2, <1>3, <1>4, StreamStep

\* The slot is given back, whatever is left behind.
LEMMA OffKeeps ==
    ASSUME LIInv, NEW c \in Readers, handler[c] # "off",
           handler' = [handler EXCEPT ![c] = "off"], slots' = slots - 1,
           NEW t \in Kept, st' = [st EXCEPT ![c] = t], Len(t.out) <= logBuffer,
           UNCHANGED <<revoked, pump, outShut>>
    PROVE  LIInv'
<1>1. SlotsReturned' /\ slots' \in 0 .. maxLogStreams
  BY SlotFreed
<1> DEFINE p == pump[c]
<1>2. /\ pump' = [pump EXCEPT ![c] = p] /\ p \in {"none", "reading", "noticing", "sending"}
      /\ revoked' \subseteq Readers /\ outShut' \subseteq Readers
  BY StreamKinds
<1> HIDE DEF p
<1> QED
  BY <1>1, <1>2, StreamStep

LEMMA OpenFailsKeeps == ASSUME LIInv, NEW c \in Readers, OpenFails(c) PROVE LIInv'
<1> DEFINE t == st[c]
<1>1. /\ handler[c] # "off" /\ handler' = [handler EXCEPT ![c] = "off"]
      /\ slots' = slots - 1 /\ UNCHANGED <<revoked, pump, outShut>>
  BY DEF OpenFails
<1>2. t \in Kept /\ st' = [st EXCEPT ![c] = t] /\ Len(t.out) <= logBuffer
  BY StreamKinds DEF OpenFails
<1> HIDE DEF t
<1> QED
  BY <1>1, <1>2, OffKeeps

LEMMA ReturnKeeps == ASSUME LIInv, NEW c \in Readers, Live(c), Return(c) PROVE LIInv'
<1> DEFINE u == [Fresh(st[c].backlog) EXCEPT !.out = [i \in DOMAIN st[c].out |-> Nothing]]
           t == IF pump[c] = "none" THEN Fresh(0) ELSE u
<1>1. /\ handler[c] # "off" /\ handler' = [handler EXCEPT ![c] = "off"]
      /\ slots' = slots - 1 /\ UNCHANGED <<revoked, pump, outShut>>
  BY DEF Return, Live
<1>2. st' = [st EXCEPT ![c] = t]
  BY StreamKinds DEF Return, Unread
<1>3. u \in Kept /\ Len(u.out) <= logBuffer
  <2>1. /\ st[c].backlog \in Nat /\ Len(st[c].out) <= logBuffer
        /\ st[c].out \in Seq(Event) /\ Len(st[c].out) \in Nat
    BY StreamKinds DEF Kept
  <2>2. DOMAIN st[c].out = 1 .. Len(st[c].out)
    BY <2>1, LenProperties
  <2> DEFINE o == [i \in 1 .. Len(st[c].out) |-> Nothing]
  <2>3. o \in Seq(Event) /\ Len(o) = Len(st[c].out)
    <3>1. Nothing \in Event
      BY LAssumed DEF Nothing, Notice, Event
    <3> QED
      BY <2>1, <3>1
  <2>4. u.out = o
    BY <2>2 DEF Fresh
  <2>5. Fresh(st[c].backlog) \in Kept
    BY <2>1, FreshKept
  <2> QED
    BY <2>1, <2>2, <2>3, <2>4, <2>5 DEF Kept, Fresh
<1>4. Fresh(0) \in Kept /\ Len(Fresh(0).out) <= logBuffer
  BY FreshKept
<1> HIDE DEF u
<1>5. t \in Kept /\ Len(t.out) <= logBuffer
  BY <1>3, <1>4
<1> HIDE DEF t
<1> QED
  BY <1>1, <1>2, <1>5, OffKeeps

\* Steps of a stream that goes on.
LEMMA GoesOn ==
    ASSUME LIInv, NEW c \in Readers,
           NEW h, handler' = [handler EXCEPT ![c] = h],
           h = handler[c] \/ {h, handler[c]} \subseteq {"open", "writing"},
           NEW p \in {"none", "reading", "noticing", "sending"}, pump' = [pump EXCEPT ![c] = p],
           NEW t \in Kept, st' = [st EXCEPT ![c] = t], Len(t.out) <= logBuffer,
           UNCHANGED slots, revoked' \subseteq Readers, outShut' \subseteq Readers,
           Live(c) => Accounts(t, p)
    PROVE  LIInv'
<1>1. h \in {"off", "slotted", "open", "writing"}
  BY StreamKinds
<1>2. SlotsReturned'
  <2>1. {d \in Readers : handler'[d] # "off"} = {d \in Readers : handler[d] # "off"}
    BY DEF LIInv, LTypeOK
  <2> QED
    BY <2>1 DEF LIInv, SlotsReturned
<1>3. slots' \in 0 .. maxLogStreams
  BY StreamKinds
<1>4. h \in {"open", "writing"} => Accounts(t, p)
  BY DEF Live
<1> QED
  BY <1>1, <1>2, <1>3, <1>4, StreamStep

\* What is told of, and what is yet to be, was read.
LEMMA CountRange ==
    ASSUME NEW t \in Kept, NEW p, Accounts(t, p)
    PROVE  /\ ReadOf(t, p) \in Nat /\ ReadOf(t, p) <= t.line
           /\ ReadOf(t, p) - t.dropped \in 0 .. MaxLines
<1> DEFINE s == <<t.told>> \o t.out
           n == ReadOf(t, p) - t.dropped
<1>1. /\ t.told \in Event /\ t.out \in Seq(Event) /\ t.line \in Nat /\ t.dropped \in Nat
  BY LAssumed DEF Kept
<1>2. Len(s) \in Nat /\ Len(s) >= 1
  <2>1. <<t.told>> \in Seq(Event) /\ Len(<<t.told>>) = 1 /\ Len(t.out) \in Nat
    BY <1>1, LenProperties
  <2>2. Len(s) = Len(<<t.told>>) + Len(t.out)
    BY <1>1, <2>1, ConcatProperties
  <2> QED
    BY <2>1, <2>2
<1> HIDE DEF s
<1>3. n \in 0 .. MaxLines
  <2>1. CountIs(s, n)
    BY DEF Accounts, Tells, s
  <2> PICK sum \in [1 .. Len(s) -> 0 .. MaxLines] : sum[Len(s)] = n
    BY <2>1 DEF CountIs
  <2> QED
    BY <1>2
<1>4. ReadOf(t, p) \in Int /\ ReadOf(t, p) <= t.line
  BY <1>1 DEF ReadOf
<1> QED
  BY <1>1, <1>3, <1>4, LAssumed

LEMMA TakeLineKeeps == ASSUME LIInv, NEW c \in Readers, TakeLine(c) PROVE LIInv'
<1> DEFINE q == st[c].out
           x == st[c].told
           p == pump[c]
           t == [st[c] EXCEPT !.told = Written(x, Head(q)), !.out = Tail(q)]
<1>1. /\ handler[c] = "open" /\ q # <<>> /\ handler' = [handler EXCEPT ![c] = "writing"]
      /\ UNCHANGED <<slots, revoked, pump, outShut>>
      /\ st' = [st EXCEPT ![c].told = Written(@, Head(st[c].out)), ![c].out = Tail(@)]
  BY DEF TakeLine
<1>2. /\ st[c] \in Kept /\ q \in Seq(Event) /\ x \in Event /\ Len(q) <= logBuffer /\ Len(q) \in Nat
      /\ Accounts(st[c], p) /\ p \in {"none", "reading", "noticing", "sending"}
      /\ pump = [pump EXCEPT ![c] = p] /\ revoked \subseteq Readers /\ outShut \subseteq Readers
  BY <1>1, StreamKinds DEF Kept, Live
<1>3. st' = [st EXCEPT ![c] = t]
  BY <1>1 DEF LIInv, LTypeOK
<1>4. Head(q) \in Event /\ Tail(q) \in Seq(Event) /\ Len(Tail(q)) = Len(q) - 1
  <2> HIDE DEF q
  <2> QED
    BY <1>1, <1>2, HeadTailProperties
<1>5. Written(x, Head(q)) \in Event
  <2> HIDE DEF x, q
  <2> QED
    BY <1>2, <1>4 DEF Written, Event
<1>6. /\ t \in Kept /\ t.told = Written(x, Head(q)) /\ t.out = Tail(q)
      /\ t.line = st[c].line /\ t.dropped = st[c].dropped
  BY <1>2, <1>4, <1>5 DEF Kept
<1>7. Len(t.out) <= logBuffer
  BY <1>2, <1>4, <1>6, LAssumed
<1>8. Accounts(t, p)
  <2> DEFINE n == ReadOf(st[c], p) - st[c].dropped
             r == ReadOf(st[c], p)
  <2>1. ReadOf(t, p) = r /\ ReadOf(t, p) - t.dropped = n
    BY <1>6 DEF ReadOf
  <2>2. Tells(<<x>> \o q, n, r)
    BY <1>2 DEF Accounts
  <2>3. Tells(<<Written(x, Head(q))>> \o Tail(q), n, r)
    <3>1. r \in Nat
      BY <1>2, CountRange
    <3> HIDE DEF x, q, n, r
    <3> QED
      BY <1>1, <1>2, <2>2, <3>1, TellsWritten
  <2> HIDE DEF n, r, t, q, x
  <2> QED
    BY <1>6, <2>1, <2>3 DEF Accounts
<1> HIDE DEF t, p
<1> QED
  BY <1>1, <1>2, <1>3, <1>6, <1>7, <1>8, GoesOn

LEMMA WroteLineKeeps == ASSUME LIInv, NEW c \in Readers, WroteLine(c) PROVE LIInv'
<1> DEFINE p == pump[c]
           t == st[c]
<1>1. /\ handler[c] = "writing" /\ handler' = [handler EXCEPT ![c] = "open"]
      /\ UNCHANGED <<slots, revoked, pump, outShut, st>>
  BY DEF WroteLine
<1>2. /\ t \in Kept /\ Len(t.out) <= logBuffer /\ st' = [st EXCEPT ![c] = t]
      /\ p \in {"none", "reading", "noticing", "sending"} /\ pump' = [pump EXCEPT ![c] = p]
      /\ revoked' \subseteq Readers /\ outShut' \subseteq Readers
      /\ Live(c) => Accounts(t, p)
  BY <1>1, StreamKinds
<1> HIDE DEF p, t
<1> QED
  BY <1>1, <1>2, GoesOn

\* Of a stream that goes on, the pump and what it keeps.
LEMMA PumpStep ==
    ASSUME LIInv, NEW c \in Readers, UNCHANGED <<slots, revoked, handler>>,
           outShut' \subseteq Readers,
           NEW p \in {"none", "reading", "noticing", "sending"}, pump' = [pump EXCEPT ![c] = p],
           NEW t \in Kept, st' = [st EXCEPT ![c] = t], Len(t.out) <= logBuffer,
           Live(c) => Accounts(t, p)
    PROVE  LIInv'
<1> DEFINE h == handler[c]
<1>1. handler' = [handler EXCEPT ![c] = h] /\ h = handler[c] /\ revoked' \subseteq Readers
  BY StreamKinds
<1> HIDE DEF h
<1> QED
  BY <1>1, GoesOn

\* Accounts looks at no more than what is told, what is to come, and how much was read.
LEMMA AccountsSame ==
    ASSUME NEW t, NEW u, NEW p, NEW q, u.told = t.told, u.out = t.out, u.dropped = t.dropped,
           ReadOf(u, q) = ReadOf(t, p), Accounts(t, p)
    PROVE  Accounts(u, q)
BY DEF Accounts

LEMMA ReadLineKeeps == ASSUME LIInv, NEW c \in Readers, ReadLine(c) PROVE LIInv'
<1> DEFINE t == st[c]
           u == [t EXCEPT !.line = IF Live(c) THEN @ + 1 ELSE @]
<1>1. /\ pump[c] = "reading" /\ t.line < MaxLines
      /\ pump' = [pump EXCEPT ![c] = "noticing"]
      /\ UNCHANGED <<slots, revoked, handler, outShut>>
      /\ st' = [st EXCEPT ![c].line = IF Live(c) THEN @ + 1 ELSE @]
  BY DEF ReadLine
<1>2. /\ t \in Kept /\ Len(t.out) <= logBuffer /\ outShut' \subseteq Readers
      /\ Live(c) => Accounts(t, "reading")
  BY <1>1, StreamKinds
<1>3. st' = [st EXCEPT ![c] = u]
  BY <1>1 DEF LIInv, LTypeOK
<1> HIDE DEF t
<1>4. /\ u \in Kept /\ u.told = t.told /\ u.out = t.out /\ u.dropped = t.dropped
      /\ Live(c) => u.line = t.line + 1
  BY <1>1, <1>2, LAssumed DEF Kept
<1>5. Live(c) => Accounts(u, "noticing")
  <2> SUFFICES ASSUME Live(c) PROVE Accounts(u, "noticing")
    OBVIOUS
  <2>1. ReadOf(u, "noticing") = ReadOf(t, "reading")
    BY <1>2, <1>4, LAssumed DEF ReadOf, Kept
  <2> HIDE DEF u
  <2> QED
    BY <1>2, <1>4, <2>1, AccountsSame
<1> HIDE DEF u
<1> QED
  BY <1>1, <1>2, <1>3, <1>4, <1>5, PumpStep

LEMMA StallKeeps == ASSUME LIInv, NEW c \in Readers, Stall(c) PROVE LIInv'
<1> DEFINE t == st[c]
           u == [t EXCEPT !.backlog = 0]
<1>1. /\ pump' = [pump EXCEPT ![c] = "reading"]
      /\ UNCHANGED <<slots, revoked, handler, outShut>>
      /\ st' = [st EXCEPT ![c].backlog = 0] /\ pump[c] = "reading"
  BY StreamKinds DEF Stall
<1>2. /\ t \in Kept /\ Len(t.out) <= logBuffer /\ outShut' \subseteq Readers
      /\ Live(c) => Accounts(t, "reading")
  BY <1>1, StreamKinds
<1>3. st' = [st EXCEPT ![c] = u]
  BY <1>1 DEF LIInv, LTypeOK
<1> HIDE DEF t
<1>4. /\ u \in Kept /\ u.told = t.told /\ u.out = t.out /\ u.dropped = t.dropped
      /\ u.line = t.line
  BY <1>2 DEF Kept
<1>5. Live(c) => Accounts(u, "reading")
  <2>1. ReadOf(u, "reading") = ReadOf(t, "reading")
    BY <1>4 DEF ReadOf
  <2> HIDE DEF u
  <2> QED
    BY <1>2, <1>4, <2>1, AccountsSame
<1> HIDE DEF u
<1> QED
  BY <1>1, <1>2, <1>3, <1>4, <1>5, PumpStep

\* An event goes into the channel: the line in hand, or a notice of those dropped.
LEMMA AccountsAppend ==
    ASSUME NEW t \in Kept, NEW p, Accounts(t, p), NEW e \in Event,
           NEW u, NEW q, u.told = t.told, u.out = Append(t.out, e),
           ReadOf(u, q) \in Nat, ReadOf(t, p) <= ReadOf(u, q), ReadOf(u, q) <= MaxLines,
           e.line <= ReadOf(u, q), e.line = 0 \/ ReadOf(t, p) < e.line, u.dropped \in Nat,
           ReadOf(u, q) - u.dropped = ReadOf(t, p) - t.dropped + e.count
    PROVE  Accounts(u, q)
<1> DEFINE x == t.told
           o == t.out
           s == <<x>> \o o
           n == ReadOf(t, p) - t.dropped
           r == ReadOf(t, p)
           n2 == ReadOf(u, q) - u.dropped
           r2 == ReadOf(u, q)
<1>1. x \in Event /\ o \in Seq(Event) /\ <<x>> \in Seq(Event)
  BY DEF Kept
<1>2. r \in Nat /\ n \in 0 .. MaxLines /\ e.count \in Nat
  BY CountRange DEF Event
<1>3. Tells(s, n, r)
  BY DEF Accounts
<1>4. n2 = n + e.count /\ n2 \in 0 .. MaxLines
  BY <1>2, LAssumed
<1> HIDE DEF x, o
<1>5. s \in Seq(Event) /\ s # <<>> /\ <<x>> \o Append(o, e) = Append(s, e)
  <2>1. Len(<<x>>) = 1 /\ Len(o) \in Nat
    BY <1>1, LenProperties
  <2>2. s \in Seq(Event) /\ Len(s) = 1 + Len(o)
    BY <1>1, <2>1, ConcatProperties
  <2>3. s # <<>>
    <3> HIDE DEF s
    <3> QED
      BY <2>1, <2>2, EmptySeq
  <2>4. <<x>> \o Append(o, e) = Append(<<x>> \o o, e)
    <3> DEFINE y == <<x>>
    <3>1. y \in Seq(Event)
      BY <1>1
    <3> HIDE DEF y
    <3>2. y \o Append(o, e) = Append(y \o o, e)
      BY <1>1, <3>1, FlightGrows
    <3> QED
      BY <3>2 DEF y
  <2> QED
    BY <2>2, <2>3, <2>4
<1>6. Tells(Append(s, e), n2, r2)
  <2>1. r2 \in Nat /\ r <= r2 /\ e.line <= r2 /\ (e.line = 0 \/ r < e.line)
    OBVIOUS
  <2> HIDE DEF s, n, r, n2, r2
  <2> QED
    BY <1>2, <1>3, <1>4, <1>5, <2>1, TellsAppend
<1>7. <<u.told>> \o u.out = Append(s, e)
  BY <1>5 DEF x, o
<1> HIDE DEF s, n2, r2
<1> QED
  BY <1>6, <1>7 DEF Accounts, n2, r2

LEMMA SendNoticeKeeps == ASSUME LIInv, NEW c \in Readers, SendNotice(c) PROVE LIInv'
<1> DEFINE t == st[c]
           u == [t EXCEPT !.out = Append(@, Notice(t.dropped)), !.dropped = 0]
<1>1. /\ pump[c] = "noticing" /\ pump' = [pump EXCEPT ![c] = "sending"]
      /\ UNCHANGED <<slots, revoked, handler, outShut>>
  BY DEF SendNotice
<1>2. /\ t \in Kept /\ Len(t.out) <= logBuffer /\ outShut' \subseteq Readers
      /\ Live(c) => Accounts(t, "noticing")
      /\ st = [st EXCEPT ![c] = t] /\ t.out \in Seq(Event) /\ Len(t.out) \in Nat
  BY <1>1, StreamKinds
<1>3. \/ t.dropped > 0 /\ Room(c) /\ st' = [st EXCEPT ![c] = u]
      \/ st' = [st EXCEPT ![c] = t]
  BY <1>2 DEF SendNotice, LIInv, LTypeOK
<1>4. ReadOf(t, "sending") = ReadOf(t, "noticing")
  BY DEF ReadOf
<1>5. CASE st' = [st EXCEPT ![c] = t]
  <2>1. Live(c) => Accounts(t, "sending")
    BY <1>2, <1>4 DEF Accounts
  <2> HIDE DEF t
  <2> QED
    BY <1>1, <1>2, <1>5, <2>1, PumpStep
<1>6. CASE t.dropped > 0 /\ Room(c) /\ st' = [st EXCEPT ![c] = u]
  <2> DEFINE e == Notice(t.dropped)
  <2>1. e \in Event /\ e.line = 0 /\ e.count = t.dropped
    BY <1>2, LAssumed DEF Notice, Event, Kept
  <2>2. Append(t.out, e) \in Seq(Event) /\ Len(Append(t.out, e)) = Len(t.out) + 1
    BY <1>2, <2>1, AppendProperties
  <2>3. Len(t.out) < logBuffer
    BY <1>6 DEF Room
  <2>4. /\ u \in Kept /\ u.told = t.told /\ u.out = Append(t.out, e) /\ u.dropped = 0
        /\ u.line = t.line /\ Len(u.out) <= logBuffer
    <3> DEFINE o == Append(t.out, e)
    <3> HIDE DEF t
    <3>1. o \in Seq(Event) /\ Len(o) <= logBuffer
      BY <1>2, <2>2, <2>3, LAssumed
    <3>2. u = [t EXCEPT !.out = o, !.dropped = 0]
      OBVIOUS
    <3> HIDE DEF o, u
    <3>4. 0 \in 0 .. MaxLines
      BY LAssumed
    <3>3. u \in Kept /\ u.told = t.told /\ u.out = o /\ u.dropped = 0 /\ u.line = t.line
      BY <1>2, <3>1, <3>2, <3>4 DEF Kept
    <3> QED
      BY <3>1, <3>3 DEF o
  <2>5. Live(c) => Accounts(u, "sending")
    <3> SUFFICES ASSUME Live(c) PROVE Accounts(u, "sending")
      OBVIOUS
    <3>1. ReadOf(u, "sending") = ReadOf(t, "noticing")
      BY <2>4 DEF ReadOf
    <3>2. ReadOf(t, "noticing") \in Nat /\ ReadOf(t, "noticing") <= t.line /\ t.line <= MaxLines
          /\ t.line \in Nat /\ t.dropped \in Nat
      BY <1>2, CountRange, LAssumed DEF Kept
    <3>3. /\ ReadOf(u, "sending") \in Nat /\ ReadOf(t, "noticing") <= ReadOf(u, "sending")
          /\ ReadOf(u, "sending") <= MaxLines /\ e.line <= ReadOf(u, "sending") /\ u.dropped \in Nat
          /\ ReadOf(u, "sending") - u.dropped = ReadOf(t, "noticing") - t.dropped + e.count
      BY <2>1, <2>4, <3>1, <3>2, LAssumed
    <3> HIDE DEF u, e, t
    <3> QED
      BY <1>2, <2>1, <2>4, <3>3, AccountsAppend
  <2> HIDE DEF u, t
  <2> QED
    BY <1>1, <1>2, <1>6, <2>4, <2>5, PumpStep
<1> QED
  BY <1>3, <1>5, <1>6

LEMMA SendLineKeeps == ASSUME LIInv, NEW c \in Readers, SendLine(c) PROVE LIInv'
<1> DEFINE t == st[c]
           e == Line(t.line)
           b == IF t.backlog > 0 THEN t.backlog - 1 ELSE 0
           u == [t EXCEPT !.out = Append(@, e), !.backlog = b]
           v == [t EXCEPT !.dropped = @ + 1]
<1>1. /\ pump[c] = "sending" /\ pump' = [pump EXCEPT ![c] = "reading"]
      /\ UNCHANGED <<slots, revoked, handler, outShut>> /\ st' = Deliver(c)
  BY DEF SendLine
<1>2. /\ t \in Kept /\ Len(t.out) <= logBuffer /\ outShut' \subseteq Readers
      /\ Live(c) => Accounts(t, "sending")
      /\ st = [st EXCEPT ![c] = t] /\ t.out \in Seq(Event) /\ Len(t.out) \in Nat
  BY <1>1, StreamKinds
<1>3. \/ ~Live(c) /\ st' = [st EXCEPT ![c] = t]
      \/ Live(c) /\ Room(c) /\ st' = [st EXCEPT ![c] = u]
      \/ Live(c) /\ ~Room(c) /\ st' = [st EXCEPT ![c] = v]
  BY <1>1, <1>2 DEF Deliver, LIInv, LTypeOK
<1>4. CASE ~Live(c) /\ st' = [st EXCEPT ![c] = t]
  <2> HIDE DEF t
  <2> QED
    BY <1>1, <1>2, <1>4, PumpStep
<1>5. Live(c) => /\ ReadOf(t, "reading") = t.line /\ ReadOf(t, "sending") = t.line - 1
                 /\ t.line \in 1 .. MaxLines /\ t.dropped \in 0 .. t.line - 1
                 /\ t.line \in Nat /\ t.dropped \in Nat
  <2> SUFFICES ASSUME Live(c)
               PROVE  /\ ReadOf(t, "reading") = t.line /\ ReadOf(t, "sending") = t.line - 1
                      /\ t.line \in 1 .. MaxLines /\ t.dropped \in 0 .. t.line - 1
                      /\ t.line \in Nat /\ t.dropped \in Nat
    OBVIOUS
  <2>1. ReadOf(t, "reading") = t.line /\ ReadOf(t, "sending") = t.line - 1
    BY <1>2, LAssumed DEF ReadOf, Kept
  <2>2. /\ ReadOf(t, "sending") \in Nat /\ ReadOf(t, "sending") - t.dropped \in 0 .. MaxLines
    BY <1>2, CountRange
  <2>3. t.line \in 0 .. MaxLines /\ t.dropped \in 0 .. MaxLines
    BY <1>2 DEF Kept
  <2> HIDE DEF t
  <2> QED
    BY <2>1, <2>2, <2>3, LAssumed
<1> HIDE DEF t
<1>6. CASE Live(c) /\ ~Room(c) /\ st' = [st EXCEPT ![c] = v]
  <2>1. t.dropped + 1 \in 0 .. MaxLines
    BY <1>5, <1>6, LAssumed
  <2>2. /\ v \in Kept /\ v.told = t.told /\ v.out = t.out /\ v.dropped = t.dropped + 1
        /\ v.line = t.line
    BY <1>2, <2>1 DEF Kept
  <2> HIDE DEF v
  <2>3. Accounts(v, "reading")
    <3>1. Tells(<<t.told>> \o t.out, t.line - 1 - t.dropped, t.line - 1)
      BY <1>2, <1>5, <1>6 DEF Accounts
    <3> DEFINE s == <<t.told>> \o t.out
    <3>2. \A i \in DOMAIN s : s[i].line \in Nat
      <4>1. s \in Seq(Event)
        <5>1. <<t.told>> \in Seq(Event)
          BY <1>2 DEF Kept
        <5> QED
          BY <1>2, <5>1, ConcatProperties
      <4> HIDE DEF s
      <4>2. \A i \in DOMAIN s : s[i] \in Event
        BY <4>1, LenProperties, ElementOfSeq
      <4> QED
        BY <4>2, LAssumed DEF Event
    <3> HIDE DEF s
    <3>3. \A i \in DOMAIN s : s[i].line <= t.line
      <4>1. \A i \in DOMAIN s : s[i].line <= t.line - 1
        BY <3>1 DEF Tells, s
      <4> QED
        BY <1>5, <1>6, <3>2, <4>1
    <3>4. t.line - 1 - t.dropped = t.line - (t.dropped + 1)
      BY <1>5, <1>6
    <3>5. Tells(s, t.line - (t.dropped + 1), t.line)
      <4> DEFINE n == t.line - 1 - t.dropped
      <4>1. InOrder(s) /\ CountIs(s, n)
        BY <3>1 DEF Tells, s
      <4> QED
        BY <3>3, <3>4, <4>1 DEF Tells
    <3>6. ReadOf(v, "reading") = t.line
      BY <1>5, <1>6, <2>2 DEF ReadOf
    <3> QED
      BY <2>2, <3>5, <3>6 DEF Accounts, s
  <2> QED
    BY <1>1, <1>2, <1>6, <2>2, <2>3, PumpStep
<1>7. CASE Live(c) /\ Room(c) /\ st' = [st EXCEPT ![c] = u]
  <2>1. e \in Event /\ e.line = t.line /\ e.count = 1 /\ b \in Nat
    BY <1>2, LAssumed DEF Line, Event, Kept
  <2> DEFINE o == Append(t.out, e)
  <2>2. o \in Seq(Event) /\ Len(o) = Len(t.out) + 1
    BY <1>2, <2>1, AppendProperties
  <2>3. Len(o) <= logBuffer
    BY <1>2, <1>7, <2>2, LAssumed DEF Room, t
  <2>4. u = [t EXCEPT !.out = o, !.backlog = b]
    OBVIOUS
  <2> HIDE DEF o, u, b
  <2>5. /\ u \in Kept /\ u.told = t.told /\ u.out = o /\ u.dropped = t.dropped /\ u.line = t.line
    BY <1>2, <2>1, <2>2, <2>4 DEF Kept
  <2>6. Accounts(u, "reading")
    <3>1. ReadOf(u, "reading") = t.line
      BY <1>5, <1>7, <2>5 DEF ReadOf
    <3>2. /\ ReadOf(u, "reading") \in Nat /\ ReadOf(t, "sending") <= ReadOf(u, "reading")
          /\ ReadOf(u, "reading") <= MaxLines /\ e.line <= ReadOf(u, "reading")
          /\ ReadOf(t, "sending") < e.line /\ u.dropped \in Nat
          /\ ReadOf(u, "reading") - u.dropped = ReadOf(t, "sending") - t.dropped + e.count
      BY <1>5, <1>7, <2>1, <2>5, <3>1, LAssumed
    <3>3. u.out = Append(t.out, e)
      BY <2>5 DEF o
    <3> HIDE DEF e
    <3> QED
      BY <1>2, <1>7, <2>1, <2>5, <3>2, <3>3, AccountsAppend
  <2> QED
    BY <1>1, <1>2, <1>7, <2>3, <2>5, <2>6, PumpStep
<1> QED
  BY <1>3, <1>4, <1>6, <1>7

LEMMA PumpEndsKeeps == ASSUME LIInv, NEW c \in Readers, PumpEnds(c) PROVE LIInv'
<1> DEFINE t == IF Live(c) THEN st[c] ELSE Fresh(0)
<1>1. /\ pump[c] = "reading" /\ pump' = [pump EXCEPT ![c] = "none"]
      /\ UNCHANGED <<slots, revoked, handler>> /\ outShut' = outShut \cup {c}
  BY DEF PumpEnds
<1>2. st' = [st EXCEPT ![c] = t] /\ outShut' \subseteq Readers
  BY <1>1, StreamKinds DEF PumpEnds
<1>3. t \in Kept /\ Len(t.out) <= logBuffer
  BY StreamKinds, FreshKept
<1>4. Live(c) => Accounts(t, "none")
  <2> SUFFICES ASSUME Live(c) PROVE Accounts(st[c], "none")
    OBVIOUS
  <2>1. Accounts(st[c], "reading")
    BY <1>1, StreamKinds
  <2>2. ReadOf(st[c], "none") = ReadOf(st[c], "reading")
    BY DEF ReadOf
  <2> QED
    BY <2>1, <2>2 DEF Accounts
<1> HIDE DEF t
<1> QED
  BY <1>1, <1>2, <1>3, <1>4, PumpStep

LEMMA RevokeKeeps == ASSUME LIInv, NEW c \in Readers, Revoke(c) PROVE LIInv'
<1> DEFINE t == st[c]
           p == pump[c]
<1>1. /\ UNCHANGED <<slots, handler, pump, outShut, st>> /\ revoked' = revoked \cup {c}
  BY DEF Revoke
<1>2. LTypeOK' /\ SlotsReturned'
  BY <1>1 DEF LIInv, LTypeOK, SlotsReturned
<1>3. \A d \in Readers : Live(d)' => Accounts(st[d], pump[d])'
  <2>1. ASSUME NEW d \in Readers, Live(d)' PROVE Accounts(st'[d], pump'[d])
    BY <1>1, <2>1 DEF LIInv, Live
  <2> QED
    BY <2>1 DEF Accounts, Tells, InOrder, ReadOf
<1> QED
  BY <1>2, <1>3 DEF LIInv

LEMMA LStepKeeps == ASSUME LIInv, LNext PROVE LIInv'
<1> PICK c \in Readers :
       \/ Slot(c) \/ Handles(c) \/ WroteLine(c) \/ ClientGone(c) \/ Keepalive(c)
       \/ Revoke(c) \/ ReadLine(c) \/ Stall(c) \/ Sends(c) \/ PumpEnds(c)
  BY DEF LNext
<1>1. CASE Slot(c)
  BY <1>1, SlotKeeps
<1>2. CASE Open(c)
  BY <1>2, OpenKeeps
<1>3. CASE OpenFails(c)
  BY <1>3, OpenFailsKeeps
<1>4. CASE TakeLine(c)
  BY <1>4, TakeLineKeeps
<1>5. CASE SeeEnd(c) \/ ClientGone(c) \/ Keepalive(c)
  BY <1>5, ReturnKeeps DEF SeeEnd, ClientGone, Keepalive, Live
<1>6. CASE WroteLine(c)
  BY <1>6, WroteLineKeeps
<1>7. CASE Revoke(c)
  BY <1>7, RevokeKeeps
<1>8. CASE ReadLine(c)
  BY <1>8, ReadLineKeeps
<1>9. CASE Stall(c)
  BY <1>9, StallKeeps
<1>10. CASE Sends(c)
  BY <1>10, SendNoticeKeeps, SendLineKeeps DEF Sends
<1>11. CASE PumpEnds(c)
  BY <1>11, PumpEndsKeeps
<1> QED
  BY <1>1, <1>2, <1>3, <1>4, <1>5, <1>6, <1>7, <1>8, <1>9, <1>10, <1>11 DEF Handles

LEMMA LStutterKeeps == ASSUME LIInv, UNCHANGED lvars PROVE LIInv'
<1>1. LTypeOK' /\ SlotsReturned'
  BY DEF lvars, LIInv, LTypeOK, SlotsReturned
<1>2. \A d \in Readers : Live(d)' => Accounts(st[d], pump[d])'
  <2>1. ASSUME NEW d \in Readers, Live(d)' PROVE Accounts(st'[d], pump'[d])
    BY <2>1 DEF lvars, LIInv, Live
  <2> QED
    BY <2>1 DEF Accounts, Tells, InOrder, ReadOf
<1> QED
  BY <1>1, <1>2 DEF LIInv

\* Of the lines asked for none is dropped: only a full channel drops, and in the
\* backlog the pump waits for room.
LEMMA BacklogStep ==
    ASSUME LIInv, LNext
    PROVE  \A c \in Readers : st[c].backlog > 0 => st'[c].dropped <= st[c].dropped \/ ~Live(c)
<1> SUFFICES ASSUME NEW d \in Readers, st[d].backlog > 0, Live(d)
             PROVE  st'[d].dropped <= st[d].dropped
  OBVIOUS
<1>0. st[d].dropped \in Nat
  BY StreamKinds, LAssumed DEF Kept
<1> PICK c \in Readers :
       \/ Slot(c) \/ Handles(c) \/ WroteLine(c) \/ ClientGone(c) \/ Keepalive(c)
       \/ Revoke(c) \/ ReadLine(c) \/ Stall(c) \/ Sends(c) \/ PumpEnds(c)
  BY DEF LNext
<1>1. CASE st' = st
  BY <1>0, <1>1
<1>2. CASE \E t : st' = [st EXCEPT ![c] = t] /\ (c = d => t.dropped \in {0, st[d].dropped})
  BY <1>0, <1>2 DEF LIInv, LTypeOK
<1>3. Slot(c) \/ OpenFails(c) \/ WroteLine(c) \/ Revoke(c) => st' = st
  BY DEF Slot, OpenFails, WroteLine, Revoke
<1>4. ASSUME Open(c) PROVE \E t : st' = [st EXCEPT ![c] = t] /\ t.dropped = 0
  <2> PICK n \in Tails : st' = [st EXCEPT ![c] = Fresh(n)]
    BY <1>4 DEF Open
  <2>1. Fresh(n).dropped = 0
    BY DEF Fresh
  <2> HIDE DEF Fresh
  <2> QED
    BY <2>1
<1>5. ASSUME SeeEnd(c) \/ ClientGone(c) \/ Keepalive(c)
      PROVE  \E t : st' = [st EXCEPT ![c] = t] /\ t.dropped = 0
  <2> DEFINE u == [Fresh(st[c].backlog) EXCEPT !.out = [i \in DOMAIN st[c].out |-> Nothing]]
             t == IF pump[c] = "none" THEN Fresh(0) ELSE u
  <2>1. st' = [st EXCEPT ![c] = t]
    BY <1>5, StreamKinds DEF SeeEnd, ClientGone, Keepalive, Return, Unread
  <2>2. t.dropped = 0
    BY DEF Fresh
  <2> HIDE DEF t
  <2> QED
    BY <2>1, <2>2
<1>6. ASSUME TakeLine(c) \/ ReadLine(c) \/ Stall(c)
      PROVE  st'[d].dropped = st[d].dropped
  BY <1>6 DEF TakeLine, ReadLine, Stall, LIInv, LTypeOK
<1>7. ASSUME SendNotice(c) PROVE st'[d].dropped <= st[d].dropped
  BY <1>0, <1>7 DEF SendNotice, LIInv, LTypeOK
<1>8. ASSUME SendLine(c) PROVE st'[d].dropped = st[d].dropped
  <2>1. CASE c # d
    BY <1>8, <2>1 DEF SendLine, Deliver, LIInv, LTypeOK
  <2>2. CASE c = d
    <3>1. Room(d)
      BY <1>8, <2>2 DEF SendLine
    <3> QED
      BY <1>8, <2>2, <3>1 DEF SendLine, Deliver, LIInv, LTypeOK
  <2> QED
    BY <2>1, <2>2
<1>9. ASSUME PumpEnds(c) PROVE st'[d].dropped = st[d].dropped
  BY <1>9 DEF PumpEnds, LIInv, LTypeOK
<1> QED
  BY <1>0, <1>1, <1>2, <1>3, <1>4, <1>5, <1>6, <1>7, <1>8, <1>9 DEF Handles, Sends

-----------------------------------------------------------------------------
(* The theorems *)

SIInv == EIInv /\ LIInv

THEOREM StreamsInit == Init => SIInv
BY EInitInv, LInitInv DEF Init, SIInv

THEOREM StreamsStep == SIInv /\ [Next]_svars => SIInv'
<1> SUFFICES ASSUME SIInv, [Next]_svars PROVE SIInv'
  OBVIOUS
<1>1. EIInv'
  <2>1. CASE ENext \/ Drain
    BY <2>1, EStepKeeps DEF SIInv
  <2>2. CASE UNCHANGED evars
    BY <2>2, EStutterKeeps DEF SIInv
  <2> QED
    BY <2>1, <2>2 DEF Next, svars
<1>2. LIInv'
  <2>1. CASE LNext
    BY <2>1, LStepKeeps DEF SIInv
  <2>2. CASE UNCHANGED lvars
    BY <2>2, LStutterKeeps DEF SIInv
  <2> QED
    BY <2>1, <2>2 DEF Next, svars
<1> QED
  BY <1>1, <1>2 DEF SIInv

\* Events (api/stream.go): every connection is sent in order, and each once, what
\* was published while it was subscribed, but what overran its buffer or was
\* withheld; and what the ring still has of that, the document has.
THEOREM EventsSafe == Spec => []EventsKept
<1>1. SIInv => EventsKept
  BY DocumentFollows DEF SIInv, EIInv, EventsKept
<1> QED
  BY <1>1, StreamsInit, StreamsStep, PTL DEF Spec

\* Log lines (backend/logs.go, api/logs.go): slots come back, no line that was read
\* is neither in the channel nor counted, and of the lines asked for none is dropped.
THEOREM LinesSafe == Spec => LinesKept
<1>1. SIInv => LTypeOK /\ SlotsReturned /\ GapsCounted
  BY GapsFollow DEF SIInv, LIInv
<1>2. SIInv /\ [Next]_svars =>
         [\A c \in Readers : st[c].backlog > 0 => \/ st'[c].dropped <= st[c].dropped
                                                  \/ ~Live(c)]_lvars
  <2> SUFFICES ASSUME SIInv, [Next]_svars, ~UNCHANGED lvars
               PROVE  \A c \in Readers : st[c].backlog > 0 => \/ st'[c].dropped <= st[c].dropped
                                                              \/ ~Live(c)
    OBVIOUS
  <2>1. LNext
    BY DEF Next, svars
  <2> QED
    BY <2>1, BacklogStep DEF SIInv
<1> QED
  BY <1>1, <1>2, StreamsInit, StreamsStep, PTL DEF Spec, LinesKept, BacklogWhole
=============================================================================
