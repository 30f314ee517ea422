----------------------- MODULE DeveloperMessages_proofs -----------------------
(***************************************************************************)
(* Theorems about DeveloperMessages, for every set of texts, rendering,    *)
(* configuration, interval, and number of settings and turns.              *)
(***************************************************************************)
EXTENDS DeveloperMessages, Positions_proofs

-----------------------------------------------------------------------------
(***************************************************************************)
(* The entries a turn appends.                                             *)
(***************************************************************************)
Settings == [Kinds -> Texts \cup {NoText, Disabled}]

\* There is no entry of kind k, or exactly one and it has the message m.
NoneOf(entries, k) == \A i \in DOMAIN entries : entries[i].kind # k

OneOf(entries, k, m) ==
  \E i \in DOMAIN entries :
    /\ entries[i] = [kind |-> k, message |-> m]
    /\ \A j \in DOMAIN entries : entries[j].kind = k => j = i

\* The fragments of the kinds in K that are due, each once.
Block(entries, K) ==
  /\ entries \in Seq(Entry)
  /\ \A i \in DOMAIN entries : entries[i].kind \in K
  /\ \A k \in Kinds :
       /\ k \in K /\ Appended(k) => OneOf(entries, k, Message(k))
       /\ ~(k \in K /\ Appended(k)) => NoneOf(entries, k)

LEMMA OneOfLeft ==
  ASSUME NEW s \in Seq(Entry), NEW t \in Seq(Entry), NEW k, NEW m,
         OneOf(s, k, m), NoneOf(t, k)
  PROVE  OneOf(s \o t, k, m)
<1>1. PICK i \in DOMAIN s : /\ s[i] = [kind |-> k, message |-> m]
                            /\ \A j \in DOMAIN s : s[j].kind = k => j = i
  BY DEF OneOf
<1>2. i \in DOMAIN (s \o t) /\ (s \o t)[i] = s[i]
  BY ConcatIndices
<1>3. ASSUME NEW j \in DOMAIN (s \o t), (s \o t)[j].kind = k PROVE j = i
  <2>1. CASE j \in DOMAIN s
    BY <1>1, <1>3, <2>1, ConcatIndices
  <2>2. ASSUME NEW h \in DOMAIN t, j = Len(s) + h PROVE FALSE
    BY <1>3, <2>2, ConcatIndices DEF NoneOf
  <2>3. QED  BY <2>1, <2>2, ConcatIndices
<1>4. QED  BY <1>1, <1>2, <1>3 DEF OneOf

LEMMA OneOfRight ==
  ASSUME NEW s \in Seq(Entry), NEW t \in Seq(Entry), NEW k, NEW m,
         NoneOf(s, k), OneOf(t, k, m)
  PROVE  OneOf(s \o t, k, m)
<1>1. PICK i \in DOMAIN t : /\ t[i] = [kind |-> k, message |-> m]
                            /\ \A j \in DOMAIN t : t[j].kind = k => j = i
  BY DEF OneOf
<1>2. Len(s) + i \in DOMAIN (s \o t) /\ (s \o t)[Len(s) + i] = t[i]
  BY ConcatIndices
<1>3. ASSUME NEW j \in DOMAIN (s \o t), (s \o t)[j].kind = k PROVE j = Len(s) + i
  <2>1. CASE j \in DOMAIN s
    BY <1>3, <2>1, ConcatIndices DEF NoneOf
  <2>2. ASSUME NEW h \in DOMAIN t, j = Len(s) + h PROVE j = Len(s) + i
    BY <1>1, <1>3, <2>2, ConcatIndices
  <2>3. QED  BY <2>1, <2>2, ConcatIndices
<1>4. QED  BY <1>1, <1>2, <1>3 DEF OneOf

LEMMA NoneOfConcat ==
  ASSUME NEW s \in Seq(Entry), NEW t \in Seq(Entry), NEW k, NoneOf(s, k), NoneOf(t, k)
  PROVE  NoneOf(s \o t, k)
BY ConcatIndices DEF NoneOf

LEMMA BlockConcat ==
  ASSUME NEW K, NEW L, K \cap L = {}, NEW s, NEW t, Block(s, K), Block(t, L)
  PROVE  Block(s \o t, K \cup L)
<1>1. s \in Seq(Entry) /\ t \in Seq(Entry)
  BY DEF Block
<1>2. s \o t \in Seq(Entry)
  BY <1>1, ConcatIndices
<1>3. ASSUME NEW i \in DOMAIN (s \o t) PROVE (s \o t)[i].kind \in K \cup L
  BY <1>1, ConcatIndices DEF Block
<1>4. ASSUME NEW k \in Kinds
      PROVE  /\ k \in K \cup L /\ Appended(k) => OneOf(s \o t, k, Message(k))
             /\ ~(k \in K \cup L /\ Appended(k)) => NoneOf(s \o t, k)
  <2>1. ASSUME k \in K, Appended(k) PROVE OneOf(s \o t, k, Message(k))
    <3>1. OneOf(s, k, Message(k)) /\ NoneOf(t, k)
      BY <2>1 DEF Block
    <3>2. QED  BY <1>1, <3>1, OneOfLeft
  <2>2. ASSUME k \in L, Appended(k) PROVE OneOf(s \o t, k, Message(k))
    <3>1. NoneOf(s, k) /\ OneOf(t, k, Message(k))
      BY <2>2 DEF Block
    <3>2. QED  BY <1>1, <3>1, OneOfRight
  <2>3. ASSUME ~(k \in K \cup L /\ Appended(k)) PROVE NoneOf(s \o t, k)
    <3>1. NoneOf(s, k) /\ NoneOf(t, k)
      BY <2>3 DEF Block
    <3>2. QED  BY <1>1, <3>1, NoneOfConcat
  <2>4. QED  BY <2>1, <2>2, <2>3
<1>5. QED  BY <1>2, <1>3, <1>4 DEF Block

\* A setting with a text has a message, which is not the empty text.
LEMMA MessageType ==
  ASSUME config \in Settings, NEW k \in Kinds, Present(k)
  PROVE  Message(k) \in Messages /\ Message(k) # NoText /\ Shown(k)
<1>1. config[k] \in Texts
  BY DEF Present
<1>2. Message(k) \in Messages
  BY <1>1, DeveloperAssumption DEF Message, DeveloperAssumption
<1>3. QED  BY <1>1, <1>2, DeveloperAssumption DEF DeveloperAssumption, Shown

LEMMA OneFragment ==
  ASSUME config \in Settings, NEW k \in Kinds
  PROVE  Block(FragmentsOf(k), {k}) /\ Len(FragmentsOf(k)) \in 0 .. 1
<1>1. CASE Appended(k)
  <2> DEFINE e == [kind |-> k, message |-> Message(k)]
  <2>1. Message(k) \in Messages
    BY <1>1, MessageType DEF Appended, Changed
  <2>2. e \in Entry /\ e.kind = k
    BY <2>1, Zenon DEF Entry
  <2>3. FragmentsOf(k) = <<e>>
    BY <1>1 DEF FragmentsOf
  <2> HIDE DEF e
  <2>4. <<e>> \in Seq(Entry) /\ Len(<<e>>) = 1 /\ DOMAIN <<e>> = {1} /\ <<e>>[1] = e
    BY <2>2
  <2>5. OneOf(<<e>>, k, Message(k))
    BY <2>4 DEF OneOf, e
  <2>6. \A i \in DOMAIN <<e>> : <<e>>[i].kind = k
    BY <2>2, <2>4
  <2>7. QED  BY <1>1, <2>3, <2>4, <2>5, <2>6 DEF Block, NoneOf
<1>2. CASE ~Appended(k)
  <2>1. FragmentsOf(k) = <<>>
    BY <1>2 DEF FragmentsOf
  <2>2. QED  BY <1>2, <2>1, EmptySeq DEF Block, NoneOf
<1>3. QED  BY <1>1, <1>2

\* The fragments of a turn: what is due of each kind, once.
LEMMA FragmentsBlock ==
  ASSUME config \in Settings
  PROVE  Block(Fragments, Kinds) /\ Len(Fragments) \in 0 .. 4
<1> DEFINE a == FragmentsOf("switch")
           b == FragmentsOf("permission")
           c == FragmentsOf("collaboration")
           d == FragmentsOf("style")
<1>1. /\ "switch" \in Kinds /\ "permission" \in Kinds
      /\ "collaboration" \in Kinds /\ "style" \in Kinds
  BY DEF Kinds
<1>2. /\ Block(a, {"switch"}) /\ Block(b, {"permission"})
      /\ Block(c, {"collaboration"}) /\ Block(d, {"style"})
      /\ Len(a) \in 0 .. 1 /\ Len(b) \in 0 .. 1 /\ Len(c) \in 0 .. 1 /\ Len(d) \in 0 .. 1
  BY <1>1, OneFragment
<1>3. Fragments = ((a \o b) \o c) \o d
  BY DEF Fragments
<1> HIDE DEF a, b, c, d
<1>4. Block(a \o b, {"switch"} \cup {"permission"})
  BY <1>2, BlockConcat
<1>5. Block((a \o b) \o c, ({"switch"} \cup {"permission"}) \cup {"collaboration"})
  <2>1. ({"switch"} \cup {"permission"}) \cap {"collaboration"} = {}
    OBVIOUS
  <2>2. QED  BY <1>2, <1>4, <2>1, BlockConcat
<1>6. Block(((a \o b) \o c) \o d,
            (({"switch"} \cup {"permission"}) \cup {"collaboration"}) \cup {"style"})
  <2>1. (({"switch"} \cup {"permission"}) \cup {"collaboration"}) \cap {"style"} = {}
    OBVIOUS
  <2>2. QED  BY <1>2, <1>5, <2>1, BlockConcat
<1>7. (({"switch"} \cup {"permission"}) \cup {"collaboration"}) \cup {"style"} = Kinds
  BY DEF Kinds
<1>8. Len(((a \o b) \o c) \o d) = Len(a) + Len(b) + Len(c) + Len(d)
  <2>1. a \in Seq(Entry) /\ b \in Seq(Entry) /\ c \in Seq(Entry) /\ d \in Seq(Entry)
        /\ a \o b \in Seq(Entry) /\ (a \o b) \o c \in Seq(Entry)
    BY <1>2, <1>4, <1>5 DEF Block
  <2>2. Len(a \o b) = Len(a) + Len(b)
    BY <2>1, ConcatProperties
  <2>3. Len((a \o b) \o c) = Len(a \o b) + Len(c)
    BY <2>1, ConcatProperties
  <2>4. Len(((a \o b) \o c) \o d) = Len((a \o b) \o c) + Len(d)
    BY <2>1, ConcatProperties
  <2>5. QED  BY <2>2, <2>3, <2>4
<1>9. Len(a) + Len(b) + Len(c) + Len(d) \in 0 .. 4
  <2>1. \A w, x, y, z \in 0 .. 1 : w + x + y + z \in 0 .. 4
    OBVIOUS
  <2>2. QED  BY <1>2, <2>1, Zenon
<1>10. QED  BY <1>3, <1>6, <1>7, <1>8, <1>9

\* The fragments of a turn are the last of their kinds.
LEMMA TellsNew ==
  ASSUME NEW s \in Seq(Entry), NEW t \in Seq(Entry), NEW k, NEW m, OneOf(t, k, m)
  PROVE  TellsLast(s \o t, k, m)
<1>1. PICK i \in DOMAIN t : /\ t[i] = [kind |-> k, message |-> m]
                            /\ \A j \in DOMAIN t : t[j].kind = k => j = i
  BY DEF OneOf
<1>2. Len(s) + i \in DOMAIN (s \o t) /\ (s \o t)[Len(s) + i] = t[i]
  BY ConcatIndices
<1>3. ASSUME NEW j \in DOMAIN (s \o t), j > Len(s) + i PROVE (s \o t)[j].kind # k
  <2>1. CASE j \in DOMAIN s
    BY <1>3, <2>1, ConcatIndices
  <2>2. ASSUME NEW h \in DOMAIN t, j = Len(s) + h PROVE (s \o t)[j].kind # k
    <3>1. h # i
      BY <1>3, <2>2, ConcatIndices
    <3>2. t[h].kind # k
      BY <1>1, <3>1
    <3>3. QED  BY <2>2, <3>2, ConcatIndices
  <2>3. QED  BY <2>1, <2>2, ConcatIndices
<1>4. QED  BY <1>1, <1>2, <1>3 DEF TellsLast

\* What was told last stays so while nothing of its kind is appended.
LEMMA TellsOld ==
  ASSUME NEW s \in Seq(Entry), NEW t \in Seq(Entry), NEW k, NEW m,
         TellsLast(s, k, m), NoneOf(t, k)
  PROVE  TellsLast(s \o t, k, m)
<1>1. PICK i \in DOMAIN s : /\ s[i] = [kind |-> k, message |-> m]
                            /\ \A j \in DOMAIN s : j > i => s[j].kind # k
  BY DEF TellsLast
<1>2. i \in DOMAIN (s \o t) /\ (s \o t)[i] = s[i]
  BY ConcatIndices
<1>3. ASSUME NEW j \in DOMAIN (s \o t), j > i PROVE (s \o t)[j].kind # k
  <2>1. CASE j \in DOMAIN s
    BY <1>1, <1>3, <2>1, ConcatIndices
  <2>2. ASSUME NEW h \in DOMAIN t, j = Len(s) + h PROVE (s \o t)[j].kind # k
    BY <2>2, ConcatIndices DEF NoneOf
  <2>3. QED  BY <2>1, <2>2, ConcatIndices
<1>4. QED  BY <1>1, <1>2, <1>3 DEF TellsLast

\* Entries of kind k that follow each other differ.
NeighboursDiffer(entries, k) ==
  \A i, j \in {x \in DOMAIN entries : entries[x].kind = k} :
    i < j /\ (\A h \in {x \in DOMAIN entries : entries[x].kind = k} : h <= i \/ h >= j) =>
      entries[i].message # entries[j].message

LEMMA NeighboursKept ==
  ASSUME NEW s \in Seq(Entry), NEW t \in Seq(Entry), NEW k,
         NeighboursDiffer(s, k), NoneOf(t, k)
  PROVE  NeighboursDiffer(s \o t, k)
<1> DEFINE S == {x \in DOMAIN s : s[x].kind = k}
           T == {x \in DOMAIN (s \o t) : (s \o t)[x].kind = k}
<1>1. S = T
  <2>1. \A x \in S : x \in T
    BY ConcatIndices
  <2>2. ASSUME NEW x \in T PROVE x \in S
    <3>1. ASSUME NEW h \in DOMAIN t, x = Len(s) + h PROVE FALSE
      BY <3>1, ConcatIndices DEF NoneOf
    <3>2. x \in DOMAIN s
      BY <3>1, ConcatIndices
    <3>3. QED  BY <3>2, ConcatIndices
  <2>3. QED  BY <2>1, <2>2
<1>2. \A x \in S : (s \o t)[x] = s[x]
  BY ConcatIndices
<1>3. QED  BY <1>1, <1>2, Zenon DEF NeighboursDiffer

LEMMA NeighboursFirst ==
  ASSUME NEW s \in Seq(Entry), NEW t \in Seq(Entry), NEW k, NEW m,
         NoneOf(s, k), OneOf(t, k, m)
  PROVE  NeighboursDiffer(s \o t, k)
<1>1. OneOf(s \o t, k, m)
  BY OneOfRight
<1>2. PICK p \in DOMAIN (s \o t) : \A j \in DOMAIN (s \o t) : (s \o t)[j].kind = k => j = p
  BY <1>1 DEF OneOf
<1>3. s \o t \in Seq(Entry) /\ p \in Nat
  BY ConcatIndices, LenProperties
<1>4. QED  BY <1>2, <1>3 DEF NeighboursDiffer

LEMMA NeighboursNew ==
  ASSUME NEW s \in Seq(Entry), NEW t \in Seq(Entry), NEW k, NEW m, NEW l,
         NeighboursDiffer(s, k), TellsLast(s, k, l), OneOf(t, k, m), l # m
  PROVE  NeighboursDiffer(s \o t, k)
<1> DEFINE u == s \o t
           S == {x \in DOMAIN s : s[x].kind = k}
           T == {x \in DOMAIN u : u[x].kind = k}
<1>1. PICK p \in DOMAIN s : /\ s[p] = [kind |-> k, message |-> l]
                            /\ \A j \in DOMAIN s : j > p => s[j].kind # k
  BY DEF TellsLast
<1>2. PICK q \in DOMAIN t : /\ t[q] = [kind |-> k, message |-> m]
                            /\ \A j \in DOMAIN t : t[j].kind = k => j = q
  BY DEF OneOf
<1> DEFINE n == Len(s) + q
<1>3. /\ u \in Seq(Entry) /\ Len(s) \in Nat /\ DOMAIN s = 1 .. Len(s)
      /\ q \in Nat \ {0} /\ n \in DOMAIN u /\ u[n] = t[q]
      /\ \A x \in DOMAIN s : x \in DOMAIN u /\ u[x] = s[x]
  BY ConcatIndices, LenProperties
<1>4. n \notin DOMAIN s
  BY <1>3
<1>5. T = S \cup {n}
  <2>1. \A x \in S : x \in T
    BY <1>3
  <2>2. n \in T
    BY <1>2, <1>3
  <2>3. ASSUME NEW x \in T PROVE x \in S \/ x = n
    <3>1. CASE x \in DOMAIN s
      BY <3>1, <1>3
    <3>2. ASSUME NEW h \in DOMAIN t, x = Len(s) + h PROVE x = n
      BY <3>2, <1>2, ConcatIndices
    <3>3. QED  BY <3>1, <3>2, ConcatIndices
  <2>4. QED  BY <2>1, <2>2, <2>3
<1>6. ASSUME NEW i \in T, NEW j \in T, i < j, \A h \in T : h <= i \/ h >= j
      PROVE  u[i].message # u[j].message
  <2>1. CASE j = n
    <3>1. p \in S /\ p \in T
      BY <1>1, <1>5
    <3>2. i \in S
      <4>1. i # n
        BY <1>3, <1>6, <2>1
      <4>2. QED  BY <1>5, <4>1
    <3>3. i <= p
      BY <1>1, <1>3, <3>2
    <3>4. p < n
      BY <1>3
    <3>5. i = p
      <4>1. p <= i \/ p >= j
        BY <1>6, <3>1
      <4>2. p <= i
        BY <1>3, <2>1, <3>4, <4>1
      <4>3. QED  BY <1>3, <3>2, <3>3, <4>2
    <3>6. u[i].message = l /\ u[j].message = m
      BY <1>1, <1>2, <1>3, <2>1, <3>5
    <3>7. QED  BY <3>6
  <2>2. CASE j # n
    <3>1. j \in S
      BY <1>5, <2>2
    <3>2. i \in S
      <4>1. i # n
        BY <1>3, <1>6, <3>1
      <4>2. QED  BY <1>5, <4>1
    <3>3. \A h \in S : h <= i \/ h >= j
      BY <1>5, <1>6
    <3>4. s[i].message # s[j].message
      BY <1>6, <3>1, <3>2, <3>3 DEF NeighboursDiffer
    <3>5. QED  BY <1>3, <3>1, <3>2, <3>4
  <2>3. QED  BY <2>1, <2>2
<1>7. QED  BY <1>6, Zenon DEF NeighboursDiffer

-----------------------------------------------------------------------------
(***************************************************************************)
(* What a step does.                                                       *)
(***************************************************************************)
TypeInv ==
  /\ config \in Settings
  /\ log \in Seq(Entry)
  /\ last \in [Kinds -> Messages \cup {NoText}]
  /\ reminded \in 0 .. MaxTime \cup {Never}
  /\ now \in 0 .. MaxTime
  /\ prompt \in Seq(Entry)
  /\ shown \subseteq Kinds
  /\ sets \in 0 .. MaxSets
  /\ turns \in 0 .. MaxTurns
  /\ Len(log) <= 5 * turns
  /\ carried \in Messages \cup {NoText}

\* A setter touches the settings only.
Sets ==
  /\ config' \in Settings /\ sets' \in 0 .. MaxSets
  /\ UNCHANGED <<log, last, reminded, now, prompt, shown, turns, carried>>

\* Every setting whose fragment is due has one among these entries.
Tells(new) ==
  \A k \in Kinds : /\ Appended(k) => OneOf(new, k, Message(k))
                   /\ ~Appended(k) => NoneOf(new, k)

\* A turn appends new and moves the baselines.
Adds(new) ==
  /\ new \in Seq(Entry) /\ Len(new) <= 5 /\ Tells(new)
  /\ log' = log \o new /\ last' = Baselines /\ carried' = Carried
  /\ turns < MaxTurns /\ turns' = turns + 1
  /\ UNCHANGED <<config, sets>>

Fails(new) ==
  NoneOf(new, "reminder") /\ UNCHANGED <<reminded, now, prompt, shown>>

Starts(new, t) ==
  /\ t \in 0 .. MaxTime /\ now' = t
  /\ prompt' = VisibleIn(log')
  /\ shown' = {k \in Kinds : Shown(k)}
  /\ RemindsAfter(t) => OneOf(new, "reminder", t) /\ reminded' = t
  /\ ~RemindsAfter(t) => NoneOf(new, "reminder") /\ reminded' = reminded

LEMMA FragmentsTell ==
  ASSUME config \in Settings
  PROVE  /\ Fragments \in Seq(Entry) /\ Len(Fragments) \in 0 .. 4
         /\ Tells(Fragments) /\ NoneOf(Fragments, "reminder")
<1>1. Block(Fragments, Kinds) /\ Len(Fragments) \in 0 .. 4
  BY FragmentsBlock
<1>2. "reminder" \notin Kinds
  BY DEF Kinds
<1>3. QED  BY <1>1, <1>2 DEF Block, Tells, NoneOf

LEMMA ReminderTells ==
  ASSUME config \in Settings, NEW t \in 0 .. MaxTime
  PROVE  LET new == Fragments \o <<[kind |-> "reminder", message |-> t]>>
         IN  new \in Seq(Entry) /\ Len(new) <= 5 /\ Tells(new) /\ OneOf(new, "reminder", t)
<1> DEFINE e == [kind |-> "reminder", message |-> t]
           new == Fragments \o <<e>>
<1>1. e \in Entry /\ e.kind = "reminder"
  BY Zenon DEF Entry
<1>2. e = [kind |-> "reminder", message |-> t]
  OBVIOUS
<1> HIDE DEF e
<1>3. <<e>> \in Seq(Entry) /\ Len(<<e>>) = 1 /\ DOMAIN <<e>> = {1} /\ <<e>>[1] = e
  BY <1>1
<1>4. /\ Fragments \in Seq(Entry) /\ Len(Fragments) \in 0 .. 4
      /\ Tells(Fragments) /\ NoneOf(Fragments, "reminder")
  BY FragmentsTell
<1>5. OneOf(<<e>>, "reminder", t)
  BY <1>2, <1>3 DEF OneOf
<1>6. OneOf(new, "reminder", t)
  BY <1>3, <1>4, <1>5, OneOfRight
<1>7. ASSUME NEW k \in Kinds PROVE NoneOf(<<e>>, k)
  <2>1. k # "reminder"
    BY DEF Kinds
  <2>2. QED  BY <2>1, <1>1, <1>3 DEF NoneOf
<1>8. ASSUME NEW k \in Kinds
      PROVE  (Appended(k) => OneOf(new, k, Message(k))) /\ (~Appended(k) => NoneOf(new, k))
  <2>1. ASSUME Appended(k) PROVE OneOf(new, k, Message(k))
    <3>1. OneOf(Fragments, k, Message(k))
      BY <1>4, <2>1, Zenon DEF Tells
    <3>2. QED  BY <1>3, <1>4, <1>7, <3>1, OneOfLeft
  <2>2. ASSUME ~Appended(k) PROVE NoneOf(new, k)
    <3>1. NoneOf(Fragments, k)
      BY <1>4, <2>2, Zenon DEF Tells
    <3>2. QED  BY <1>3, <1>4, <1>7, <3>1, NoneOfConcat
  <2>3. QED  BY <2>1, <2>2
<1>9. new \in Seq(Entry) /\ Len(new) <= 5
  <2>1. new \in Seq(Entry) /\ Len(new) = Len(Fragments) + Len(<<e>>)
    BY <1>3, <1>4, ConcatProperties
  <2>2. \A n \in 0 .. 4 : n + 1 <= 5
    OBVIOUS
  <2>3. QED  BY <2>1, <2>2, <1>3, <1>4, Zenon
<1>10. Tells(new)
  BY <1>8 DEF Tells
<1>11. QED  BY <1>2, <1>6, <1>9, <1>10

LEMMA Steps ==
  ASSUME TypeInv, [Next]_vars
  PROVE  \/ Sets
         \/ \E new : Adds(new) /\ Fails(new)
         \/ \E new, t : Adds(new) /\ Starts(new, t)
<1>0. config \in Settings
  BY DEF TypeInv
<1>1. CASE UNCHANGED vars
  BY <1>1 DEF vars, Sets, TypeInv
<1>2. ASSUME NEW k \in Kinds, NEW text \in Texts \cup {NoText}, Set(k, text)
      PROVE  Sets
  <2>1. config' \in Settings
    BY <1>2, <1>0 DEF Set, Settings
  <2>2. sets' \in 0 .. MaxSets
    BY <1>2, DeveloperAssumption DEF Set, TypeInv, DeveloperAssumption
  <2>3. QED  BY <1>2, <2>1, <2>2 DEF Set, Sets
<1>3. ASSUME NEW t \in 0 .. MaxTime, StartTurn(t)
      PROVE  \E new : Adds(new) /\ Starts(new, t)
  <2>1. CASE RemindsAfter(t)
    <3> DEFINE e == <<[kind |-> "reminder", message |-> t]>>
               new == Fragments \o e
    <3>1. e # <<>>
      OBVIOUS
    <3>2. /\ new \in Seq(Entry) /\ Len(new) <= 5 /\ Tells(new)
          /\ OneOf(new, "reminder", t)
      BY <1>0, ReminderTells
    <3>3. log' = log \o new /\ prompt' = VisibleIn(log') /\ reminded' = t
      BY <1>3, <2>1, <3>1 DEF StartTurn, AtTheEnd
    <3>4. /\ last' = Baselines /\ carried' = Carried
          /\ turns < MaxTurns /\ turns' = turns + 1 /\ config' = config /\ sets' = sets
          /\ now' = t /\ shown' = {k \in Kinds : Shown(k)}
      BY <1>3 DEF StartTurn
    <3> HIDE DEF new
    <3>5. Adds(new) /\ Starts(new, t)
      BY <2>1, <3>2, <3>3, <3>4 DEF Adds, Starts
    <3>6. QED  BY <3>5
  <2>2. CASE ~RemindsAfter(t)
    <3>1. /\ Fragments \in Seq(Entry) /\ Len(Fragments) \in 0 .. 4
          /\ Tells(Fragments) /\ NoneOf(Fragments, "reminder")
      BY <1>0, FragmentsTell
    <3>2. Fragments \o <<>> = Fragments
      BY <3>1, ConcatEmptySeq
    <3>3. log' = log \o Fragments /\ prompt' = VisibleIn(log') /\ reminded' = reminded
      BY <1>3, <2>2, <3>2 DEF StartTurn, AtTheEnd
    <3>4. /\ last' = Baselines /\ carried' = Carried
          /\ turns < MaxTurns /\ turns' = turns + 1 /\ config' = config /\ sets' = sets
          /\ now' = t /\ shown' = {k \in Kinds : Shown(k)}
      BY <1>3 DEF StartTurn
    <3>5. Len(Fragments) <= 5
      <4>1. \A n \in 0 .. 4 : n <= 5
        OBVIOUS
      <4>2. QED  BY <3>1, <4>1, Zenon
    <3>6. Adds(Fragments) /\ Starts(Fragments, t)
      BY <2>2, <3>1, <3>3, <3>4, <3>5 DEF Adds, Starts
    <3>7. QED  BY <3>6
  <2>3. QED  BY <2>1, <2>2
<1>4. ASSUME ClockFails PROVE \E new : Adds(new) /\ Fails(new)
  <2>1. /\ Fragments \in Seq(Entry) /\ Len(Fragments) \in 0 .. 4
        /\ Tells(Fragments) /\ NoneOf(Fragments, "reminder")
    BY <1>0, FragmentsTell
  <2>2. Len(Fragments) <= 5
    <3>1. \A n \in 0 .. 4 : n <= 5
      OBVIOUS
    <3>2. QED  BY <2>1, <3>1, Zenon
  <2>3. Adds(Fragments) /\ Fails(Fragments)
    BY <1>4, <2>1, <2>2 DEF ClockFails, AtTheEnd, Adds, Fails
  <2>4. QED  BY <2>3
<1>5. QED  BY <1>1, <1>2, <1>3, <1>4 DEF Next

\* The prompt shows entries of the log.
LEMMA VisibleShape ==
  ASSUME NEW s \in Seq(Entry)
  PROVE  VisibleIn(s) \in Seq(Entry)
<1> DEFINE P == {i \in DOMAIN s : s[i].kind \notin Kinds \/ Shown(s[i].kind)}
<1>1. P \in SUBSET (DOMAIN s)
  OBVIOUS
<1>2. Pick(s, P) \in Seq(Entry)
  BY <1>1, PickShape
<1>3. QED  BY <1>2 DEF VisibleIn

LEMMA BaselineType ==
  ASSUME TypeInv
  PROVE  Baselines \in [Kinds -> Messages \cup {NoText}] /\ Carried \in Messages \cup {NoText}
<1>1. config \in Settings /\ last \in [Kinds -> Messages \cup {NoText}]
      /\ carried \in Messages \cup {NoText}
  BY DEF TypeInv
<1>2. \A k \in Kinds : (IF Present(k) THEN Message(k) ELSE last[k]) \in Messages \cup {NoText}
  BY <1>1, MessageType
<1>3. "style" \in Kinds
  BY DEF Kinds
<1>4. QED  BY <1>1, <1>2, <1>3, MessageType DEF Baselines, Carried

LEMMA AddsTypes ==
  ASSUME TypeInv, NEW new, Adds(new)
  PROVE  /\ config' \in Settings /\ log' \in Seq(Entry)
         /\ last' \in [Kinds -> Messages \cup {NoText}]
         /\ sets' \in 0 .. MaxSets /\ turns' \in 0 .. MaxTurns
         /\ Len(log') <= 5 * turns' /\ carried' \in Messages \cup {NoText}
<1>1. log \in Seq(Entry) /\ new \in Seq(Entry) /\ log' = log \o new
  BY DEF TypeInv, Adds
<1>2. log' \in Seq(Entry) /\ Len(log') = Len(log) + Len(new)
      /\ Len(log) \in Nat /\ Len(new) \in Nat
  BY <1>1, ConcatProperties, LenProperties
<1>3. turns \in 0 .. MaxTurns /\ turns < MaxTurns /\ turns' = turns + 1
      /\ Len(log) <= 5 * turns /\ Len(new) <= 5 /\ MaxTurns \in Nat
  BY DeveloperAssumption DEF TypeInv, Adds, DeveloperAssumption
<1>4. turns' \in 0 .. MaxTurns
  BY <1>3
<1>5. Len(log') <= 5 * turns'
  <2> DEFINE a == Len(log)
             b == Len(new)
  <2>1. a \in Nat /\ b \in Nat /\ turns \in Nat /\ a <= 5 * turns /\ b <= 5
    BY <1>2, <1>3
  <2> HIDE DEF a, b
  <2>2. a + b <= 5 * (turns + 1)
    BY <2>1
  <2>3. QED  BY <1>2, <1>3, <2>2 DEF a, b
<1>6. QED  BY <1>2, <1>4, <1>5, BaselineType DEF TypeInv, Adds

LEMMA TypeStep == TypeInv /\ [Next]_vars => TypeInv'
<1> SUFFICES ASSUME TypeInv, [Next]_vars PROVE TypeInv'
  OBVIOUS
<1>1. CASE Sets
  BY <1>1 DEF Sets, TypeInv
<1>2. ASSUME NEW new, Adds(new), Fails(new) PROVE TypeInv'
  BY <1>2, AddsTypes DEF Fails, TypeInv
<1>3. ASSUME NEW new, NEW t, Adds(new), Starts(new, t) PROVE TypeInv'
  <2>1. log' \in Seq(Entry) /\ config' = config
    BY <1>3, AddsTypes DEF Adds
  <2>2. prompt' \in Seq(Entry)
    BY <1>3, <2>1, VisibleShape DEF Starts
  <2>3. shown' \subseteq Kinds /\ now' \in 0 .. MaxTime
        /\ reminded' \in 0 .. MaxTime \cup {Never}
    BY <1>3 DEF Starts, TypeInv
  <2>4. QED  BY <1>3, <2>2, <2>3, AddsTypes DEF TypeInv
<1>4. QED  BY <1>1, <1>2, <1>3, Steps

LEMMA TypeInvariant == Spec => []TypeInv
<1>1. Init => TypeInv
  <2> SUFFICES ASSUME Init PROVE TypeInv
    OBVIOUS
  <2>1. config \in Settings
    BY DeveloperAssumption DEF Init, DeveloperAssumption, Settings
  <2>2. log \in Seq(Entry) /\ prompt \in Seq(Entry) /\ Len(log) = 0
    BY EmptySeq DEF Init
  <2>3. /\ now \in 0 .. MaxTime /\ sets \in 0 .. MaxSets /\ turns \in 0 .. MaxTurns
        /\ Len(log) <= 5 * turns
    BY <2>2, DeveloperAssumption DEF Init, DeveloperAssumption
  <2>4. QED  BY <2>1, <2>2, <2>3 DEF Init, TypeInv
<1>2. QED  BY <1>1, TypeStep, PTL DEF Spec

-----------------------------------------------------------------------------
(***************************************************************************)
(* Reminders.                                                              *)
(***************************************************************************)
Reminders == {i \in DOMAIN log : log[i].kind = "reminder"}

\* The last reminder is the one the session remembers; none is closer to an
\* earlier one than the interval, and the clock has not passed it by more.
RemindInv ==
  /\ reminded = Never => NoneOf(log, "reminder") /\ prompt = <<>>
  /\ reminded # Never =>
       /\ TellsLast(log, "reminder", reminded)
       /\ now - reminded < Interval \/ Interval = 0
  /\ \A i, j \in Reminders :
       i < j => log[j].message - log[i].message >= Interval \/ Interval = 0

\* A step that adds no reminder leaves the reminders as they are.
LEMMA RemindersKept ==
  ASSUME TypeInv, RemindInv, NEW new, Adds(new), NoneOf(new, "reminder"), reminded' = reminded
  PROVE  /\ reminded = Never => NoneOf(log', "reminder")
         /\ reminded # Never => TellsLast(log', "reminder", reminded)
         /\ (\A i, j \in Reminders :
               i < j => log[j].message - log[i].message >= Interval \/ Interval = 0)'
<1>1. log \in Seq(Entry) /\ new \in Seq(Entry) /\ log' = log \o new
  BY DEF TypeInv, Adds
<1>2. reminded = Never => NoneOf(log', "reminder")
  BY <1>1, NoneOfConcat DEF RemindInv
<1>3. reminded # Never => TellsLast(log', "reminder", reminded)
  BY <1>1, TellsOld DEF RemindInv
<1>4. ASSUME NEW i \in Reminders' PROVE i \in Reminders /\ log'[i] = log[i]
  <2>1. i \in DOMAIN (log \o new) /\ (log \o new)[i].kind = "reminder"
    BY <1>1, <1>4 DEF Reminders
  <2>2. ASSUME NEW h \in DOMAIN new, i = Len(log) + h PROVE FALSE
    BY <1>1, <2>1, <2>2, ConcatIndices DEF NoneOf
  <2>3. i \in DOMAIN log
    BY <1>1, <2>1, <2>2, ConcatIndices
  <2>4. QED  BY <1>1, <2>1, <2>3, ConcatIndices DEF Reminders
<1>5. QED  BY <1>2, <1>3, <1>4 DEF RemindInv

\* A reminder that is due keeps its distance from every earlier one.
LEMMA ReminderSpaced ==
  ASSUME TypeInv, RemindInv, NEW t \in 0 .. MaxTime, RemindsAfter(t), NEW i \in Reminders
  PROVE  t - log[i].message >= Interval \/ Interval = 0
<1>1. Interval \in Nat /\ MaxTime \in Nat
  BY DeveloperAssumption DEF DeveloperAssumption
<1>2. reminded # Never
  BY DEF RemindInv, NoneOf, Reminders
<1>3. PICK p \in DOMAIN log : /\ log[p] = [kind |-> "reminder", message |-> reminded]
                              /\ \A j \in DOMAIN log : j > p => log[j].kind # "reminder"
  BY <1>2 DEF RemindInv, TellsLast
<1>4. p \in Reminders /\ log[p].message = reminded
  BY <1>3 DEF Reminders
<1>5. p \in Nat /\ i \in Nat /\ i <= p
  <2>1. log \in Seq(Entry) /\ DOMAIN log = 1 .. Len(log) /\ Len(log) \in Nat
    BY LenProperties DEF TypeInv
  <2>2. i \in DOMAIN log /\ log[i].kind = "reminder"
    BY DEF Reminders
  <2>3. p \in Nat /\ i \in Nat
    BY <2>1, <2>2
  <2>4. ~(i > p)
    BY <1>3, <2>2
  <2>5. QED  BY <2>3, <2>4
<1>6. reminded \in Int /\ (t - reminded >= Interval \/ Interval = 0)
  BY <1>1, <1>2 DEF RemindsAfter, TypeInv
<1>7. log[i].message \in Int
  <2>1. log[i] \in Entry /\ log[i].kind = "reminder"
    BY DEF Reminders, TypeInv
  <2>2. log[i] \in [kind : {"reminder"}, message : 0 .. MaxTime]
    BY <2>1, Zenon DEF Entry, Kinds
  <2>3. QED  BY <2>2
<1>8. CASE i = p
  BY <1>4, <1>6, <1>8
<1>9. CASE i < p
  <2>1. reminded - log[i].message >= Interval \/ Interval = 0
    BY <1>4, <1>9 DEF RemindInv
  <2>2. QED  BY <1>1, <1>6, <1>7, <2>1
<1>10. QED  BY <1>5, <1>8, <1>9

LEMMA RemindStep == TypeInv /\ RemindInv /\ [Next]_vars => RemindInv'
<1> SUFFICES ASSUME TypeInv, RemindInv, [Next]_vars PROVE RemindInv'
  OBVIOUS
<1>1. CASE Sets
  BY <1>1 DEF Sets, RemindInv, Reminders
<1>2. ASSUME NEW new, Adds(new), Fails(new) PROVE RemindInv'
  <2>1. /\ reminded' = reminded /\ now' = now /\ prompt' = prompt
        /\ NoneOf(new, "reminder")
    BY <1>2 DEF Fails
  <2>2. /\ reminded = Never => NoneOf(log', "reminder")
        /\ reminded # Never => TellsLast(log', "reminder", reminded)
        /\ (\A i, j \in Reminders :
              i < j => log[j].message - log[i].message >= Interval \/ Interval = 0)'
    BY <1>2, <2>1, RemindersKept
  <2>3. QED  BY <2>1, <2>2 DEF RemindInv
<1>3. ASSUME NEW new, NEW t, Adds(new), Starts(new, t) PROVE RemindInv'
  <2>1. t \in 0 .. MaxTime /\ now' = t /\ Interval \in Nat /\ MaxTime \in Nat
    BY <1>3, DeveloperAssumption DEF Starts, DeveloperAssumption
  <2>2. CASE ~RemindsAfter(t)
    <3>1. reminded' = reminded /\ NoneOf(new, "reminder")
      BY <1>3, <2>2 DEF Starts
    <3>2. reminded # Never /\ ~(t - reminded >= Interval)
      BY <2>2 DEF RemindsAfter
    <3>3. now' - reminded' < Interval
      BY <2>1, <3>1, <3>2 DEF TypeInv
    <3>4. /\ TellsLast(log', "reminder", reminded)
          /\ (\A i, j \in Reminders :
                i < j => log[j].message - log[i].message >= Interval \/ Interval = 0)'
      BY <1>3, <3>1, <3>2, RemindersKept
    <3>5. QED  BY <3>1, <3>2, <3>3, <3>4 DEF RemindInv
  <2>3. CASE RemindsAfter(t)
    <3>1. reminded' = t /\ OneOf(new, "reminder", t)
      BY <1>3, <2>3 DEF Starts
    <3>2. log \in Seq(Entry) /\ new \in Seq(Entry) /\ log' = log \o new
      BY <1>3 DEF TypeInv, Adds
    <3>3. TellsLast(log', "reminder", t)
      BY <3>1, <3>2, TellsNew
    <3>4. t # Never /\ (now' - t < Interval \/ Interval = 0)
      BY <2>1 DEF Never
    <3>5. PICK q \in DOMAIN new : /\ new[q] = [kind |-> "reminder", message |-> t]
                                  /\ \A j \in DOMAIN new : new[j].kind = "reminder" => j = q
      BY <3>1 DEF OneOf
    <3> DEFINE u == log \o new
               n == Len(log) + q
    <3>6. /\ Len(log) \in Nat /\ DOMAIN log = 1 .. Len(log) /\ q \in Nat \ {0}
          /\ n \in DOMAIN u /\ u[n] = new[q]
          /\ \A x \in DOMAIN log : x \in DOMAIN u /\ u[x] = log[x]
      BY <3>2, ConcatIndices
    <3>7. \A x \in DOMAIN u : u[x].kind = "reminder" => x \in Reminders \/ x = n
      <4> TAKE x \in DOMAIN u
      <4> HAVE u[x].kind = "reminder"
      <4>1. CASE x \in DOMAIN log
        BY <4>1, <3>6 DEF Reminders
      <4>2. ASSUME NEW h \in DOMAIN new, x = Len(log) + h PROVE x = n
        BY <4>2, <3>2, <3>5, ConcatIndices
      <4>3. QED  BY <4>1, <4>2, <3>2, ConcatIndices
    <3>8. ASSUME NEW i \in Reminders', NEW j \in Reminders', i < j
          PROVE  (log')[j].message - (log')[i].message >= Interval \/ Interval = 0
      <4>0. Reminders' = {x \in DOMAIN u : u[x].kind = "reminder"} /\ log' = u
        BY <3>2 DEF Reminders
      <4>1. /\ i \in Reminders \/ i = n
            /\ j \in Reminders \/ j = n
        BY <4>0, <3>7
      <4>2. \A x \in Reminders : x \in Nat /\ x < n /\ u[x] = log[x]
        BY <3>6 DEF Reminders
      <4>3. n \in Nat /\ ~(n < n)
        BY <3>6
      <4>4. i \in Reminders
        BY <3>8, <4>1, <4>2, <4>3
      <4>5. CASE j = n
        <5>1. u[j].message = t
          BY <3>5, <3>6, <4>5
        <5>2. t - log[i].message >= Interval \/ Interval = 0
          BY <2>1, <2>3, <4>4, ReminderSpaced
        <5>3. QED  BY <4>0, <4>2, <4>4, <5>1, <5>2
      <4>6. CASE j \in Reminders
        <5>1. log[j].message - log[i].message >= Interval \/ Interval = 0
          BY <3>8, <4>4, <4>6 DEF RemindInv
        <5>2. QED  BY <4>0, <4>2, <4>4, <4>6, <5>1
      <4>7. QED  BY <4>1, <4>5, <4>6
    <3>9. (\A i, j \in Reminders :
            i < j => log[j].message - log[i].message >= Interval \/ Interval = 0)'
      BY <3>8
    <3>10. QED  BY <3>1, <3>3, <3>4, <3>9 DEF RemindInv
  <2>4. QED  BY <2>2, <2>3
<1>4. QED  BY <1>1, <1>2, <1>3, Steps

LEMMA RemindInvariant == Spec => []RemindInv
<1>1. Init => RemindInv
  BY DEF Init, RemindInv, NoneOf, Reminders
<1>2. QED  BY <1>1, RemindStep, TypeInvariant, PTL DEF Spec

\* The types hold for every interval, rendering and configuration; a session
\* that remembers a reminder has one in its log.
THEOREM WellTyped == Spec => []DeveloperTypeOK
<1>1. TypeInv /\ RemindInv => DeveloperTypeOK
  <2> SUFFICES ASSUME TypeInv, RemindInv PROVE DeveloperTypeOK
    OBVIOUS
  <2>1. reminded # Never => \E i \in DOMAIN log : log[i].kind = "reminder"
    BY DEF RemindInv, TellsLast
  <2>2. QED  BY <2>1 DEF TypeInv, DeveloperTypeOK, Settings
<1>2. QED  BY <1>1, TypeInvariant, RemindInvariant, PTL

\* After every turn the model knows the time to within the interval, and
\* reminders keep that distance, whatever the clock says and when
\* (shouldAppendReminderLocked).
THEOREM RemindersFresh == Spec => []RemindersAreFresh
<1>1. TypeInv /\ RemindInv => RemindersAreFresh
  <2> SUFFICES ASSUME TypeInv, RemindInv PROVE RemindersAreFresh
    OBVIOUS
  <2>1. ASSUME prompt # <<>>
        PROVE  \E i \in Positions("reminder") :
                 now - log[i].message < Interval \/ Interval = 0
    <3>1. /\ TellsLast(log, "reminder", reminded)
          /\ now - reminded < Interval \/ Interval = 0
      BY <2>1 DEF RemindInv
    <3>2. PICK i \in DOMAIN log : log[i] = [kind |-> "reminder", message |-> reminded]
      BY <3>1 DEF TellsLast
    <3>3. i \in Positions("reminder") /\ log[i].message = reminded
      BY <3>2 DEF Positions
    <3>4. QED  BY <3>1, <3>3
  <2>2. \A i, j \in Positions("reminder") :
          i < j => log[j].message - log[i].message >= Interval \/ Interval = 0
    BY DEF RemindInv, Reminders, Positions
  <2>3. QED  BY <2>1, <2>2 DEF RemindersAreFresh
<1>2. QED  BY <1>1, TypeInvariant, RemindInvariant, PTL

-----------------------------------------------------------------------------
(***************************************************************************)
(* Baselines.                                                              *)
(***************************************************************************)
Told == {"switch", "permission", "collaboration"}

\* A baseline is the message its last fragment has, and without a baseline
\* there is no fragment; the style's may have been moved by a model switch.
\* No fragment repeats the one before it.
BaselineInv ==
  /\ \A k \in Told : /\ last[k] = NoText => NoneOf(log, k)
                     /\ last[k] # NoText => TellsLast(log, k, last[k])
                     /\ NeighboursDiffer(log, k)
  /\ last["style"] # NoText =>
       /\ carried # NoText => carried = last["style"]
       /\ carried = NoText => TellsLast(log, "style", last["style"])

LEMMA ToldStep ==
  ASSUME TypeInv, BaselineInv, NEW new, Adds(new), NEW k \in Told
  PROVE  /\ last'[k] = NoText => NoneOf(log', k)
         /\ last'[k] # NoText => TellsLast(log', k, last'[k])
         /\ NeighboursDiffer(log', k)
<1>1. log \in Seq(Entry) /\ new \in Seq(Entry) /\ log' = log \o new
  BY DEF TypeInv, Adds
<1>2. k \in Kinds /\ k # "style"
  BY DEF Told, Kinds
<1>3. Appended(k) <=> Changed(k)
  BY <1>2 DEF Appended
<1>4. last'[k] = IF Present(k) THEN Message(k) ELSE last[k]
  BY <1>2 DEF Adds, Baselines
<1>5. CASE Changed(k)
  <2>1. Present(k) /\ last[k] # Message(k)
    BY <1>5 DEF Changed
  <2>2. last'[k] = Message(k) /\ Message(k) # NoText
    BY <1>2, <1>4, <2>1, MessageType DEF TypeInv
  <2>3. OneOf(new, k, Message(k))
    BY <1>2, <1>3, <1>5, Zenon DEF Adds, Tells
  <2>4. TellsLast(log', k, Message(k))
    BY <1>1, <2>3, TellsNew
  <2>5. NeighboursDiffer(log', k)
    <3>1. CASE last[k] = NoText
      <4>1. NoneOf(log, k)
        BY <3>1 DEF BaselineInv
      <4>2. QED  BY <1>1, <2>3, <4>1, NeighboursFirst
    <3>2. CASE last[k] # NoText
      <4>1. TellsLast(log, k, last[k]) /\ NeighboursDiffer(log, k)
        BY <3>2 DEF BaselineInv
      <4>2. QED  BY <1>1, <2>1, <2>3, <4>1, NeighboursNew
    <3>3. QED  BY <3>1, <3>2
  <2>6. QED  BY <2>2, <2>4, <2>5
<1>6. CASE ~Changed(k)
  <2>1. last'[k] = last[k]
    BY <1>4, <1>6 DEF Changed
  <2>2. NoneOf(new, k)
    BY <1>2, <1>3, <1>6, Zenon DEF Adds, Tells
  <2>3. NeighboursDiffer(log', k)
    BY <1>1, <2>2, NeighboursKept DEF BaselineInv
  <2>4. last[k] = NoText => NoneOf(log', k)
    BY <1>1, <2>2, NoneOfConcat DEF BaselineInv
  <2>5. last[k] # NoText => TellsLast(log', k, last[k])
    BY <1>1, <2>2, TellsOld DEF BaselineInv
  <2>6. QED  BY <2>1, <2>3, <2>4, <2>5
<1>7. QED  BY <1>5, <1>6

\* The style: told by its fragment, or by the model switch announced with it.
LEMMA StyleStep ==
  ASSUME TypeInv, BaselineInv, NEW new, Adds(new), last'["style"] # NoText
  PROVE  /\ carried' # NoText => carried' = last'["style"]
         /\ carried' = NoText => TellsLast(log', "style", last'["style"])
<1>1. log \in Seq(Entry) /\ new \in Seq(Entry) /\ log' = log \o new
  BY DEF TypeInv, Adds
<1>2. "style" \in Kinds
  BY DEF Kinds
<1>3. last'["style"] = IF Present("style") THEN Message("style") ELSE last["style"]
  BY <1>2 DEF Adds, Baselines
<1>4. CASE Appended("style")
  <2>1. Present("style")
    BY <1>4 DEF Appended, Changed
  <2>2. OneOf(new, "style", Message("style"))
    BY <1>2, <1>4, Zenon DEF Adds, Tells
  <2>3. TellsLast(log', "style", Message("style"))
    BY <1>1, <2>2, TellsNew
  <2>4. carried' = NoText
    BY <1>4 DEF Adds, Carried, Appended
  <2>5. QED  BY <1>3, <2>1, <2>3, <2>4
<1>5. CASE ~Appended("style") /\ Changed("switch") /\ Present("style")
  <2>1. carried' = Message("style") /\ last'["style"] = Message("style")
    BY <1>3, <1>5 DEF Adds, Carried
  <2>2. Message("style") # NoText
    BY <1>2, <1>5, MessageType DEF TypeInv
  <2>3. QED  BY <2>1, <2>2
<1>6. CASE ~Appended("style") /\ ~(Changed("switch") /\ Present("style"))
  <2>1. carried' = carried
    BY <1>6 DEF Adds, Carried
  <2>2. last'["style"] = last["style"]
    BY <1>3, <1>6 DEF Appended, Changed
  <2>3. NoneOf(new, "style")
    BY <1>2, <1>6, Zenon DEF Adds, Tells
  <2>4. carried = NoText => TellsLast(log', "style", last["style"])
    BY <1>1, <2>2, <2>3, TellsOld DEF BaselineInv
  <2>5. QED  BY <2>1, <2>2, <2>4 DEF BaselineInv
<1>7. QED  BY <1>4, <1>5, <1>6

LEMMA BaselineStep == TypeInv /\ BaselineInv /\ [Next]_vars => BaselineInv'
<1> SUFFICES ASSUME TypeInv, BaselineInv, [Next]_vars PROVE BaselineInv'
  OBVIOUS
<1>1. CASE Sets
  BY <1>1 DEF Sets, BaselineInv
<1>2. ASSUME NEW new, Adds(new) PROVE BaselineInv'
  BY <1>2, ToldStep, StyleStep DEF BaselineInv
<1>3. QED  BY <1>1, <1>2, Steps

LEMMA BaselineInvariant == Spec => []BaselineInv
<1>1. Init => BaselineInv
  BY DEF Init, BaselineInv, NoneOf, NeighboursDiffer, Told, Kinds
<1>2. QED  BY <1>1, BaselineStep, TypeInvariant, PTL DEF Spec

\* A setting that does not change adds no fragment, whatever turns failed in
\* between (developerMessagesLocked).
THEOREM FragmentsDiffer == Spec => []NoFragmentTwice
<1>1. BaselineInv => NoFragmentTwice
  BY DEF BaselineInv, NoFragmentTwice, NeighboursDiffer, Positions, Told
<1>2. QED  BY <1>1, BaselineInvariant, PTL

\* What the prompt shows ends as the log does.
LEMMA VisibleTells ==
  ASSUME NEW s \in Seq(Entry), NEW k \in Kinds, NEW m, Shown(k), TellsLast(s, k, m)
  PROVE  TellsLast(VisibleIn(s), k, m)
<1> DEFINE P == {i \in DOMAIN s : s[i].kind \notin Kinds \/ Shown(s[i].kind)}
<1>1. VisibleIn(s) = Pick(s, P)
  BY DEF VisibleIn
<1>2. P \in SUBSET (DOMAIN s)
  OBVIOUS
<1>3. PICK i \in DOMAIN s : /\ s[i] = [kind |-> k, message |-> m]
                            /\ \A j \in DOMAIN s : j > i => s[j].kind # k
  BY DEF TellsLast
<1>4. i \in P
  BY <1>3
<1> HIDE DEF P
<1>5. /\ \A n \in DOMAIN Pick(s, P) : Nth(P, n) \in P /\ Pick(s, P)[n] = s[Nth(P, n)]
      /\ \A h \in P : \E n \in DOMAIN Pick(s, P) : Nth(P, n) = h
      /\ \A a, b \in DOMAIN Pick(s, P) : a < b => Nth(P, a) < Nth(P, b)
      /\ DOMAIN Pick(s, P) = 1 .. Cardinality(P)
  BY <1>2, PickShape
<1>6. PICK n \in DOMAIN Pick(s, P) : Nth(P, n) = i
  BY <1>4, <1>5
<1>7. Pick(s, P)[n] = [kind |-> k, message |-> m]
  BY <1>3, <1>5, <1>6
<1>8. ASSUME NEW j \in DOMAIN Pick(s, P), j > n PROVE Pick(s, P)[j].kind # k
  <2>1. n < j
    BY <1>5, <1>8
  <2>2. Nth(P, n) < Nth(P, j) /\ Nth(P, j) \in DOMAIN s
    BY <1>2, <1>5, <2>1
  <2>3. Nth(P, j) > i
    <3>1. \A x \in DOMAIN s : x \in Nat
      BY LenProperties
    <3>2. QED  BY <1>6, <2>2, <3>1
  <2>4. QED  BY <1>3, <1>5, <2>2, <2>3
<1>9. QED  BY <1>1, <1>7, <1>8 DEF TellsLast

\* What the model was told last of each setting is what the caller has set,
\* through failed turns, withdrawn texts and suppressed styles
\* (append*InstructionsLocked).
THEOREM SettingsTold == Spec => SettingsAreTold
<1>1. TypeInv /\ BaselineInv /\ BaselineInv' /\ [Next]_vars =>
        [\A k \in {"switch", "permission", "collaboration"} :
           prompt' # prompt /\ Present(k) => TellsLast(prompt', k, Message(k))]_vars
  <2> SUFFICES ASSUME TypeInv, BaselineInv, BaselineInv', [Next]_vars,
                      NEW k \in Told, prompt' # prompt, Present(k)
               PROVE  TellsLast(prompt', k, Message(k))
    BY DEF Told
  <2>1. PICK new, t : Adds(new) /\ Starts(new, t)
    BY Steps DEF Sets, Fails
  <2>2. k \in Kinds
    BY DEF Told, Kinds
  <2>3. last'[k] = Message(k) /\ Message(k) # NoText /\ Shown(k)
    BY <2>1, <2>2, MessageType DEF Adds, Baselines, TypeInv
  <2>4. TellsLast(log', k, Message(k))
    BY <2>3 DEF BaselineInv
  <2>5. log' \in Seq(Entry)
    BY <2>1, AddsTypes
  <2>6. prompt' = VisibleIn(log')
    BY <2>1 DEF Starts
  <2>7. QED  BY <2>2, <2>3, <2>4, <2>5, <2>6, VisibleTells
<1>2. TypeInv /\ BaselineInv /\ BaselineInv' /\ [Next]_vars =>
        [turns' # turns /\ Present("style") =>
           IF carried' # NoText THEN carried' = Message("style")
           ELSE TellsLast(log', "style", Message("style"))]_vars
  <2> SUFFICES ASSUME TypeInv, BaselineInv, BaselineInv', [Next]_vars,
                      turns' # turns, Present("style")
               PROVE  IF carried' # NoText THEN carried' = Message("style")
                      ELSE TellsLast(log', "style", Message("style"))
    OBVIOUS
  <2>1. PICK new : Adds(new)
    BY Steps DEF Sets
  <2>2. "style" \in Kinds
    BY DEF Kinds
  <2>3. last'["style"] = Message("style") /\ Message("style") # NoText
    BY <2>1, <2>2, MessageType DEF Adds, Baselines, TypeInv
  <2>4. QED  BY <2>3 DEF BaselineInv
<1>3. Spec => PromptShowsSettings
  BY <1>1, TypeInvariant, BaselineInvariant, PTL DEF Spec, PromptShowsSettings
<1>4. Spec => StyleIsTold
  BY <1>2, TypeInvariant, BaselineInvariant, PTL DEF Spec, StyleIsTold
<1>5. QED  BY <1>3, <1>4 DEF SettingsAreTold

=============================================================================
