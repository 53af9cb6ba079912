-------------------------- MODULE IpfixDecoderProofs ---------------------------
(***************************************************************************)
(* Proofs about IpfixDecoder for any number of exporters, messages, sets   *)
(* and calls, every loss, repetition and order of messages, and any        *)
(* layouts.  Of the inductive invariant, two parts are about the exporters *)
(* (what they count, and which layout is in force), and three about the    *)
(* history of the decoder: the layout it has under a key is that of the    *)
(* last template it took, a data set yields all or is the last of its      *)
(* call, and ordinals grow within a call.                                  *)
(***************************************************************************)
EXTENDS IpfixDecoder, BoundedSeqProofs, FiniteSetTheorems

-------------------------------------------------------------------------------
(* The inductive invariant *)

AllLayouts == Layouts \cup {NoFields}
SetType == [kind : Kinds, tid : Tids, rows : Nat, layout : AllLayouts]
Message == [from : Exporters, epoch : Nat, count : Nat, sets : Seq(SetType)]
TemplateKeys == Domains \X Tids

\* Where the messages have sets.
Places == {at \in [msg : Nat, set : Nat] :
             at.msg \in DOMAIN sent /\ at.set \in DOMAIN sent[at.msg].sets}
Entry == [at : Places, call : Nat, used : AllLayouts, ids : Seq(Nat \X Nat)]

\* The values of the variables.  A data set has records, written with some layout, and
\* nothing is sent any more once decode was called.
ExporterShape ==
  /\ domainOf \in [Exporters -> Domains]
  /\ inForce \in [Exporters -> [Tids -> AllLayouts]]
  /\ epoch \in [Exporters -> Nat]
  /\ records \in [Exporters -> Nat]
  /\ sent \in Seq(Message)
  /\ \A at \in Places :
       SetAt(at).kind = "data" => SetAt(at).rows > 0 /\ SetAt(at).layout # NoFields
DecoderShape ==
  /\ DOMAIN templates \subseteq TemplateKeys
  /\ \A k \in DOMAIN templates : templates[k] \in AllLayouts
  /\ rest \in Seq(Places)
  /\ ordinal \in Nat /\ calls \in Nat
  /\ parsed \in Seq(Entry)
  /\ \A i \in DOMAIN parsed :
       /\ parsed[i].call <= calls
       /\ SetAt(parsed[i].at).kind \in {"template", "data"}
       /\ parsed[i].ids # <<>> => SetAt(parsed[i].at).kind = "data"
  /\ calls = 0 => rest = <<>> /\ parsed = <<>>

\* An exporter that started once counted no more records in a message than it has sent
\* since, and less if the message has some; and so in each later message.
HasData(n) == \E s \in DOMAIN sent[n].sets : sent[n].sets[s].kind = "data"
CountsInv ==
  \A n \in DOMAIN sent :
    LET m == sent[n] IN
    /\ m.epoch <= epoch[m.from]
    /\ m.epoch = epoch[m.from] => m.count <= records[m.from]
    /\ m.epoch = epoch[m.from] /\ HasData(n) => m.count < records[m.from]
    /\ \A l \in 1..n - 1 :
         sent[l].from = m.from /\ sent[l].epoch = m.epoch /\ HasData(l) =>
           sent[l].count < m.count

\* Exporter e announces template t at a place, in its start p; it is the last time of
\* those in a set of places.
Announces(a, e, p, t) ==
  /\ SetAt(a).kind = "template" /\ SetAt(a).tid = t
  /\ sent[a.msg].from = e /\ sent[a.msg].epoch = p
IsLast(a, e, p, t, places) ==
  /\ a \in places /\ Announces(a, e, p, t)
  /\ \A b \in places : Announces(b, e, p, t) => ~Before(a, b)

\* The layout in force is the one announced last, and a data set is written with the one
\* that was announced last before it.
InForceInv ==
  \A e \in Exporters, t \in Tids : \A a \in Places :
    IsLast(a, e, epoch[e], t, Places) => inForce[e][t] = SetAt(a).layout
WrittenInv ==
  \A at \in Places : SetAt(at).kind = "data" =>
    \A a \in Places :
      IsLast(a, sent[at.msg].from, sent[at.msg].epoch, SetAt(at).tid,
             {b \in Places : Before(b, at)})
      => SetAt(at).layout = SetAt(a).layout

\* Entry j is the last of the first n that replaced the template under key k.
Takes(j, k) == SetAt(parsed[j].at).kind = "template" /\ Key(parsed[j].at) = k
LastTaken(j, k, n) ==
  /\ j \in 1..n /\ Takes(j, k)
  /\ \A l \in 1..n : Takes(l, k) => l <= j

\* What the decoder has under a key is the layout taken last, also when it read a set.
TemplatesInv ==
  /\ \A j \in DOMAIN parsed : \A k \in TemplateKeys :
       LastTaken(j, k, Len(parsed)) =>
         k \in DOMAIN templates /\ templates[k] = SetAt(parsed[j].at).layout
  /\ \A i \in DOMAIN parsed : \A j \in DOMAIN parsed :
       SetAt(parsed[i].at).kind = "data" /\ LastTaken(j, Key(parsed[i].at), i - 1) =>
         parsed[i].used = SetAt(parsed[j].at).layout

\* A data set yields all its events, or is the last set of its call.
EndsItsCall(i) ==
  IF i = Len(parsed) THEN rest = <<>> \/ parsed[i].call < calls
  ELSE parsed[i + 1].call > parsed[i].call
YieldInv ==
  \A i \in DOMAIN parsed : SetAt(parsed[i].at).kind = "data" =>
    LET n == EventsIn(SetAt(parsed[i].at), parsed[i].used) IN
    /\ Len(parsed[i].ids) <= n
    /\ Len(parsed[i].ids) = n \/ EndsItsCall(i)

\* An id carries the count of its message, and within a call ordinals grow.
IdsInv ==
  \A i \in DOMAIN parsed : \A k \in DOMAIN parsed[i].ids :
    LET id == parsed[i].ids[k] IN
    /\ id[1] = sent[parsed[i].at.msg].count % SeqSpace
    /\ parsed[i].call = calls => id[2] <= ordinal
    /\ \A l \in DOMAIN parsed[i].ids : parsed[i].ids[l][2] = id[2] => l = k
    /\ \A j \in 1..i - 1 : parsed[j].call = parsed[i].call =>
         \A l \in DOMAIN parsed[j].ids : parsed[j].ids[l][2] < id[2]

IpfixInv ==
  /\ ExporterShape /\ DecoderShape /\ CountsInv /\ InForceInv /\ WrittenInv
  /\ TemplatesInv /\ YieldInv /\ IdsInv

-------------------------------------------------------------------------------
(* Flattening *)

\* The first m values of the recursive function of FlattenSeq.
Concatenates(g, ss, m) ==
  \A i \in 1..m : g[i] = IF i = 1 THEN ss[i] ELSE g[i - 1] \o ss[i]

(* That function exists. *)
LEMMA PartialConcatenations ==
  ASSUME NEW T, NEW ss \in Seq(Seq(T)), NEW n \in 1..Len(ss)
  PROVE  \E g \in [1..n -> Seq(T)] : Concatenates(g, ss, n)
<1> DEFINE Missing ==
             {m \in Nat : /\ m \in 1..Len(ss)
                          /\ ~ \E g \in [1..m -> Seq(T)] : Concatenates(g, ss, m)}
<1>0. Len(ss) \in Nat /\ n \in Nat
  BY LenProperties
<1>1. ASSUME NEW m \in Missing, \A l \in Missing : m <= l
      PROVE  FALSE
  <2>1. /\ m \in 1..Len(ss) /\ m \in Nat /\ ss[m] \in Seq(T)
        /\ ~ \E g \in [1..m -> Seq(T)] : Concatenates(g, ss, m)
    BY <1>1, ElementOfSeq
  <2>2. CASE m = 1
    <3> DEFINE g == [i \in 1..m |-> ss[m]]
    <3>1. g \in [1..m -> Seq(T)] /\ Concatenates(g, ss, m)
      BY <2>1, <2>2 DEF Concatenates
    <3> QED
      BY <2>1, <3>1
  <2>3. CASE m # 1
    <3>1. m - 1 \in Nat /\ m - 1 \in 1..Len(ss)
      BY <1>0, <2>1, <2>3
    <3>2. m - 1 \notin Missing
      <4>1. ~(m <= m - 1)
        BY <2>1
      <4> HIDE DEF Missing
      <4> QED
        BY <1>1, <4>1
    <3>3. PICK f \in [1..(m - 1) -> Seq(T)] : Concatenates(f, ss, m - 1)
      BY <3>1, <3>2
    <3> HIDE DEF Missing
    <3> DEFINE last == f[m - 1] \o ss[m]
               g == [i \in 1..m |-> IF i = m THEN last ELSE f[i]]
    <3>4. m - 1 \in 1..(m - 1) /\ f[m - 1] \in Seq(T)
      BY <3>1
    <3>5. last \in Seq(T)
      BY <2>1, <3>4, ConcatProperties
    <3>6. \A i \in 1..m : i = m \/ i \in 1..(m - 1)
      BY <2>1
    <3>7. ASSUME NEW i \in 1..m
          PROVE  g[i] = IF i = 1 THEN ss[i] ELSE g[i - 1] \o ss[i]
      <4>0. m - 1 \in 1..m /\ m - 1 # m /\ g[m - 1] = f[m - 1]
        BY <2>1, <2>3, <3>1
      <4>1. CASE i = m
        BY <2>3, <4>0, <4>1
      <4>2. CASE i # m
        <5>1. i \in 1..(m - 1) /\ (i # 1 => i - 1 \in 1..m /\ i - 1 # m)
          BY <2>1, <4>2
        <5>2. f[i] = IF i = 1 THEN ss[i] ELSE f[i - 1] \o ss[i]
          BY <3>3, <5>1 DEF Concatenates
        <5> HIDE DEF last
        <5>3. g[i] = f[i] /\ (i # 1 => g[i - 1] = f[i - 1])
          BY <5>1, <4>2
        <5> HIDE DEF g
        <5> QED
          BY <5>2, <5>3
      <4> QED
        BY <4>1, <4>2
    <3> HIDE DEF last
    <3>8. g \in [1..m -> Seq(T)]
      BY <3>5, <3>6
    <3>9. Concatenates(g, ss, m)
      BY <3>7 DEF Concatenates
    <3> HIDE DEF g
    <3> QED
      BY <2>1, <3>8, <3>9
  <2> QED
    BY <2>2, <2>3
<1>2. Missing \in SUBSET Nat
  OBVIOUS
<1>3. Missing = {}
  <2> HIDE DEF Missing
  <2> QED
    BY <1>1, <1>2, LeastNat
<1> QED
  BY <1>0, <1>3

(* A sequence of sequences over T is flattened to a sequence over T. *)
LEMMA FlattenKeepsType ==
  ASSUME NEW T, NEW ss \in Seq(Seq(T))
  PROVE  FlattenSeq(ss) \in Seq(T)
<1>0. Len(ss) \in Nat /\ \A i \in 1..Len(ss) : ss[i] \in Seq(T)
  BY LenProperties, ElementOfSeq
<1>1. CASE Len(ss) = 0
  <2>1. ss = <<>> /\ FlattenSeq(ss) = ss
    BY <1>1, EmptySeq DEF FlattenSeq
  <2> QED
    BY <2>1, EmptySeq
<1>2. CASE Len(ss) # 0
  <2> DEFINE N == Len(ss)
             Rec(g) == [i \in 1..N |-> IF i = 1 THEN ss[i] ELSE g[i - 1] \o ss[i]]
             flat == CHOOSE g : g = Rec(g)
  <2>1. FlattenSeq(ss) = flat[N]
    BY <1>2 DEF FlattenSeq
  <2>2. N \in Nat /\ N \in 1..N
    BY <1>0, <1>2
  <2>3. PICK h \in [1..N -> Seq(T)] : Concatenates(h, ss, N)
    BY <2>2, PartialConcatenations
  <2>4. h = Rec(h)
    BY <2>3 DEF Concatenates
  <2>5. flat = Rec(flat)
    BY <2>4
  <2> HIDE DEF flat
  <2>6. \A i \in 1..N : flat[i] = IF i = 1 THEN ss[i] ELSE flat[i - 1] \o ss[i]
    BY <2>5
  <2> HIDE DEF N, Rec
  <2> DEFINE Bad == {i \in Nat : i \in 1..N /\ flat[i] \notin Seq(T)}
  <2>7. ASSUME NEW m \in Bad, \A l \in Bad : m <= l
        PROVE  FALSE
    <3>1. m \in 1..N /\ flat[m] \notin Seq(T) /\ ss[m] \in Seq(T)
      BY <1>0, <2>7 DEF N
    <3>2. flat[m] = IF m = 1 THEN ss[m] ELSE flat[m - 1] \o ss[m]
      BY <2>6, <3>1
    <3>3. m # 1
      BY <3>1, <3>2
    <3>4. m - 1 \in Nat /\ m - 1 \in 1..N /\ ~(m <= m - 1)
      BY <2>2, <3>1, <3>3
    <3>5. flat[m - 1] \in Seq(T)
      BY <2>7, <3>4
    <3>6. flat[m - 1] \o ss[m] \in Seq(T)
      BY <3>1, <3>5, ConcatProperties
    <3> QED
      BY <3>1, <3>2, <3>3, <3>6
  <2>8. Bad = {}
    <3>1. Bad \in SUBSET Nat
      OBVIOUS
    <3> HIDE DEF Bad
    <3> QED
      BY <2>7, <3>1, LeastNat
  <2> QED
    BY <2>1, <2>2, <2>8
<1> QED
  BY <1>1, <1>2

-------------------------------------------------------------------------------
(* The exporters *)

(* A message has as many sets of a kind as there are places with it in its shape. *)
LEMMA CountOfKind ==
  ASSUME NEW shape \in Seq(Kinds), NEW kind
  PROVE  /\ CountOf(shape, kind) \in Nat
         /\ CountOf(shape, kind) = 0 <=> \A i \in DOMAIN shape : shape[i] # kind
<1> DEFINE S == {i \in DOMAIN shape : shape[i] = kind}
<1>1. DOMAIN shape = 1..Len(shape) /\ Len(shape) \in Nat
  BY LenProperties
<1>2. IsFiniteSet(S)
  <2>1. IsFiniteSet(1..Len(shape))
    BY <1>1, FS_Interval
  <2> QED
    BY <1>1, <2>1, FS_Subset
<1>3. CountOf(shape, kind) \in Nat /\ (CountOf(shape, kind) = 0 <=> S = {})
  BY <1>2, FS_CardinalityType, FS_EmptySet DEF CountOf
<1> QED
  BY <1>3

(* What a message adds to the records of its exporter. *)
LEMMA RecordsAdded ==
  ASSUME NEW n \in Nat \ {0}, NEW c \in Nat
  PROVE  n * c \in Nat /\ (c > 0 => n * c > 0)
OBVIOUS

\* What sending a message m about template t, with layout l if it announces one, changes.
HasTemplate(m) == \E s \in DOMAIN m.sets : m.sets[s].kind = "template"
Sends(e, m, t, l) ==
  /\ calls = 0 /\ sent' = Append(sent, m)
  /\ m.from = e /\ m.epoch = epoch[e] /\ m.count = records[e]
  /\ \A s \in DOMAIN m.sets :
       /\ m.sets[s].tid = t
       /\ m.sets[s].kind = "data" => m.sets[s].rows > 0 /\ m.sets[s].layout # NoFields
       /\ m.sets[s].layout =
            IF \E r \in 1..s : m.sets[r].kind = "template" THEN l ELSE inForce[e][t]
  /\ inForce' \in [Exporters -> [Tids -> AllLayouts]]
  /\ \A x \in Exporters, u \in Tids :
       inForce'[x][u] = IF x = e /\ u = t /\ HasTemplate(m) THEN l ELSE inForce[x][u]
  /\ records' \in [Exporters -> Nat]
  /\ \A x \in Exporters \ {e} : records'[x] = records[x]
  /\ records'[e] >= records[e]
  /\ (\E s \in DOMAIN m.sets : m.sets[s].kind = "data") => records'[e] > records[e]
  /\ UNCHANGED <<domainOf, epoch, decoderVars>>

LEMMA SendEffect ==
  ASSUME ExporterShape, NEW e \in Exporters, Send(e)
  PROVE  \E m \in Message, t \in Tids, l \in AllLayouts : Sends(e, m, t, l)
<1>1. PICK shape \in Shapes, t \in Tids, l \in Layouts \cup {NoFields}, n \in Rows :
        LET sets == SetsOf(e, shape, t, l, n) IN
        /\ CountOf(shape, "template") = 0 => l = NoFields
        /\ \A i \in DOMAIN sets : sets[i].kind = "data" => sets[i].layout # NoFields
        /\ sent' = Append(sent, [from |-> e, epoch |-> epoch[e], count |-> records[e],
                                 sets |-> sets])
        /\ inForce' = IF CountOf(shape, "template") = 0 THEN inForce
                      ELSE [inForce EXCEPT ![e][t] = l]
        /\ records' = [records EXCEPT ![e] = @ + n * CountOf(shape, "data")]
  BY Zenon DEF Send
<1> DEFINE sets == SetsOf(e, shape, t, l, n)
           m == [from |-> e, epoch |-> epoch[e], count |-> records[e], sets |-> sets]
<1>2. /\ shape \in Seq(Kinds) /\ DOMAIN shape = 1..Len(shape) /\ Len(shape) \in Nat
      /\ \A i \in 1..Len(shape) : shape[i] \in Kinds
      /\ n \in Nat \ {0}
  BY LenProperties, ElementOfSeq, IpfixAssumption
<1>3. /\ inForce[e][t] \in AllLayouts /\ epoch[e] \in Nat /\ records[e] \in Nat
      /\ l \in AllLayouts
  BY DEF ExporterShape, AllLayouts
<1>4. /\ DOMAIN sets = 1..Len(shape)
      /\ \A i \in 1..Len(shape) :
           sets[i] = [kind |-> shape[i], tid |-> t,
                      rows |-> IF shape[i] = "data" THEN n ELSE 0,
                      layout |-> IF \E j \in 1..i : shape[j] = "template" THEN l
                                 ELSE inForce[e][t]]
  BY <1>2 DEF SetsOf
<1>5. \A i \in 1..Len(shape) : sets[i] \in SetType
  BY <1>2, <1>3, <1>4 DEF SetType
<1>6. sets \in Seq(SetType)
  <2>1. sets = [i \in 1..Len(shape) |-> sets[i]]
    BY <1>2 DEF SetsOf
  <2> HIDE DEF sets
  <2> QED
    BY <1>2, <1>5, <2>1, SeqDef
<1>7. \A i \in DOMAIN sets : sets[i].kind = "data" => sets[i].layout # NoFields
  BY <1>1
<1> HIDE DEF sets
<1>8. m \in Message
  BY <1>3, <1>6 DEF Message
<1>9. \A s \in 1..Len(shape) :
        /\ sets[s].kind = shape[s] /\ sets[s].tid = t
        /\ sets[s].kind = "data" => sets[s].rows > 0 /\ sets[s].layout # NoFields
        /\ sets[s].layout = IF \E j \in 1..s : shape[j] = "template" THEN l ELSE inForce[e][t]
  BY <1>2, <1>4, <1>7
<1>10. \A s \in 1..Len(shape) :
         (\E j \in 1..s : shape[j] = "template") <=> (\E r \in 1..s : sets[r].kind = "template")
  <2>1. \A s \in 1..Len(shape) : \A r \in 1..s : r \in 1..Len(shape)
    BY <1>2
  <2> QED
    BY <1>9, <2>1
<1>11. /\ HasTemplate(m) <=> CountOf(shape, "template") # 0
       /\ (\E s \in DOMAIN sets : sets[s].kind = "data") <=> CountOf(shape, "data") # 0
       /\ CountOf(shape, "data") \in Nat
  <2>1. HasTemplate(m) <=> \E i \in 1..Len(shape) : shape[i] = "template"
    BY <1>4, <1>9 DEF HasTemplate
  <2>2. (\E s \in DOMAIN sets : sets[s].kind = "data")
        <=> \E i \in 1..Len(shape) : shape[i] = "data"
    BY <1>4, <1>9
  <2>3. \A kind : /\ CountOf(shape, kind) \in Nat
                  /\ CountOf(shape, kind) = 0 <=> \A i \in 1..Len(shape) : shape[i] # kind
    BY <1>2, CountOfKind
  <2> QED
    BY <2>1, <2>2, <2>3
<1>12. /\ inForce' \in [Exporters -> [Tids -> AllLayouts]]
       /\ \A x \in Exporters, u \in Tids :
            inForce'[x][u] = IF x = e /\ u = t /\ HasTemplate(m) THEN l ELSE inForce[x][u]
  <2> HIDE DEF m
  <2>1. inForce' = IF HasTemplate(m) THEN [inForce EXCEPT ![e][t] = l] ELSE inForce
    BY <1>1, <1>11
  <2> QED
    BY <1>3, <2>1 DEF ExporterShape
<1>13. /\ records' \in [Exporters -> Nat]
       /\ \A x \in Exporters \ {e} : records'[x] = records[x]
       /\ records'[e] >= records[e]
       /\ (\E s \in DOMAIN sets : sets[s].kind = "data") => records'[e] > records[e]
  <2> DEFINE more == n * CountOf(shape, "data")
  <2>1. more \in Nat /\ (CountOf(shape, "data") # 0 => more > 0)
    BY <1>2, <1>11, RecordsAdded
  <2>2. records' = [records EXCEPT ![e] = records[e] + more]
    BY <1>1
  <2> HIDE DEF more
  <2> QED
    BY <1>3, <1>11, <2>1, <2>2 DEF ExporterShape
<1>14. calls = 0 /\ UNCHANGED <<domainOf, epoch, decoderVars>>
  BY DEF Send
<1>15. sent' = Append(sent, m)
  BY <1>1 DEF sets
<1>16. \A s \in DOMAIN sets :
         /\ sets[s].tid = t
         /\ sets[s].kind = "data" => sets[s].rows > 0 /\ sets[s].layout # NoFields
         /\ sets[s].layout =
              IF \E r \in 1..s : sets[r].kind = "template" THEN l ELSE inForce[e][t]
  BY <1>4, <1>9, <1>10
<1>17. /\ m.sets = sets /\ m.from = e /\ m.epoch = epoch[e] /\ m.count = records[e]
  OBVIOUS
<1> HIDE DEF m
<1>18. Sends(e, m, t, l)
  BY <1>12, <1>13, <1>14, <1>15, <1>16, <1>17 DEF Sends
<1> QED
  BY <1>3, <1>8, <1>18

(* What has been sent stays, and the new message is behind it. *)
LEMMA PlacesAfterSend ==
  ASSUME ExporterShape, NEW e, NEW m \in Message, NEW t, NEW l, Sends(e, m, t, l)
  PROVE  LET N == Len(sent) + 1 IN
         /\ Len(sent) \in Nat /\ DOMAIN sent = 1..Len(sent) /\ DOMAIN sent' = 1..N
         /\ sent' \in Seq(Message) /\ sent'[N] = m
         /\ \A i \in 1..Len(sent) : sent'[i] = sent[i] /\ i < N /\ i # N
         /\ \A at \in Places :
              /\ at \in Places' /\ at.msg \in 1..Len(sent) /\ at.msg < N
              /\ sent'[at.msg] = sent[at.msg] /\ SetAt(at)' = SetAt(at)
         /\ \A at \in Places' :
              at \in Places \/ (at.msg = N /\ at.set \in DOMAIN m.sets /\ SetAt(at)' = m.sets[at.set])
         /\ \A s \in DOMAIN m.sets : [msg |-> N, set |-> s] \in Places'
<1> DEFINE N == Len(sent) + 1
<1>1. sent \in Seq(Message) /\ sent' = Append(sent, m)
  BY DEF ExporterShape, Sends
<1>2. /\ Len(sent) \in Nat /\ DOMAIN sent = 1..Len(sent) /\ N \in Nat
      /\ sent' \in Seq(Message) /\ DOMAIN sent' = 1..N /\ sent'[N] = m
      /\ \A i \in 1..Len(sent) : sent'[i] = sent[i] /\ i < N /\ i # N /\ i \in 1..N
      /\ \A i \in 1..N : i \in 1..Len(sent) \/ i = N
      /\ N \in 1..N
  <2>1. /\ Append(sent, m) \in Seq(Message) /\ Len(Append(sent, m)) = Len(sent) + 1
        /\ \A i \in 1..Len(sent) : Append(sent, m)[i] = sent[i]
        /\ Append(sent, m)[Len(sent) + 1] = m
    BY <1>1, AppendElements
  <2> QED
    BY <1>1, <2>1, LenProperties
<1>3. DOMAIN m.sets \subseteq Nat
  <2>1. m.sets \in Seq(SetType)
    BY DEF Message
  <2> QED
    BY <2>1, LenProperties
<1> HIDE DEF N
<1>4. ASSUME NEW at \in Places
      PROVE  /\ at \in Places' /\ at.msg \in 1..Len(sent) /\ at.msg < N
             /\ sent'[at.msg] = sent[at.msg] /\ SetAt(at)' = SetAt(at)
  BY <1>2 DEF Places, SetAt
<1>5. ASSUME NEW at \in Places'
      PROVE  at \in Places
             \/ (at.msg = N /\ at.set \in DOMAIN m.sets /\ SetAt(at)' = m.sets[at.set])
  BY <1>2 DEF Places, SetAt
<1>6. ASSUME NEW s \in DOMAIN m.sets
      PROVE  [msg |-> N, set |-> s] \in Places'
  BY <1>2, <1>3 DEF Places
<1> QED
  BY <1>2, <1>4, <1>5, <1>6 DEF N

(* Sending and restarting keep the shape. *)
LEMMA ExportersKeepShape ==
  ASSUME ExporterShape, DecoderShape, NEW e \in Exporters, Send(e) \/ Restart(e)
  PROVE  ExporterShape' /\ DecoderShape'
<1>1. calls = 0 /\ rest = <<>> /\ parsed = <<>>
  BY DEF Send, Restart, DecoderShape
<1>2. UNCHANGED decoderVars
  BY DEF Send, Restart
<1>3. DecoderShape'
  <2>1. /\ DOMAIN templates' \subseteq TemplateKeys
        /\ \A k \in DOMAIN templates' : templates'[k] \in AllLayouts
        /\ ordinal' \in Nat /\ calls' \in Nat /\ rest' = <<>> /\ parsed' = <<>>
    BY <1>1, <1>2 DEF decoderVars, DecoderShape
  <2>2. rest' \in Seq(Places') /\ parsed' \in Seq(Entry') /\ DOMAIN parsed' = {}
    BY <2>1, EmptySeq
  <2> QED
    BY <2>1, <2>2 DEF DecoderShape
<1>4. CASE Send(e)
  <2>1. PICK m \in Message, t \in Tids, l \in AllLayouts : Sends(e, m, t, l)
    BY <1>4, SendEffect
  <2>2. /\ sent' \in Seq(Message)
        /\ \A at \in Places : SetAt(at)' = SetAt(at)
        /\ \A at \in Places' :
             at \in Places \/ (at.set \in DOMAIN m.sets /\ SetAt(at)' = m.sets[at.set])
    BY <2>1, PlacesAfterSend
  <2>3. ASSUME NEW at \in Places', SetAt(at)'.kind = "data"
        PROVE  SetAt(at)'.rows > 0 /\ SetAt(at)'.layout # NoFields
    <3>1. CASE at \in Places
      BY <2>2, <2>3, <3>1 DEF ExporterShape
    <3>2. CASE at.set \in DOMAIN m.sets /\ SetAt(at)' = m.sets[at.set]
      BY <2>1, <2>3, <3>2 DEF Sends
    <3> QED
      BY <2>2, <3>1, <3>2
  <2> QED
    BY <1>3, <2>1, <2>2, <2>3 DEF Sends, ExporterShape
<1>5. CASE Restart(e)
  <2>1. /\ UNCHANGED <<domainOf, sent>>
        /\ epoch' = [epoch EXCEPT ![e] = epoch[e] + 1] /\ records' = [records EXCEPT ![e] = 0]
        /\ inForce' = [inForce EXCEPT ![e] = [t \in Tids |-> NoFields]]
    BY <1>5 DEF Restart
  <2>2. ExporterShape'
    BY <2>1 DEF ExporterShape, Places, SetAt, AllLayouts
  <2> QED
    BY <1>3, <2>2
<1> QED
  BY <1>4, <1>5

(* A message counts the records that were sent before it. *)
LEMMA ExportersKeepCounts ==
  ASSUME ExporterShape, CountsInv, NEW e \in Exporters, Send(e) \/ Restart(e)
  PROVE  CountsInv'
<1>1. CASE Send(e)
  <2>1. PICK m \in Message, t \in Tids, l \in AllLayouts : Sends(e, m, t, l)
    BY <1>1, SendEffect
  <2>2. PICK N : N = Len(sent) + 1
    OBVIOUS
  <2>3. /\ Len(sent) \in Nat /\ DOMAIN sent = 1..Len(sent) /\ DOMAIN sent' = 1..N
        /\ sent'[N] = m
        /\ \A i \in 1..Len(sent) : sent'[i] = sent[i] /\ i # N
        /\ \A i \in 1..N : i \in 1..Len(sent) \/ i = N
        /\ N - 1 = Len(sent)
        /\ \A i \in 1..Len(sent) : sent[i].from \in Exporters /\ sent[i].count \in Nat
    <3>1. \A i \in 1..Len(sent) : sent[i] \in Message
      BY ElementOfSeq DEF ExporterShape
    <3>2. \A i \in 1..Len(sent) : sent[i].from \in Exporters /\ sent[i].count \in Nat
      BY <3>1 DEF Message
    <3>3. /\ Len(sent) \in Nat /\ DOMAIN sent = 1..Len(sent) /\ DOMAIN sent' = 1..N
          /\ sent'[N] = m /\ \A i \in 1..Len(sent) : sent'[i] = sent[i] /\ i # N
      BY <2>1, <2>2, PlacesAfterSend
    <3> QED
      BY <2>2, <3>2, <3>3
  <2>4. /\ m.from = e /\ m.epoch = epoch[e] /\ m.count = records[e] /\ epoch' = epoch
        /\ \A x \in Exporters : records'[x] \in Nat /\ records[x] \in Nat /\ epoch[x] \in Nat
        /\ \A x \in Exporters : records'[x] = records[x] \/ x = e
        /\ records'[e] >= records[e]
        /\ (\E s \in DOMAIN m.sets : m.sets[s].kind = "data") => records'[e] > records[e]
    BY <2>1 DEF Sends, ExporterShape
  <2>5. /\ \A i \in 1..Len(sent) : HasData(i)' <=> HasData(i)
        /\ HasData(N)' => records'[e] > records[e]
    BY <2>3, <2>4 DEF HasData
  <2>6. ASSUME NEW n \in 1..Len(sent)
        PROVE  LET x == sent[n] IN
               /\ x.epoch <= epoch[x.from]
               /\ x.epoch = epoch[x.from] => x.count <= records'[x.from]
               /\ x.epoch = epoch[x.from] /\ HasData(n) => x.count < records'[x.from]
               /\ \A k \in 1..n - 1 :
                    sent[k].from = x.from /\ sent[k].epoch = x.epoch /\ HasData(k) =>
                      sent[k].count < x.count
    <3>1. n \in DOMAIN sent /\ sent[n].from \in Exporters /\ sent[n].count \in Nat
      BY <2>3
    <3>2. records[sent[n].from] <= records'[sent[n].from]
      BY <2>4, <3>1
    <3>3. /\ sent[n].epoch <= epoch[sent[n].from]
          /\ sent[n].epoch = epoch[sent[n].from] => sent[n].count <= records[sent[n].from]
          /\ sent[n].epoch = epoch[sent[n].from] /\ HasData(n) =>
               sent[n].count < records[sent[n].from]
          /\ \A k \in 1..n - 1 :
               sent[k].from = sent[n].from /\ sent[k].epoch = sent[n].epoch /\ HasData(k) =>
                 sent[k].count < sent[n].count
      BY <3>1 DEF CountsInv
    <3> QED
      BY <2>4, <3>1, <3>2, <3>3
  <2>7. ASSUME NEW k \in 1..Len(sent), sent[k].from = e, sent[k].epoch = epoch[e], HasData(k)
        PROVE  sent[k].count < records[e]
    BY <2>3, <2>7 DEF CountsInv
  <2>8. ASSUME NEW n \in 1..N
        PROVE  LET x == sent'[n] IN
               /\ x.epoch <= epoch'[x.from]
               /\ x.epoch = epoch'[x.from] => x.count <= records'[x.from]
               /\ x.epoch = epoch'[x.from] /\ HasData(n)' => x.count < records'[x.from]
               /\ \A k \in 1..n - 1 :
                    sent'[k].from = x.from /\ sent'[k].epoch = x.epoch /\ HasData(k)' =>
                      sent'[k].count < x.count
    <3>1. CASE n = N
      BY <2>3, <2>4, <2>5, <2>7, <3>1
    <3>2. CASE n \in 1..Len(sent)
      <4>1. \A k \in 1..n - 1 : k \in 1..Len(sent)
        BY <2>3, <3>2
      <4> QED
        BY <2>3, <2>4, <2>5, <2>6, <3>2, <4>1
    <3> QED
      BY <2>3, <3>1, <3>2
  <2> QED
    BY <2>3, <2>8 DEF CountsInv
<1>2. CASE Restart(e)
  <2>1. sent' = sent /\ epoch' = [epoch EXCEPT ![e] = epoch[e] + 1]
        /\ records' = [records EXCEPT ![e] = 0]
    BY <1>2 DEF Restart
  <2>2. \A n \in DOMAIN sent : sent[n].from \in Exporters /\ sent[n].epoch \in Nat
    <3>1. \A n \in DOMAIN sent : sent[n] \in Message
      BY ElementOfSeq, LenProperties DEF ExporterShape
    <3> QED
      BY <3>1 DEF Message
  <2>3. /\ \A x \in Exporters : epoch[x] \in Nat
        /\ \A x \in Exporters \ {e} : epoch'[x] = epoch[x] /\ records'[x] = records[x]
        /\ epoch'[e] = epoch[e] + 1
    BY <2>1 DEF ExporterShape
  <2>4. ASSUME NEW n \in DOMAIN sent
        PROVE  /\ sent[n].epoch <= epoch'[sent[n].from]
               /\ sent[n].epoch = epoch'[sent[n].from] =>
                    sent[n].from # e /\ sent[n].epoch = epoch[sent[n].from]
    BY <2>2, <2>3 DEF CountsInv
  <2> QED
    BY <2>1, <2>2, <2>3, <2>4 DEF CountsInv, HasData
<1> QED
  BY <1>1, <1>2

(* The layout in force is the one announced last, and is what a message is written *)
(* with until it announces another one.                                            *)
LEMMA SendKeepsLayouts ==
  ASSUME ExporterShape, InForceInv, WrittenInv, NEW e \in Exporters, Send(e)
  PROVE  InForceInv' /\ WrittenInv'
<1>1. PICK m \in Message, t \in Tids, l \in AllLayouts : Sends(e, m, t, l)
  BY SendEffect
<1>2. PICK N : N = Len(sent) + 1
  OBVIOUS
<1>3. /\ N \in Nat /\ sent'[N] = m
      /\ \A at \in Places :
           /\ at \in Places' /\ at.msg \in Nat /\ at.msg < N
           /\ sent'[at.msg] = sent[at.msg] /\ SetAt(at)' = SetAt(at)
  <2>1. Len(sent) \in Nat /\ sent'[N] = m
    BY <1>1, <1>2, PlacesAfterSend
  <2>2. \A at \in Places :
          /\ at \in Places' /\ at.msg \in 1..Len(sent) /\ at.msg < N
          /\ sent'[at.msg] = sent[at.msg] /\ SetAt(at)' = SetAt(at)
    BY <1>1, <1>2, PlacesAfterSend
  <2> QED
    BY <1>2, <2>1, <2>2
<1>4. \A at \in Places' :
        at \in Places \/ (at.msg = N /\ at.set \in DOMAIN m.sets /\ SetAt(at)' = m.sets[at.set])
  BY <1>1, <1>2, PlacesAfterSend
<1>5. \A s \in DOMAIN m.sets : [msg |-> N, set |-> s] \in Places'
  BY <1>1, <1>2, PlacesAfterSend
<1>6. /\ m.from = e /\ m.epoch = epoch[e] /\ epoch' = epoch
      /\ \A s \in DOMAIN m.sets :
           /\ m.sets[s].tid = t
           /\ m.sets[s].layout =
                IF \E r \in 1..s : m.sets[r].kind = "template" THEN l ELSE inForce[e][t]
      /\ \A x \in Exporters, u \in Tids :
           inForce'[x][u] = IF x = e /\ u = t /\ HasTemplate(m) THEN l ELSE inForce[x][u]
      /\ DOMAIN m.sets = 1..Len(m.sets) /\ Len(m.sets) \in Nat
  <2>1. m.sets \in Seq(SetType)
    BY DEF Message
  <2> QED
    BY <1>1, <2>1, LenProperties DEF Sends
<1>7. \A s \in DOMAIN m.sets : m.sets[s].kind = "template" => m.sets[s].layout = l
  BY <1>6
\* What is announced where, after the step.
<1>8. /\ \A a \in Places : \A x, p, u : Announces(a, x, p, u)' <=> Announces(a, x, p, u)
      /\ \A a \in Places' \ Places : \A x, p, u :
           Announces(a, x, p, u)' <=>
             m.sets[a.set].kind = "template" /\ u = t /\ x = e /\ p = epoch[e]
  <2>1. ASSUME NEW a \in Places, NEW x, NEW p, NEW u
        PROVE  Announces(a, x, p, u)' <=> Announces(a, x, p, u)
    BY <1>3 DEF Announces
  <2>2. ASSUME NEW a \in Places' \ Places, NEW x, NEW p, NEW u
        PROVE  Announces(a, x, p, u)' <=>
                 m.sets[a.set].kind = "template" /\ u = t /\ x = e /\ p = epoch[e]
    <3>1. a.msg = N /\ a.set \in DOMAIN m.sets /\ SetAt(a)' = m.sets[a.set]
      BY <1>4
    <3> QED
      BY <1>3, <1>6, <3>1 DEF Announces
  <2> QED
    BY <2>1, <2>2
<1>9. \A a \in Places, b \in Places' \ Places : Before(a, b) /\ ~Before(b, a)
  BY <1>3, <1>4 DEF Before
<1>10. ASSUME NEW x \in Exporters, NEW u \in Tids, NEW a \in Places',
              IsLast(a, x, epoch[x], u, Places)'
       PROVE  inForce'[x][u] = SetAt(a)'.layout
  <2>1. Announces(a, x, epoch[x], u)' /\ \A b \in Places' : Announces(b, x, epoch[x], u)' => ~Before(a, b)
    BY <1>10 DEF IsLast
  <2>2. CASE a \in Places
    <3>1. ~(x = e /\ u = t /\ HasTemplate(m))
      <4> SUFFICES ASSUME x = e, u = t, HasTemplate(m)
                   PROVE  FALSE
        OBVIOUS
      <4>1. PICK s \in DOMAIN m.sets : m.sets[s].kind = "template"
        BY DEF HasTemplate
      <4>2. PICK b : b = [msg |-> N, set |-> s]
        OBVIOUS
      <4>3. b \in Places' \ Places /\ b.set = s
        BY <1>3, <1>5, <4>2
      <4>4. Announces(b, x, epoch[x], u)'
        BY <1>6, <1>8, <4>1, <4>3
      <4> QED
        BY <1>9, <2>1, <2>2, <4>3, <4>4
    <3>2. IsLast(a, x, epoch[x], u, Places)
      BY <1>3, <1>6, <1>8, <2>1, <2>2 DEF IsLast
    <3>3. inForce[x][u] = SetAt(a).layout
      BY <2>2, <3>2 DEF InForceInv
    <3> QED
      BY <1>3, <1>6, <2>2, <3>1, <3>3
  <2>3. CASE a \notin Places
    <3>1. a.set \in DOMAIN m.sets /\ SetAt(a)' = m.sets[a.set]
      BY <1>4, <2>3
    <3>2. m.sets[a.set].kind = "template" /\ u = t /\ x = e
      BY <1>6, <1>8, <2>1, <2>3
    <3> QED
      BY <1>6, <1>7, <3>1, <3>2 DEF HasTemplate
  <2> QED
    BY <2>2, <2>3
<1>11. ASSUME NEW at \in Places', SetAt(at)'.kind = "data", NEW a \in Places',
              IsLast(a, sent[at.msg].from, sent[at.msg].epoch, SetAt(at).tid,
                     {b \in Places : Before(b, at)})'
       PROVE  SetAt(at)'.layout = SetAt(a)'.layout
  <2>0. PICK x, p, u : x = sent'[at.msg].from /\ p = sent'[at.msg].epoch /\ u = SetAt(at)'.tid
    OBVIOUS
  <2>1. /\ Before(a, at) /\ Announces(a, x, p, u)'
        /\ \A b \in Places' : Before(b, at) /\ Announces(b, x, p, u)' => ~Before(a, b)
    BY <1>11, <2>0 DEF IsLast, Before
  <2>2. CASE at \in Places
    <3>1. a \in Places
      BY <1>9, <2>1, <2>2
    <3>2. /\ x = sent[at.msg].from /\ p = sent[at.msg].epoch /\ u = SetAt(at).tid
      BY <1>3, <2>0, <2>2
    <3>3. IsLast(a, sent[at.msg].from, sent[at.msg].epoch, SetAt(at).tid,
                 {b \in Places : Before(b, at)})
      BY <1>3, <1>8, <2>1, <3>1, <3>2 DEF IsLast
    <3> QED
      BY <1>3, <1>11, <2>2, <3>1, <3>3 DEF WrittenInv
  <2>3. CASE at \notin Places
    <3>1. at.msg = N /\ at.set \in DOMAIN m.sets /\ SetAt(at)' = m.sets[at.set]
      BY <1>4, <2>3
    <3>2. x = e /\ p = epoch[e] /\ u = t
      BY <1>3, <1>6, <2>0, <3>1
    <3>3. CASE \E r \in 1..at.set : m.sets[r].kind = "template"
      <4>1. PICK r \in 1..at.set : m.sets[r].kind = "template"
        BY <3>3
      <4>2. r \in DOMAIN m.sets /\ r < at.set
        <5>1. m.sets[at.set].kind = "data"
          BY <1>11, <3>1
        <5>2. r # at.set
          BY <4>1, <5>1
        <5> QED
          BY <1>6, <3>1, <4>1, <5>2
      <4>3. PICK b : b = [msg |-> N, set |-> r]
        OBVIOUS
      <4>4. b \in Places' \ Places /\ b.set = r /\ Before(b, at)
        BY <1>3, <1>5, <3>1, <4>2, <4>3 DEF Before
      <4>5. Announces(b, x, p, u)'
        BY <1>8, <3>2, <4>1, <4>4
      <4>6. a \notin Places
        BY <1>9, <2>1, <4>4, <4>5
      <4>7. /\ a.set \in DOMAIN m.sets /\ SetAt(a)' = m.sets[a.set]
            /\ m.sets[a.set].kind = "template"
        BY <1>4, <1>8, <2>1, <4>6
      <4>8. SetAt(at)'.layout = l
        BY <1>6, <3>1, <3>3
      <4> QED
        BY <1>7, <4>7, <4>8
    <3>4. CASE ~ \E r \in 1..at.set : m.sets[r].kind = "template"
      <4>1. a \in Places
        <5> SUFFICES ASSUME a \notin Places
                     PROVE  FALSE
          OBVIOUS
        <5>1. /\ a.msg = N /\ a.set \in DOMAIN m.sets
              /\ m.sets[a.set].kind = "template"
          BY <1>4, <1>8, <2>1
        <5>2. a.set < at.set
          BY <1>3, <2>1, <3>1, <5>1 DEF Before
        <5> QED
          BY <1>6, <3>1, <3>4, <5>1, <5>2
      <4>2. ASSUME NEW b \in Places, Announces(b, e, epoch[e], t)
            PROVE  ~Before(a, b)
        <5>1. b \in Places' /\ Announces(b, x, p, u)' /\ Before(b, at)
          BY <1>3, <1>8, <1>9, <2>3, <3>2, <4>2
        <5> QED
          BY <2>1, <5>1
      <4>3. IsLast(a, e, epoch[e], t, Places)
        BY <1>8, <2>1, <3>2, <4>1, <4>2 DEF IsLast
      <4>4. inForce[e][t] = SetAt(a).layout
        BY <4>1, <4>3 DEF InForceInv
      <4> QED
        BY <1>3, <1>6, <3>1, <3>4, <4>1, <4>4
    <3> QED
      BY <3>3, <3>4
  <2> QED
    BY <2>2, <2>3
<1> QED
  BY <1>10, <1>11 DEF InForceInv, WrittenInv

(* An exporter that has started again has announced nothing yet. *)
LEMMA RestartKeepsLayouts ==
  ASSUME ExporterShape, CountsInv, InForceInv, WrittenInv, NEW e \in Exporters, Restart(e)
  PROVE  InForceInv' /\ WrittenInv'
<1>1. /\ sent' = sent /\ epoch' = [epoch EXCEPT ![e] = epoch[e] + 1]
      /\ inForce' = [inForce EXCEPT ![e] = [t \in Tids |-> NoFields]]
  BY DEF Restart
<1>2. Places' = Places /\ \A at : SetAt(at)' = SetAt(at)
  BY <1>1 DEF Places, SetAt
<1>3. WrittenInv'
  BY <1>1, <1>2 DEF WrittenInv, IsLast, Announces, Before
<1>4. ASSUME NEW x \in Exporters, NEW t \in Tids, NEW a \in Places,
             IsLast(a, x, epoch[x], t, Places)'
      PROVE  inForce'[x][t] = SetAt(a).layout
  <2>1. CASE x = e
    <3>1. a.msg \in DOMAIN sent /\ sent[a.msg].from = e /\ sent[a.msg].epoch = epoch'[e]
      BY <1>1, <1>4, <2>1 DEF IsLast, Announces, Places
    <3>2. sent[a.msg].epoch <= epoch[e] /\ epoch'[e] = epoch[e] + 1 /\ epoch[e] \in Nat
      BY <1>1, <3>1 DEF CountsInv, ExporterShape
    <3> QED
      BY <3>1, <3>2
  <2>2. CASE x # e
    <3>1. epoch'[x] = epoch[x] /\ inForce'[x] = inForce[x]
      BY <1>1, <2>2 DEF ExporterShape
    <3>2. IsLast(a, x, epoch[x], t, Places)
      BY <1>1, <1>2, <1>4, <3>1 DEF IsLast, Announces
    <3> QED
      BY <3>1, <3>2 DEF InForceInv
  <2> QED
    BY <2>1, <2>2
<1>5. InForceInv'
  BY <1>2, <1>4 DEF InForceInv
<1> QED
  BY <1>3, <1>5

-------------------------------------------------------------------------------
(* The decoder *)

(* A decoder that has not gone through a set has no history to be wrong about. *)
LEMMA NoHistory ==
  ASSUME parsed = <<>>
  PROVE  TemplatesInv /\ YieldInv /\ IdsInv
<1>1. DOMAIN parsed = {}
  OBVIOUS
<1> QED
  BY <1>1 DEF TemplatesInv, YieldInv, IdsInv

(* The decoder changes nothing of the exporters. *)
LEMMA ExportersStay ==
  ASSUME ExporterShape, CountsInv, InForceInv, WrittenInv, UNCHANGED exporterVars
  PROVE  /\ ExporterShape' /\ CountsInv' /\ InForceInv' /\ WrittenInv'
         /\ Places' = Places /\ \A at : SetAt(at)' = SetAt(at) /\ Key(at)' = Key(at)
<1>1. Places' = Places /\ \A at : SetAt(at)' = SetAt(at) /\ Key(at)' = Key(at)
  BY DEF exporterVars, Places, SetAt, Key
<1>2. ExporterShape'
  BY <1>1 DEF exporterVars, ExporterShape
<1>3. CountsInv'
  BY DEF exporterVars, CountsInv, HasData
<1>4. InForceInv'
  BY <1>1 DEF exporterVars, InForceInv, IsLast, Announces
<1>5. WrittenInv'
  BY <1>1 DEF exporterVars, WrittenInv, IsLast, Announces
<1> QED
  BY <1>1, <1>2, <1>3, <1>4, <1>5

(* The data of a call is a sequence of sets that were sent. *)
LEMMA BatchIsPlaces ==
  ASSUME ExporterShape, NEW batch \in Batches
  PROVE  InBatch(batch) \in Seq(Places)
<1>1. PICK n \in 1..MaxBatch : batch \in [1..n -> DOMAIN sent]
  BY DEF Batches
<1>2. n \in Nat /\ DOMAIN batch = 1..n
  BY <1>1, IpfixAssumption
<1>3. ASSUME NEW i \in 1..n
      PROVE  SetsIn(batch[i]) \in Seq(Places)
  <2>1. PICK x : x = batch[i]
    OBVIOUS
  <2>2. x \in DOMAIN sent /\ x \in Nat /\ sent[x] \in Message
    BY <1>1, <2>1, LenProperties, ElementOfSeq DEF ExporterShape
  <2>3. sent[x].sets \in Seq(SetType)
    BY <2>2 DEF Message
  <2>4. Len(sent[x].sets) \in Nat /\ DOMAIN sent[x].sets = 1..Len(sent[x].sets)
    BY <2>3, LenProperties
  <2>5. \A s \in 1..Len(sent[x].sets) : [msg |-> x, set |-> s] \in Places
    BY <2>2, <2>4 DEF Places
  <2>6. SetsIn(x) = [s \in 1..Len(sent[x].sets) |-> [msg |-> x, set |-> s]]
    BY <2>4 DEF SetsIn
  <2>7. SetsIn(x) \in Seq(Places)
    BY <2>4, <2>5, <2>6, SeqDef
  <2> QED
    BY <2>1, <2>7
<1> DEFINE parts == [i \in 1..n |-> SetsIn(batch[i])]
<1>4. parts \in Seq(Seq(Places))
  BY <1>2, <1>3, SeqDef
<1>5. InBatch(batch) = FlattenSeq(parts)
  BY <1>2 DEF InBatch
<1> HIDE DEF parts
<1> QED
  BY <1>4, <1>5, FlattenKeepsType

(* A new call starts behind what the last one left. *)
LEMMA CallKeeps ==
  ASSUME IpfixInv, NEW batch \in Batches, Call(batch)
  PROVE  IpfixInv'
<1>1. /\ rest = <<>> /\ rest' = InBatch(batch) /\ ordinal' = 0 /\ calls' = calls + 1
      /\ UNCHANGED <<exporterVars, templates, parsed>>
  BY DEF Call
<1>2. /\ ExporterShape' /\ CountsInv' /\ InForceInv' /\ WrittenInv'
      /\ Places' = Places /\ \A at : SetAt(at)' = SetAt(at) /\ Key(at)' = Key(at)
  BY <1>1, ExportersStay DEF IpfixInv
<1>3. /\ parsed \in Seq(Entry) /\ Len(parsed) \in Nat /\ DOMAIN parsed = 1..Len(parsed)
      /\ calls \in Nat /\ \A i \in DOMAIN parsed : parsed[i] \in Entry /\ parsed[i].call <= calls
  BY LenProperties, ElementOfSeq DEF IpfixInv, DecoderShape
<1>4. \A i \in DOMAIN parsed : parsed[i].call \in Nat /\ parsed[i].call < calls'
  BY <1>1, <1>3 DEF Entry
<1>5. DecoderShape'
  <2>1. rest' \in Seq(Places)
    BY <1>1, BatchIsPlaces DEF IpfixInv
  <2>2. Entry' = Entry
    BY <1>2 DEF Entry
  <2> QED
    BY <1>1, <1>2, <1>3, <1>4, <2>1, <2>2 DEF IpfixInv, DecoderShape
<1>6. TemplatesInv'
  <2>1. \A j, k, n : LastTaken(j, k, n)' <=> LastTaken(j, k, n)
    BY <1>1, <1>2 DEF LastTaken, Takes
  <2> QED
    BY <1>1, <1>2, <2>1 DEF IpfixInv, TemplatesInv
<1>7. YieldInv'
  <2>1. \A i \in DOMAIN parsed : EndsItsCall(i) => EndsItsCall(i)'
    BY <1>1, <1>4 DEF EndsItsCall
  <2> QED
    BY <1>1, <1>2, <2>1 DEF IpfixInv, YieldInv
<1>8. IdsInv'
  BY <1>1, <1>4 DEF IpfixInv, IdsInv, exporterVars
<1> QED
  BY <1>2, <1>5, <1>6, <1>7, <1>8 DEF IpfixInv

(* A call that ends in an error leaves the history as it is. *)
LEMMA RefusedKeeps ==
  ASSUME IpfixInv, Refused
  PROVE  IpfixInv'
<1>1. /\ rest' = <<>>
      /\ UNCHANGED <<exporterVars, templates, ordinal, calls, parsed>>
  BY DEF Refused
<1>2. /\ ExporterShape' /\ CountsInv' /\ InForceInv' /\ WrittenInv'
      /\ Places' = Places /\ \A at : SetAt(at)' = SetAt(at) /\ Key(at)' = Key(at)
  BY <1>1, ExportersStay DEF IpfixInv
<1>3. DecoderShape'
  <2>1. rest' \in Seq(Places) /\ Entry' = Entry
    BY <1>1, <1>2, EmptySeq DEF Entry
  <2> QED
    BY <1>1, <1>2, <2>1 DEF IpfixInv, DecoderShape
<1>4. TemplatesInv'
  <2>1. \A j, k, n : LastTaken(j, k, n)' <=> LastTaken(j, k, n)
    BY <1>1, <1>2 DEF LastTaken, Takes
  <2> QED
    BY <1>1, <1>2, <2>1 DEF IpfixInv, TemplatesInv
<1>5. YieldInv'
  <2>1. \A i \in DOMAIN parsed : EndsItsCall(i) => EndsItsCall(i)'
    BY <1>1 DEF EndsItsCall
  <2> QED
    BY <1>1, <1>2, <2>1 DEF IpfixInv, YieldInv
<1>6. IdsInv'
  BY <1>1 DEF IpfixInv, IdsInv, exporterVars
<1> QED
  BY <1>2, <1>3, <1>4, <1>5, <1>6 DEF IpfixInv

\* What going through a set changes: the layout it was read with and the number of events
\* the caller took.
Decodes(used, y) ==
  /\ rest # <<>>
  /\ parsed' = Append(parsed, [at |-> Here, call |-> calls, used |-> used,
                               ids |-> Ids(Here.msg, y)])
  /\ ordinal' = ordinal + y
  /\ rest' \in {Tail(rest), <<>>}
  /\ UNCHANGED <<exporterVars, calls>>
DecodesTemplate(used, y) ==
  /\ SetAt(Here).kind = "template" /\ used = SetAt(Here).layout /\ y = 0
  /\ templates' = [k \in DOMAIN templates \cup {Key(Here)} |->
                     IF k = Key(Here) THEN used ELSE templates[k]]
DecodesData(used, y) ==
  /\ SetAt(Here).kind = "data" /\ used = Found(Here)
  /\ y <= EventsIn(SetAt(Here), used)
  /\ y = EventsIn(SetAt(Here), used) \/ rest' = <<>>
  /\ UNCHANGED templates

(* What was sent belongs to a domain and a template id. *)
LEMMA SentKeys ==
  ASSUME ExporterShape, NEW at \in Places
  PROVE  SetAt(at) \in SetType /\ Key(at) \in TemplateKeys
<1>1. at.msg \in DOMAIN sent /\ at.set \in DOMAIN sent[at.msg].sets
  BY DEF Places
<1>2. sent[at.msg] \in Message
  BY <1>1, LenProperties, ElementOfSeq DEF ExporterShape
<1>3. sent[at.msg].sets \in Seq(SetType) /\ sent[at.msg].from \in Exporters
  BY <1>2 DEF Message
<1>4. SetAt(at) \in SetType
  BY <1>1, <1>3, LenProperties, ElementOfSeq DEF SetAt
<1> QED
  BY <1>3, <1>4 DEF SetAt, SetType, Key, TemplateKeys, ExporterShape

(* And so does the set the decoder is at. *)
LEMMA HereIsSent ==
  ASSUME ExporterShape, DecoderShape, rest # <<>>
  PROVE  /\ Here \in Places /\ Tail(rest) \in Seq(Places) /\ SetAt(Here) \in SetType
         /\ Key(Here) \in TemplateKeys /\ Found(Here) \in AllLayouts
<1>1. Here \in Places /\ Tail(rest) \in Seq(Places)
  BY HeadTailProperties DEF Here, DecoderShape
<1>2. SetAt(Here) \in SetType /\ Key(Here) \in TemplateKeys
  BY <1>1, SentKeys
<1>3. Found(Here) \in AllLayouts
  BY DEF Found, DecoderShape, AllLayouts
<1> QED
  BY <1>1, <1>2, <1>3

(* The number of events a data set is read as. *)
LEMMA EventsAreNumbers ==
  ASSUME NEW set \in SetType, NEW layout \in AllLayouts
  PROVE  EventsIn(set, layout) \in Nat
<1>1. /\ \A l \in AllLayouts : l.size \in Nat
      /\ set.rows \in Nat /\ set.layout \in AllLayouts
  BY IpfixAssumption DEF AllLayouts, NoFields, SetType
<1>2. PICK octets : octets = set.rows * set.layout.size
  OBVIOUS
<1>3. octets \in Nat
  BY <1>1, <1>2
<1>4. RecordsIn(octets, layout) \in Nat
  BY <1>1, <1>3 DEF RecordsIn
<1> QED
  BY <1>2, <1>4 DEF EventsIn

LEMMA DecodeEffect ==
  ASSUME ExporterShape, DecoderShape, TemplateSet \/ DataSet \/ Abandoned
  PROVE  \E used \in AllLayouts, y \in Nat :
           Decodes(used, y) /\ (DecodesTemplate(used, y) \/ DecodesData(used, y))
<1>0. rest # <<>> /\ SetHere = SetAt(Here)
  BY DEF TemplateSet, DataSet, Abandoned, SetHere, SetAt
<1>1. SetAt(Here) \in SetType /\ Found(Here) \in AllLayouts
  BY <1>0, HereIsSent
<1>2. EventsIn(SetAt(Here), Found(Here)) \in Nat
  BY <1>1, EventsAreNumbers
<1>3. CASE TemplateSet
  <2>1. SetAt(Here).layout \in AllLayouts
    BY <1>1 DEF SetType
  <2>2. Decodes(SetAt(Here).layout, 0) /\ DecodesTemplate(SetAt(Here).layout, 0)
    BY <1>0, <1>3 DEF TemplateSet, Step, OrdinalAfter, Decodes, DecodesTemplate
  <2> QED
    BY <2>1, <2>2
<1>4. CASE DataSet
  <2>1. /\ Decodes(Found(Here), EventsIn(SetAt(Here), Found(Here)))
        /\ DecodesData(Found(Here), EventsIn(SetAt(Here), Found(Here)))
    BY <1>0, <1>2, <1>4 DEF DataSet, Step, OrdinalAfter, Decodes, DecodesData
  <2> QED
    BY <1>1, <1>2, <2>1
<1>5. CASE Abandoned
  <2>1. PICK y \in 1..EventsIn(SetAt(Here), Found(Here)) : Step(Found(Here), y)
    BY <1>0, <1>5 DEF Abandoned
  <2>2. y \in Nat /\ y <= EventsIn(SetAt(Here), Found(Here))
    BY <1>2
  <2>3. Decodes(Found(Here), y) /\ DecodesData(Found(Here), y)
    BY <1>0, <1>5, <2>1, <2>2 DEF Abandoned, Step, OrdinalAfter, Decodes, DecodesData
  <2> QED
    BY <1>1, <2>2, <2>3
<1> QED
  BY <1>3, <1>4, <1>5

(* What the history holds after a step. *)
LEMMA HistoryAfter ==
  ASSUME ExporterShape, DecoderShape, NEW used \in AllLayouts, NEW y \in Nat,
         Decodes(used, y)
  PROVE  LET N == Len(parsed) + 1 IN
         /\ N \in Nat /\ Len(parsed') = N /\ DOMAIN parsed' = 1..N
         /\ DOMAIN parsed = 1..N - 1
         /\ \A i \in 1..N - 1 : parsed'[i] = parsed[i] /\ parsed[i] \in Entry
         /\ parsed'[N] \in Entry /\ parsed' \in Seq(Entry)
         /\ parsed'[N] = [at |-> Here, call |-> calls, used |-> used,
                          ids |-> Ids(Here.msg, y)]
<1>1. PICK x : x = [at |-> Here, call |-> calls, used |-> used, ids |-> Ids(Here.msg, y)]
  OBVIOUS
<1>2. rest # <<>> /\ parsed' = Append(parsed, x)
  BY <1>1 DEF Decodes
<1>3. Here \in Places
  BY <1>2, HereIsSent
<1>4. Ids(Here.msg, y) \in Seq(Nat \X Nat)
  <2>1. PICK m : m = Here.msg
    OBVIOUS
  <2>2. sent[m] \in Message
    BY <1>3, <2>1, LenProperties, ElementOfSeq DEF Places, ExporterShape
  <2>3. sent[m].count % SeqSpace \in Nat
    BY <2>2, IpfixAssumption DEF Message
  <2>4. \A k \in 1..y : <<sent[m].count % SeqSpace, ordinal + k>> \in Nat \X Nat
    BY <2>3 DEF DecoderShape
  <2> QED
    BY <2>1, <2>4, SeqDef DEF Ids
<1>5. x \in Entry
  BY <1>1, <1>3, <1>4 DEF Entry, DecoderShape
<1>6. parsed \in Seq(Entry) /\ Len(parsed) \in Nat /\ DOMAIN parsed = 1..Len(parsed)
  BY LenProperties DEF DecoderShape
<1>7. \A i \in 1..Len(parsed) : parsed[i] \in Entry
  BY <1>6, ElementOfSeq
<1>8. /\ parsed' \in Seq(Entry) /\ Len(parsed') = Len(parsed) + 1
      /\ \A i \in 1..Len(parsed) : parsed'[i] = parsed[i]
      /\ parsed'[Len(parsed) + 1] = x
  BY <1>2, <1>5, <1>6, AppendProperties
<1>9. DOMAIN parsed' = 1..Len(parsed')
  BY <1>8, LenProperties
<1> QED
  BY <1>1, <1>5, <1>6, <1>7, <1>8, <1>9

(* Going through a set adds an entry about a set that was sent, in the open call. *)
LEMMA DecodeKeepsShape ==
  ASSUME ExporterShape, DecoderShape, NEW used \in AllLayouts, NEW y \in Nat,
         Decodes(used, y), DecodesTemplate(used, y) \/ DecodesData(used, y)
  PROVE  DecoderShape'
<1>1. PICK N : N = Len(parsed) + 1
  OBVIOUS
<1>2. /\ N \in Nat /\ Len(parsed') = N /\ DOMAIN parsed' = 1..N /\ DOMAIN parsed = 1..N - 1
      /\ \A i \in 1..N - 1 : parsed'[i] = parsed[i]
      /\ parsed' \in Seq(Entry)
      /\ parsed'[N] = [at |-> Here, call |-> calls, used |-> used, ids |-> Ids(Here.msg, y)]
  BY <1>1, HistoryAfter
<1>3. /\ rest # <<>> /\ ordinal' = ordinal + y /\ rest' \in {Tail(rest), <<>>}
      /\ UNCHANGED <<exporterVars, calls>>
  BY DEF Decodes
<1>4. Places' = Places /\ Entry' = Entry /\ \A at : SetAt(at)' = SetAt(at)
  <2>1. Places' = Places /\ \A at : SetAt(at)' = SetAt(at)
    BY <1>3 DEF exporterVars, Places, SetAt
  <2> QED
    BY <2>1 DEF Entry
<1>5. /\ Tail(rest) \in Seq(Places) /\ SetAt(Here) \in SetType /\ Key(Here) \in TemplateKeys
      /\ rest' \in Seq(Places)
  BY <1>3, HereIsSent, EmptySeq
<1>6. /\ DOMAIN templates' \subseteq TemplateKeys
      /\ \A k \in DOMAIN templates' : templates'[k] \in AllLayouts
  <2>1. CASE DecodesTemplate(used, y)
    BY <1>5, <2>1 DEF DecodesTemplate, DecoderShape
  <2>2. CASE DecodesData(used, y)
    BY <2>2 DEF DecodesData, DecoderShape
  <2> QED
    BY <2>1, <2>2
<1>7. ordinal' \in Nat /\ calls' \in Nat /\ calls' = calls /\ calls # 0
  BY <1>3 DEF DecoderShape
<1>8. /\ SetAt(Here).kind \in {"template", "data"}
      /\ Ids(Here.msg, y) # <<>> => SetAt(Here).kind = "data"
  <2>1. CASE DecodesTemplate(used, y)
    <3>1. Ids(Here.msg, y) = <<>>
      BY <2>1 DEF DecodesTemplate, Ids
    <3> QED
      BY <2>1, <3>1 DEF DecodesTemplate
  <2>2. CASE DecodesData(used, y)
    BY <2>2 DEF DecodesData
  <2> QED
    BY <2>1, <2>2
<1>9. ASSUME NEW i \in 1..N
      PROVE  /\ parsed'[i].call <= calls
             /\ SetAt(parsed'[i].at).kind \in {"template", "data"}
             /\ parsed'[i].ids # <<>> => SetAt(parsed'[i].at).kind = "data"
  <2>1. CASE i = N
    BY <1>2, <1>7, <1>8, <2>1
  <2>2. CASE i # N
    <3>1. i \in 1..N - 1
      BY <1>2, <2>2
    <3> QED
      BY <1>2, <3>1 DEF DecoderShape
  <2> QED
    BY <2>1, <2>2
<1> QED
  BY <1>2, <1>4, <1>5, <1>6, <1>7, <1>9 DEF DecoderShape

(* A template set becomes the last that was taken under its key, and a data set is read *)
(* with what the last one left.                                                         *)
LEMMA DecodeKeepsTemplates ==
  ASSUME ExporterShape, DecoderShape, TemplatesInv, NEW used \in AllLayouts, NEW y \in Nat,
         Decodes(used, y), DecodesTemplate(used, y) \/ DecodesData(used, y)
  PROVE  TemplatesInv'
<1>1. PICK N : N = Len(parsed) + 1
  OBVIOUS
<1>2. /\ N \in Nat /\ Len(parsed') = N /\ DOMAIN parsed' = 1..N /\ DOMAIN parsed = 1..N - 1
      /\ Len(parsed) = N - 1
      /\ \A i \in 1..N - 1 : parsed'[i] = parsed[i] /\ i # N
      /\ parsed'[N] = [at |-> Here, call |-> calls, used |-> used, ids |-> Ids(Here.msg, y)]
  BY <1>1, HistoryAfter
<1>3. rest # <<>> /\ UNCHANGED exporterVars
  BY DEF Decodes
<1>4. \A at : SetAt(at)' = SetAt(at) /\ Key(at)' = Key(at)
  BY <1>3 DEF exporterVars, SetAt, Key
<1>5. Key(Here) \in TemplateKeys
  BY <1>3, HereIsSent
<1>6. /\ \A j \in 1..N - 1 : \A k : Takes(j, k)' <=> Takes(j, k)
      /\ \A k : Takes(N, k)' <=> SetAt(Here).kind = "template" /\ Key(Here) = k
  BY <1>2, <1>4 DEF Takes
<1>7. \A n \in 0..N - 1 : \A j, k : LastTaken(j, k, n)' <=> LastTaken(j, k, n)
  <2>1. ASSUME NEW n \in 0..N - 1, NEW j, NEW k
        PROVE  LastTaken(j, k, n)' <=> LastTaken(j, k, n)
    <3>1. \A l \in 1..n : l \in 1..N - 1
      BY <1>2
    <3> QED
      BY <1>6, <3>1 DEF LastTaken
  <2> QED
    BY <2>1
<1>8. ASSUME NEW j \in 1..N, NEW k \in TemplateKeys, LastTaken(j, k, N)'
      PROVE  k \in DOMAIN templates' /\ templates'[k] = SetAt(parsed'[j].at).layout
  <2>0. /\ Takes(j, k)' /\ \A l \in 1..N : Takes(l, k)' => l <= j
    BY <1>8 DEF LastTaken
  <2>1. CASE Takes(N, k)'
    <3>1. j = N
      BY <1>2, <2>0, <2>1
    <3>2. SetAt(Here).kind = "template" /\ Key(Here) = k
      BY <1>6, <2>1
    <3>3. DecodesTemplate(used, y)
      BY <3>2 DEF DecodesData
    <3> QED
      BY <1>2, <3>1, <3>2, <3>3 DEF DecodesTemplate
  <2>2. CASE ~Takes(N, k)'
    <3>1. j \in 1..N - 1
      BY <1>2, <2>0, <2>2
    <3>2. LastTaken(j, k, N - 1)
      <4>1. \A l \in 1..N - 1 : l \in 1..N
        BY <1>2
      <4> QED
        BY <1>6, <2>0, <3>1, <4>1 DEF LastTaken
    <3>3. k \in DOMAIN templates /\ templates[k] = SetAt(parsed[j].at).layout
      BY <1>2, <3>1, <3>2 DEF TemplatesInv
    <3>4. k \in DOMAIN templates' /\ templates'[k] = templates[k]
      <4>1. CASE DecodesTemplate(used, y)
        <5>1. k # Key(Here)
          BY <1>6, <2>2, <4>1 DEF DecodesTemplate
        <5> QED
          BY <3>3, <4>1, <5>1 DEF DecodesTemplate
      <4>2. CASE DecodesData(used, y)
        BY <3>3, <4>2 DEF DecodesData
      <4> QED
        BY <4>1, <4>2
    <3> QED
      BY <1>2, <3>1, <3>3, <3>4
  <2> QED
    BY <2>1, <2>2
<1>9. ASSUME NEW i \in 1..N, NEW j \in 1..N, NEW k \in TemplateKeys, k = Key(parsed'[i].at),
             SetAt(parsed'[i].at).kind = "data", LastTaken(j, k, i - 1)'
      PROVE  parsed'[i].used = SetAt(parsed'[j].at).layout
  <2>1. i - 1 \in 0..N - 1 /\ LastTaken(j, k, i - 1)
    <3>1. i - 1 \in 0..N - 1
      BY <1>2
    <3> QED
      BY <1>7, <1>9, <3>1
  <2>2. j \in 1..N - 1 /\ j \in 1..i - 1
    BY <1>2, <2>1 DEF LastTaken
  <2>3. CASE i = N
    <3>1. DecodesData(used, y) /\ k = Key(Here)
      BY <1>2, <1>9, <2>3 DEF DecodesTemplate
    <3>2. k \in DOMAIN templates /\ templates[k] = SetAt(parsed[j].at).layout
      BY <1>2, <2>1, <2>2, <2>3 DEF TemplatesInv
    <3> QED
      BY <1>2, <2>2, <2>3, <3>1, <3>2 DEF DecodesData, Found
  <2>4. CASE i # N
    <3>1. i \in 1..N - 1
      BY <1>2, <2>4
    <3>2. parsed[i].used = SetAt(parsed[j].at).layout
      BY <1>2, <1>9, <2>1, <2>2, <3>1 DEF TemplatesInv
    <3> QED
      BY <1>2, <2>2, <3>1, <3>2
  <2> QED
    BY <2>3, <2>4
<1>10. \A i \in 1..N : Key(parsed'[i].at) \in TemplateKeys
  <2>1. \A at \in Places : Key(at) \in TemplateKeys
    BY SentKeys
  <2>2. \A i \in 1..N : parsed'[i].at \in Places
    <3>1. parsed' \in Seq(Entry)
      BY HistoryAfter
    <3>2. \A i \in 1..N : parsed'[i] \in Entry
      BY <1>2, <3>1, ElementOfSeq, LenProperties
    <3> QED
      BY <3>2 DEF Entry
  <2> QED
    BY <2>1, <2>2
<1>11. ASSUME NEW i \in DOMAIN parsed', NEW j \in DOMAIN parsed',
              SetAt(parsed[i].at)'.kind = "data", LastTaken(j, Key(parsed[i].at), i - 1)'
       PROVE  parsed'[i].used = SetAt(parsed[j].at)'.layout
  <2>1. PICK k : k = Key(parsed'[i].at)
    OBVIOUS
  <2>2. k \in TemplateKeys /\ LastTaken(j, k, i - 1)'
    BY <1>2, <1>4, <1>10, <1>11, <2>1 DEF LastTaken, Takes
  <2> QED
    BY <1>2, <1>4, <1>9, <1>11, <2>1, <2>2
<1>12. \A j \in DOMAIN parsed' : \A k \in TemplateKeys :
         LastTaken(j, k, Len(parsed))' =>
           k \in DOMAIN templates' /\ templates'[k] = SetAt(parsed[j].at)'.layout
  <2>1. ASSUME NEW j \in DOMAIN parsed', NEW k \in TemplateKeys, LastTaken(j, k, Len(parsed))'
        PROVE  k \in DOMAIN templates' /\ templates'[k] = SetAt(parsed[j].at)'.layout
    <3>1. LastTaken(j, k, N)'
      BY <1>2, <2>1 DEF LastTaken
    <3> QED
      BY <1>2, <1>4, <1>8, <2>1, <3>1
  <2> QED
    BY <2>1
<1> QED
  BY <1>11, <1>12 DEF TemplatesInv

(* Only the last set of a call may yield less than it holds. *)
LEMMA DecodeKeepsYield ==
  ASSUME ExporterShape, DecoderShape, YieldInv, NEW used \in AllLayouts, NEW y \in Nat,
         Decodes(used, y), DecodesTemplate(used, y) \/ DecodesData(used, y)
  PROVE  YieldInv'
<1>1. PICK N : N = Len(parsed) + 1
  OBVIOUS
<1>2. /\ N \in Nat /\ Len(parsed') = N /\ DOMAIN parsed' = 1..N /\ DOMAIN parsed = 1..N - 1
      /\ Len(parsed) = N - 1
      /\ \A i \in 1..N - 1 : parsed'[i] = parsed[i] /\ i # N
      /\ parsed'[N] = [at |-> Here, call |-> calls, used |-> used, ids |-> Ids(Here.msg, y)]
  BY <1>1, HistoryAfter
<1>3. rest # <<>> /\ UNCHANGED <<exporterVars, calls>>
  BY DEF Decodes
<1>4. \A at : SetAt(at)' = SetAt(at)
  BY <1>3 DEF exporterVars, SetAt
<1>5. \A i \in 1..N - 1 : EndsItsCall(i) => EndsItsCall(i)'
  <2>1. ASSUME NEW i \in 1..N - 1, EndsItsCall(i)
        PROVE  parsed'[i + 1].call > parsed'[i].call
    <3>1. CASE i = N - 1
      <4>1. parsed[i].call < calls /\ i + 1 = N
        BY <1>2, <1>3, <2>1, <3>1 DEF EndsItsCall
      <4> QED
        BY <1>2, <4>1
    <3>2. CASE i # N - 1
      <4>1. i + 1 \in 1..N - 1
        BY <1>2, <3>2
      <4> QED
        BY <1>2, <2>1, <3>2, <4>1 DEF EndsItsCall
    <3> QED
      BY <3>1, <3>2
  <2> QED
    BY <1>2, <2>1 DEF EndsItsCall
<1>6. ASSUME NEW i \in 1..N, SetAt(parsed'[i].at).kind = "data"
      PROVE  LET n == EventsIn(SetAt(parsed'[i].at), parsed'[i].used) IN
             /\ Len(parsed'[i].ids) <= n
             /\ Len(parsed'[i].ids) = n \/ EndsItsCall(i)'
  <2>1. CASE i = N
    <3>1. DecodesData(used, y)
      BY <1>2, <1>6, <2>1 DEF DecodesTemplate
    <3>2. Len(Ids(Here.msg, y)) = y
      BY DEF Ids
    <3>3. rest' = <<>> => EndsItsCall(i)'
      BY <1>2, <2>1 DEF EndsItsCall
    <3> QED
      BY <1>2, <2>1, <3>1, <3>2, <3>3 DEF DecodesData
  <2>2. CASE i # N
    <3>1. i \in 1..N - 1
      BY <1>2, <2>2
    <3> QED
      BY <1>2, <1>5, <1>6, <3>1 DEF YieldInv
  <2> QED
    BY <2>1, <2>2
<1> QED
  BY <1>2, <1>4, <1>6 DEF YieldInv

(* The ids of a set are behind those its call has yielded before. *)
LEMMA DecodeKeepsIds ==
  ASSUME ExporterShape, DecoderShape, IdsInv, NEW used \in AllLayouts, NEW y \in Nat,
         Decodes(used, y)
  PROVE  IdsInv'
<1>1. PICK N : N = Len(parsed) + 1
  OBVIOUS
<1>2. /\ N \in Nat /\ DOMAIN parsed' = 1..N /\ DOMAIN parsed = 1..N - 1
      /\ \A i \in 1..N - 1 : parsed'[i] = parsed[i] /\ i # N /\ parsed[i] \in Entry
      /\ parsed'[N] = [at |-> Here, call |-> calls, used |-> used, ids |-> Ids(Here.msg, y)]
  BY <1>1, HistoryAfter
<1>3. /\ ordinal' = ordinal + y /\ ordinal \in Nat /\ sent' = sent /\ calls' = calls
  BY DEF Decodes, exporterVars, DecoderShape
<1>4. PICK x : x = parsed'[N]
  OBVIOUS
<1>5. /\ x.at = Here /\ x.call = calls /\ DOMAIN x.ids = 1..y
      /\ \A k \in 1..y : x.ids[k] = <<sent[Here.msg].count % SeqSpace, ordinal + k>>
  BY <1>2, <1>4 DEF Ids
<1>6. ASSUME NEW i \in 1..N - 1, NEW k \in DOMAIN parsed[i].ids
      PROVE  parsed[i].ids[k][2] \in Nat
  <2>1. parsed[i].ids \in Seq(Nat \X Nat)
    BY <1>2 DEF Entry
  <2>2. parsed[i].ids[k] \in Nat \X Nat
    BY <2>1, LenProperties, ElementOfSeq
  <2> QED
    BY <2>2
<1>7. ASSUME NEW i \in 1..N, NEW k \in DOMAIN parsed'[i].ids
      PROVE  LET id == parsed'[i].ids[k] IN
             /\ id[1] = sent[parsed'[i].at.msg].count % SeqSpace
             /\ parsed'[i].call = calls => id[2] <= ordinal'
             /\ \A l \in DOMAIN parsed'[i].ids : parsed'[i].ids[l][2] = id[2] => l = k
             /\ \A j \in 1..i - 1 : parsed'[j].call = parsed'[i].call =>
                  \A l \in DOMAIN parsed'[j].ids : parsed'[j].ids[l][2] < id[2]
  <2>1. CASE i = N
    <3>1. /\ parsed'[i] = x /\ k \in 1..y /\ x.ids[k][1] = sent[Here.msg].count % SeqSpace
          /\ x.ids[k][2] = ordinal + k
          /\ \A l \in 1..y : x.ids[l][2] = ordinal + l
      BY <1>4, <1>5, <1>7, <2>1
    <3>2. ASSUME NEW j \in 1..i - 1, parsed'[j].call = calls,
                 NEW l \in DOMAIN parsed'[j].ids
          PROVE  parsed'[j].ids[l][2] < ordinal + k
      <4>1. j \in 1..N - 1 /\ parsed'[j] = parsed[j]
        BY <1>2, <2>1
      <4>2. parsed[j].ids[l][2] <= ordinal
        BY <1>2, <3>2, <4>1 DEF IdsInv
      <4>3. parsed[j].ids[l][2] \in Nat
        BY <1>6, <3>2, <4>1
      <4> QED
        BY <1>3, <3>1, <4>1, <4>2, <4>3
    <3>3. x.ids[k][2] <= ordinal'
      BY <1>3, <3>1
    <3>4. \A l \in DOMAIN x.ids : x.ids[l][2] = x.ids[k][2] => l = k
      BY <1>3, <1>5, <3>1
    <3> QED
      BY <1>5, <3>1, <3>2, <3>3, <3>4
  <2>2. CASE i # N
    <3>1. i \in 1..N - 1 /\ parsed'[i] = parsed[i]
      BY <1>2, <2>2
    <3>2. \A j \in 1..i - 1 : parsed'[j] = parsed[j]
      BY <1>2, <3>1
    <3>3. /\ parsed[i].ids[k][1] = sent[parsed[i].at.msg].count % SeqSpace
          /\ parsed[i].call = calls => parsed[i].ids[k][2] <= ordinal
          /\ \A l \in DOMAIN parsed[i].ids :
               parsed[i].ids[l][2] = parsed[i].ids[k][2] => l = k
          /\ \A j \in 1..i - 1 : parsed[j].call = parsed[i].call =>
               \A l \in DOMAIN parsed[j].ids : parsed[j].ids[l][2] < parsed[i].ids[k][2]
      BY <1>2, <1>7, <3>1 DEF IdsInv
    <3>4. parsed[i].ids[k][2] <= ordinal => parsed[i].ids[k][2] <= ordinal'
      BY <1>3, <1>6, <1>7, <3>1
    <3> QED
      BY <3>1, <3>2, <3>3, <3>4
  <2> QED
    BY <2>1, <2>2
<1> QED
  BY <1>2, <1>3, <1>7 DEF IdsInv

-------------------------------------------------------------------------------
(* Theorems *)

LEMMA InitIsConsistent ==
  ASSUME IpfixInit
  PROVE  IpfixInv
<1>1. sent = <<>> /\ parsed = <<>> /\ rest = <<>> /\ DOMAIN sent = {} /\ DOMAIN parsed = {}
  BY DEF IpfixInit
<1>2. Places = {}
  BY <1>1 DEF Places
<1>3. ExporterShape
  BY <1>1, <1>2, EmptySeq DEF IpfixInit, ExporterShape, AllLayouts
<1>4. DecoderShape
  BY <1>1, EmptySeq DEF IpfixInit, DecoderShape
<1>5. CountsInv
  BY <1>1 DEF CountsInv
<1>6. InForceInv /\ WrittenInv
  BY <1>2 DEF InForceInv, WrittenInv
<1>7. TemplatesInv /\ YieldInv /\ IdsInv
  BY <1>1, NoHistory
<1> QED
  BY <1>3, <1>4, <1>5, <1>6, <1>7 DEF IpfixInv

LEMMA ExporterStepKeeps ==
  ASSUME IpfixInv, NEW e \in Exporters, Send(e) \/ Restart(e)
  PROVE  IpfixInv'
<1>1. ExporterShape' /\ DecoderShape'
  BY ExportersKeepShape DEF IpfixInv
<1>2. CountsInv'
  BY ExportersKeepCounts DEF IpfixInv
<1>3. InForceInv' /\ WrittenInv'
  BY SendKeepsLayouts, RestartKeepsLayouts DEF IpfixInv
<1>4. TemplatesInv' /\ YieldInv' /\ IdsInv'
  <2>1. calls = 0 /\ UNCHANGED decoderVars
    BY DEF Send, Restart
  <2>2. parsed' = <<>>
    BY <2>1 DEF decoderVars, IpfixInv, DecoderShape
  <2>3. DOMAIN parsed' = {}
    BY <2>2
  <2> QED
    BY <2>3 DEF TemplatesInv, YieldInv, IdsInv
<1> QED
  BY <1>1, <1>2, <1>3, <1>4 DEF IpfixInv

LEMMA DecodeKeeps ==
  ASSUME IpfixInv, Decode
  PROVE  IpfixInv'
<1>1. CASE TemplateSet \/ DataSet \/ Abandoned
  <2>1. PICK used \in AllLayouts, y \in Nat :
          Decodes(used, y) /\ (DecodesTemplate(used, y) \/ DecodesData(used, y))
    BY <1>1, DecodeEffect DEF IpfixInv
  <2>2. ExporterShape' /\ CountsInv' /\ InForceInv' /\ WrittenInv'
    BY <2>1, ExportersStay DEF IpfixInv, Decodes
  <2>3. DecoderShape'
    BY <2>1, DecodeKeepsShape DEF IpfixInv
  <2>4. TemplatesInv'
    BY <2>1, DecodeKeepsTemplates DEF IpfixInv
  <2>5. YieldInv'
    BY <2>1, DecodeKeepsYield DEF IpfixInv
  <2>6. IdsInv'
    BY <2>1, DecodeKeepsIds DEF IpfixInv
  <2> QED
    BY <2>2, <2>3, <2>4, <2>5, <2>6 DEF IpfixInv
<1>2. CASE Refused
  BY <1>2, RefusedKeeps
<1> QED
  BY <1>1, <1>2 DEF Decode

(* The exporters' books and the history of the decoder stay consistent, whatever *)
(* is sent, handed over and decoded.                                             *)
THEOREM IpfixConsistent == IpfixSpec => []IpfixInv
<1>1. IpfixInit => IpfixInv
  BY InitIsConsistent
<1>2. IpfixInv /\ [IpfixNext]_ipfixVars => IpfixInv'
  <2> SUFFICES ASSUME IpfixInv, [IpfixNext]_ipfixVars
               PROVE  IpfixInv'
    OBVIOUS
  <2>1. ASSUME NEW e \in Exporters, Send(e) \/ Restart(e)
        PROVE  IpfixInv'
    BY <2>1, ExporterStepKeeps
  <2>2. ASSUME NEW batch \in Batches, Call(batch)
        PROVE  IpfixInv'
    BY <2>2, CallKeeps
  <2>3. CASE Decode
    BY <2>3, DecodeKeeps
  <2>4. CASE UNCHANGED ipfixVars
    <3>1. UNCHANGED <<domainOf, inForce, epoch, records, sent,
                      templates, rest, ordinal, calls, parsed>>
      BY <2>4 DEF ipfixVars, exporterVars, decoderVars
    <3>2. /\ ExporterShape' /\ CountsInv' /\ InForceInv' /\ WrittenInv'
          /\ Places' = Places /\ \A at : SetAt(at)' = SetAt(at) /\ Key(at)' = Key(at)
      BY <3>1, ExportersStay DEF IpfixInv, exporterVars
    <3>3. DecoderShape'
      BY <3>1, <3>2 DEF IpfixInv, DecoderShape, Entry
    <3>4. TemplatesInv'
      <4>1. \A j, k, n : LastTaken(j, k, n)' <=> LastTaken(j, k, n)
        BY <3>1, <3>2 DEF LastTaken, Takes
      <4> QED
        BY <3>1, <3>2, <4>1 DEF IpfixInv, TemplatesInv
    <3>5. YieldInv'
      BY <3>1, <3>2 DEF IpfixInv, YieldInv, EndsItsCall
    <3>6. IdsInv'
      BY <3>1 DEF IpfixInv, IdsInv
    <3> QED
      BY <3>2, <3>3, <3>4, <3>5, <3>6 DEF IpfixInv
  <2> QED
    BY <2>1, <2>2, <2>3, <2>4 DEF IpfixNext
<1> QED
  BY <1>1, <1>2, PTL DEF IpfixSpec

(* Records of a size that were written one after the other are found again. *)
LEMMA WholeRecords ==
  ASSUME NEW rows \in Nat, NEW size \in Nat \ {0}
  PROVE  (rows * size) \div size = rows
OBVIOUS

(* The places where a template was announced, among those before a set. *)
LEMMA AnnouncedPlaces ==
  ASSUME ExporterShape, NEW at \in Places
  PROVE  Announced(at) = {a \in Places :
           /\ Announces(a, sent[at.msg].from, sent[at.msg].epoch, SetAt(at).tid)
           /\ Before(a, at)}
<1>1. DOMAIN sent = 1..Len(sent) /\ Len(sent) \in Nat /\ at.msg \in 1..Len(sent)
  BY LenProperties DEF ExporterShape, Places
<1> DEFINE sets(n) == {[msg |-> n, set |-> s] : s \in DOMAIN sent[n].sets}
           till == UNION {sets(n) : n \in 1..at.msg}
<1>2. \A a \in till : a \in Places
  <2>1. ASSUME NEW n \in 1..at.msg, NEW s \in DOMAIN sent[n].sets
        PROVE  [msg |-> n, set |-> s] \in Places
    <3>1. n \in DOMAIN sent /\ n \in Nat
      BY <1>1
    <3>2. sent[n] \in Message
      BY <3>1, LenProperties, ElementOfSeq DEF ExporterShape
    <3>3. s \in Nat
      BY <3>2, LenProperties DEF Message
    <3> QED
      BY <3>1, <3>3 DEF Places
  <2> QED
    BY <2>1
<1>3. ASSUME NEW a \in Places, Before(a, at)
      PROVE  a \in till
  <2>1. /\ a.msg \in DOMAIN sent /\ a.set \in DOMAIN sent[a.msg].sets
        /\ a = [msg |-> a.msg, set |-> a.set]
    BY DEF Places
  <2>2. a.msg \in 1..at.msg
    BY <1>1, <1>3, <2>1 DEF Before
  <2>3. a \in sets(a.msg)
    BY <2>1
  <2> QED
    BY <2>2, <2>3
<1> HIDE DEF till
<1>4. Announced(at) =
        {a \in till : /\ SetAt(a).kind = "template" /\ SetAt(a).tid = SetAt(at).tid
                      /\ sent[a.msg].from = sent[at.msg].from
                      /\ sent[a.msg].epoch = sent[at.msg].epoch
                      /\ Before(a, at)}
  BY DEF Announced, till
<1> QED
  BY <1>2, <1>3, <1>4 DEF Announces

(* decode: after a loss, a repetition, a reordering, an error or a dropped generator the *)
(* decoder reads the data sets of an exporter right again from its next template on.     *)
THEOREM DecoderRecovers == IpfixSpec => []RecoversWithTemplate
<1>1. IpfixInv => RecoversWithTemplate
  <2> SUFFICES ASSUME IpfixInv, NEW i \in DOMAIN parsed,
                      SetAt(parsed[i].at).kind = "data", Prepared(i)
               PROVE  /\ parsed[i].used = SetAt(parsed[i].at).layout
                      /\ Len(parsed[i].ids) <= SetAt(parsed[i].at).rows
                      /\ Len(parsed[i].ids) =
                           (IF SetAt(parsed[i].at).layout.flow THEN SetAt(parsed[i].at).rows ELSE 0)
                         \/ i = Len(parsed) \/ parsed[i + 1].call > parsed[i].call
    BY DEF RecoversWithTemplate
  <2>1. PICK at : at = parsed[i].at
    OBVIOUS
  <2>2. /\ DOMAIN parsed = 1..Len(parsed) /\ Len(parsed) \in Nat
        /\ \A j \in DOMAIN parsed : parsed[j] \in Entry /\ parsed[j].at \in Places
    <3>1. /\ DOMAIN parsed = 1..Len(parsed) /\ Len(parsed) \in Nat
          /\ \A j \in DOMAIN parsed : parsed[j] \in Entry
      BY LenProperties, ElementOfSeq DEF IpfixInv, DecoderShape
    <3> QED
      BY <3>1 DEF Entry
  <2>3. at \in Places /\ SetAt(at) \in SetType /\ Key(at) \in TemplateKeys
    BY <2>1, <2>2, SentKeys DEF IpfixInv
  <2>4. PICK j \in 1..i - 1 :
          /\ SetAt(parsed[j].at).kind = "template" /\ SameTemplate(parsed[j].at, at)
          /\ \A k \in 1..i - 1 :
               SetAt(parsed[k].at).kind = "template" /\ SameTemplate(parsed[k].at, at) => k <= j
          /\ parsed[j].at \in Announced(at)
          /\ \A a \in Announced(at) : ~Before(parsed[j].at, a)
    BY <2>1 DEF Prepared
  <2>5. j \in DOMAIN parsed /\ parsed[j].at \in Places
    BY <2>2
  <2>6. parsed[i].used = SetAt(parsed[j].at).layout
    <3>1. \A k \in 1..i - 1 : SameTemplate(parsed[k].at, at) <=> Key(parsed[k].at) = Key(at)
      BY DEF SameTemplate, Key, SetAt
    <3>2. LastTaken(j, Key(at), i - 1)
      BY <2>4, <3>1 DEF LastTaken, Takes
    <3> QED
      BY <2>1, <2>5, <3>2 DEF IpfixInv, TemplatesInv
  <2>7. SetAt(at).layout = SetAt(parsed[j].at).layout
    <3>1. Announced(at) = {a \in Places :
            /\ Announces(a, sent[at.msg].from, sent[at.msg].epoch, SetAt(at).tid)
            /\ Before(a, at)}
      BY <2>3, AnnouncedPlaces DEF IpfixInv
    <3>2. IsLast(parsed[j].at, sent[at.msg].from, sent[at.msg].epoch, SetAt(at).tid,
                 {b \in Places : Before(b, at)})
      BY <2>4, <3>1 DEF IsLast
    <3> QED
      BY <2>1, <2>3, <2>5, <3>2 DEF IpfixInv, WrittenInv
  <2>8. EventsIn(SetAt(at), SetAt(at).layout) =
          IF SetAt(at).layout.flow THEN SetAt(at).rows ELSE 0
    <3>1. SetAt(at).layout \in Layouts /\ SetAt(at).rows \in Nat
      BY <2>1, <2>3 DEF IpfixInv, ExporterShape, SetType, AllLayouts
    <3>2. SetAt(at).layout.size \in Nat \ {0}
      BY <3>1, IpfixAssumption
    <3>3. (SetAt(at).rows * SetAt(at).layout.size) \div SetAt(at).layout.size = SetAt(at).rows
      BY <3>1, <3>2, WholeRecords
    <3> QED
      BY <3>2, <3>3 DEF EventsIn, RecordsIn
  <2>9. /\ Len(parsed[i].ids) <= EventsIn(SetAt(at), SetAt(at).layout)
        /\ Len(parsed[i].ids) = EventsIn(SetAt(at), SetAt(at).layout) \/ EndsItsCall(i)
    BY <2>1, <2>6, <2>7 DEF IpfixInv, YieldInv
  <2>10. Len(parsed[i].ids) <= SetAt(at).rows
    <3>1. Len(parsed[i].ids) \in Nat /\ SetAt(at).rows \in Nat
      BY <2>2, <2>3, LenProperties DEF Entry, SetType
    <3> QED
      BY <2>8, <2>9, <3>1
  <2>11. EndsItsCall(i) => i = Len(parsed) \/ parsed[i + 1].call > parsed[i].call
    BY DEF EndsItsCall
  <2> QED
    BY <2>1, <2>6, <2>7, <2>8, <2>9, <2>10, <2>11
<1> QED
  BY <1>1, IpfixConsistent, PTL

(* Numbers less than a modulus apart are told apart by it. *)
LEMMA SameRemainder ==
  ASSUME NEW s \in Nat \ {0}, NEW a \in Nat, NEW b \in Nat,
         a % s = b % s, a - b \in -(s - 1)..s - 1
  PROVE  a = b
<1>1. PICK p, q \in Int, r \in Int : a = s * p + r /\ b = s * q + r
  OBVIOUS
<1> QED
  BY <1>1

(* Two messages of one start of an exporter that both have data sets count differently. *)
LEMMA CountsTellApart ==
  ASSUME ExporterShape, CountsInv, NEW m \in DOMAIN sent, NEW n \in DOMAIN sent,
         sent[m].from = sent[n].from, sent[m].epoch = sent[n].epoch,
         HasData(m), HasData(n), sent[m].count = sent[n].count
  PROVE  m = n
<1>1. /\ DOMAIN sent = 1..Len(sent) /\ Len(sent) \in Nat
      /\ sent[m].count \in Nat /\ sent[n].count \in Nat
  <2>1. sent[m] \in Message /\ sent[n] \in Message
    BY LenProperties, ElementOfSeq DEF ExporterShape
  <2> QED
    BY <2>1, LenProperties DEF ExporterShape, Message
<1>2. ASSUME m < n
      PROVE  FALSE
  <2>1. m \in 1..n - 1
    BY <1>1, <1>2
  <2>2. sent[m].count < sent[n].count
    BY <2>1 DEF CountsInv
  <2> QED
    BY <1>1, <2>2
<1>3. ASSUME n < m
      PROVE  FALSE
  <2>1. n \in 1..m - 1
    BY <1>1, <1>3
  <2>2. sent[n].count < sent[m].count
    BY <2>1 DEF CountsInv
  <2> QED
    BY <1>1, <2>2
<1> QED
  BY <1>1, <1>2, <1>3

(* decode: the ids of events tell them apart, but for a restart or a wrap of the counter *)
(* of an exporter and for a message that is decoded twice.                               *)
THEOREM IdsTellEventsApart == IpfixSpec => []IdsRepeatOnlyAcross
<1>1. IpfixInv => IdsRepeatOnlyAcross
  <2> SUFFICES ASSUME IpfixInv, NEW i \in DOMAIN parsed, NEW j \in DOMAIN parsed,
                      NEW k \in DOMAIN parsed[i].ids, NEW l \in DOMAIN parsed[j].ids,
                      parsed[i].ids[k] = parsed[j].ids[l], <<i, k>> # <<j, l>>,
                      sent[parsed[i].at.msg].from = sent[parsed[j].at.msg].from,
                      sent[parsed[i].at.msg].epoch = sent[parsed[j].at.msg].epoch,
                      sent[parsed[i].at.msg].count - sent[parsed[j].at.msg].count
                        \in -(SeqSpace - 1)..SeqSpace - 1
               PROVE  /\ parsed[i].at.msg = parsed[j].at.msg
                      /\ parsed[i].call # parsed[j].call
    BY DEF IdsRepeatOnlyAcross
  <2>1. /\ DOMAIN parsed = 1..Len(parsed) /\ Len(parsed) \in Nat
        /\ parsed[i] \in Entry /\ parsed[j] \in Entry
    BY LenProperties, ElementOfSeq DEF IpfixInv, DecoderShape
  <2>2. PICK m, n : m = parsed[i].at.msg /\ n = parsed[j].at.msg
    OBVIOUS
  <2>3. m \in DOMAIN sent /\ n \in DOMAIN sent /\ HasData(m) /\ HasData(n)
    <3>1. ASSUME NEW x \in DOMAIN parsed, NEW y \in DOMAIN parsed[x].ids, parsed[x] \in Entry
          PROVE  parsed[x].at.msg \in DOMAIN sent /\ HasData(parsed[x].at.msg)
      <4>1. SetAt(parsed[x].at).kind = "data"
        <5>1. parsed[x].ids # <<>>
          BY <3>1
        <5> QED
          BY <5>1 DEF IpfixInv, DecoderShape
      <4>2. parsed[x].at \in Places
        BY <3>1 DEF Entry
      <4> QED
        BY <4>1, <4>2 DEF Places, SetAt, HasData
    <3> QED
      BY <2>1, <2>2, <3>1
  <2>4. sent[m].count \in Nat /\ sent[n].count \in Nat
    <3>1. sent[m] \in Message /\ sent[n] \in Message
      BY <2>3, LenProperties, ElementOfSeq DEF IpfixInv, ExporterShape
    <3> QED
      BY <3>1 DEF Message
  <2>5. sent[m].count % SeqSpace = sent[n].count % SeqSpace
    BY <2>2 DEF IpfixInv, IdsInv
  <2>6. sent[m].count = sent[n].count
    BY <2>2, <2>4, <2>5, SameRemainder, IpfixAssumption
  <2>7. m = n
    BY <2>2, <2>3, <2>6, CountsTellApart DEF IpfixInv
  <2>8. ASSUME parsed[i].call = parsed[j].call
        PROVE  FALSE
    <3>0. parsed[i].ids[k][2] \in Nat /\ parsed[j].ids[l][2] \in Nat
      <4>1. parsed[i].ids[k] \in Nat \X Nat /\ parsed[j].ids[l] \in Nat \X Nat
        <5>1. parsed[i].ids \in Seq(Nat \X Nat) /\ parsed[j].ids \in Seq(Nat \X Nat)
          BY <2>1 DEF Entry
        <5> QED
          BY <5>1, LenProperties, ElementOfSeq
      <4> QED
        BY <4>1
    <3>1. CASE i = j
      <4>1. l = k
        BY <3>1 DEF IpfixInv, IdsInv
      <4> QED
        BY <3>1, <4>1
    <3>2. CASE i < j
      <4>1. i \in 1..j - 1
        BY <2>1, <3>2
      <4>2. parsed[i].ids[k][2] < parsed[j].ids[l][2]
        BY <2>8, <4>1 DEF IpfixInv, IdsInv
      <4> QED
        BY <3>0, <4>2
    <3>3. CASE j < i
      <4>1. j \in 1..i - 1
        BY <2>1, <3>3
      <4>2. parsed[j].ids[l][2] < parsed[i].ids[k][2]
        BY <2>8, <4>1 DEF IpfixInv, IdsInv
      <4> QED
        BY <3>0, <4>2
    <3> QED
      BY <2>1, <3>1, <3>2, <3>3
  <2> QED
    BY <2>2, <2>7, <2>8
<1> QED
  BY <1>1, IpfixConsistent, PTL

===============================================================================
