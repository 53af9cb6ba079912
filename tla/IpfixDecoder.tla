----------------------------- MODULE IpfixDecoder ------------------------------
(***************************************************************************)
(* IPFIXDecoder of backend/ingestion/ipfix.py and what reaches it: the     *)
(* messages of exporters, handed over by a collector in any order, some    *)
(* never and some twice.                                                   *)
(*                                                                         *)
(* A layout is the list of fields of a template, reduced to the octets a   *)
(* record takes and to whether a record becomes an event (the fields 8 and *)
(* 12, the IPv4 addresses, are in it).  The octets of a data set are       *)
(* reduced to the layout its exporter wrote them with and the number of    *)
(* records; a decoder that reads them with another layout finds another    *)
(* number.                                                                 *)
(***************************************************************************)
EXTENDS Integers, Sequences, SequencesExt

CONSTANTS Exporters, Domains, Tids,
          Layouts,      \* the field lists the exporters use
          Rows,         \* numbers of records in a data set
          Shapes,       \* the sequences of kinds of sets a message can have
          SeqSpace,       \* the sequence number counts records modulo this (2^32)
          MaxMessages,  \* bound: messages the exporters send
          MaxRestarts,  \* bound: restarts of an exporter
          MaxBatch,     \* bound: messages in the data of one call of decode
          MaxCalls      \* bound: calls of decode

Kinds == {"template", "data", "broken"}

ASSUME IpfixAssumption ==
  /\ Layouts \subseteq [size : Nat \ {0}, flow : BOOLEAN]
  /\ Rows \subseteq Nat \ {0}
  /\ Shapes \subseteq Seq(Kinds)
  /\ SeqSpace \in Nat \ {0}
  /\ {MaxMessages, MaxRestarts, MaxBatch, MaxCalls} \subseteq Nat

VARIABLES domainOf,   \* the observation domain an exporter uses, never changed
          inForce,    \* the layout an exporter has announced under a template id
          epoch,      \* how often an exporter has restarted
          records,    \* the data records an exporter has sent since it started
          sent,       \* every message, in the order of sending
          templates,  \* self.templates
          rest,       \* the sets the open call of decode has not reached yet
          ordinal,    \* ordinal of that call
          calls,      \* calls of decode so far
          parsed      \* history: the sets the decoder went through, and what it yielded

exporterVars == <<domainOf, inForce, epoch, records, sent>>
decoderVars == <<templates, rest, ordinal, calls, parsed>>
ipfixVars == <<exporterVars, decoderVars>>

\* No fields: a template id that was withdrawn, or never announced.
NoFields == [size |-> 0, flow |-> FALSE]

IpfixInit ==
  /\ domainOf \in [Exporters -> Domains]
  /\ inForce = [e \in Exporters |-> [t \in Tids |-> NoFields]]
  /\ epoch = [e \in Exporters |-> 0]
  /\ records = [e \in Exporters |-> 0]
  /\ sent = <<>>
  /\ templates = [k \in {} |-> NoFields]
  /\ rest = <<>> /\ ordinal = 0 /\ calls = 0 /\ parsed = <<>>

-------------------------------------------------------------------------------
(* The exporters, and the way to the decoder: outside the repository *)

\* The sets of a message of e that announces layout l, if it announces one, and
\* has n records in every data set.
SetsOf(e, shape, t, l, n) ==
  LET announced(i) == \E j \in 1..i : shape[j] = "template" IN
  [i \in DOMAIN shape |->
     [kind |-> shape[i], tid |-> t, rows |-> IF shape[i] = "data" THEN n ELSE 0,
      layout |-> IF announced(i) THEN l ELSE inForce[e][t]]]

CountOf(shape, kind) == Cardinality({i \in DOMAIN shape : shape[i] = kind})

\* No exporter learns what became of its messages, so nothing is lost by sending
\* all of them before the first call.
Send(e) ==
  /\ Len(sent) < MaxMessages /\ calls = 0
  /\ \E shape \in Shapes, t \in Tids, l \in Layouts \cup {NoFields}, n \in Rows :
       LET sets == SetsOf(e, shape, t, l, n) IN
       /\ CountOf(shape, "template") = 0 => l = NoFields
       /\ \A i \in DOMAIN sets : sets[i].kind = "data" => sets[i].layout # NoFields
       /\ sent' = Append(sent, [from |-> e, epoch |-> epoch[e], count |-> records[e],
                                sets |-> sets])
       /\ inForce' = IF CountOf(shape, "template") = 0 THEN inForce
                     ELSE [inForce EXCEPT ![e][t] = l]
       /\ records' = [records EXCEPT ![e] = @ + n * CountOf(shape, "data")]
  /\ UNCHANGED <<domainOf, epoch, decoderVars>>

\* An exporter that has sent something starts again: it has to announce its
\* templates, and counts from 0.
Restart(e) ==
  /\ epoch[e] < MaxRestarts /\ calls = 0
  /\ \E n \in DOMAIN sent : sent[n].from = e
  /\ epoch' = [epoch EXCEPT ![e] = @ + 1]
  /\ inForce' = [inForce EXCEPT ![e] = [t \in Tids |-> NoFields]]
  /\ records' = [records EXCEPT ![e] = 0]
  /\ UNCHANGED <<domainOf, sent, decoderVars>>

\* The messages the collector puts into one call, in any order.
Batches ==
  {b \in UNION {[1..n -> DOMAIN sent] : n \in 1..MaxBatch} :
     \A i, j \in DOMAIN b : b[i] = b[j] => i = j}

SetsIn(n) == [i \in DOMAIN sent[n].sets |-> [msg |-> n, set |-> i]]

InBatch(batch) == FlattenSeq([i \in DOMAIN batch |-> SetsIn(batch[i])])

-------------------------------------------------------------------------------
(* decode *)

Here == Head(rest)
SetHere == sent[Here.msg].sets[Here.set]

\* Variants for the mutation runs: a template id means the same in every domain;
\* the ordinal starts again with every set.
KeyOfTid(at) == <<CHOOSE d \in Domains : TRUE, sent[at.msg].sets[at.set].tid>>
OrdinalOfSet(yielded) == 0

\* The key a template is kept under.
Key(at) == <<domainOf[sent[at.msg].from], sent[at.msg].sets[at.set].tid>>

\* decode is called with the data of a batch.
Call(batch) ==
  /\ rest = <<>> /\ calls < MaxCalls
  /\ rest' = InBatch(batch)
  /\ ordinal' = 0
  /\ calls' = calls + 1
  /\ UNCHANGED <<exporterVars, templates, parsed>>

\* What the decoder has under the id of a data set; a missing template is no fields.
Found(at) == IF Key(at) \in DOMAIN templates THEN templates[Key(at)] ELSE NoFields

\* Whole records of a layout in a set; what is left over is padding.
RecordsIn(octets, layout) == IF layout.size = 0 THEN 0 ELSE octets \div layout.size

\* The events of a data set as the decoder reads it.
EventsIn(set, layout) ==
  IF layout.flow THEN RecordsIn(set.rows * set.layout.size, layout) ELSE 0

\* The ordinal after so many more events.
OrdinalAfter(yielded) == ordinal + yielded

\* The ids of the next events: 'ipfix-{seq}-{ordinal}'.
Ids(n, yielded) ==
  [k \in 1..yielded |-> <<sent[n].count % SeqSpace, ordinal + k>>]

\* The set the decoder is at is done with; it yielded the given number of events.
Step(used, yielded) ==
  /\ parsed' = Append(parsed, [at |-> Here, call |-> calls, used |-> used,
                               ids |-> Ids(Here.msg, yielded)])
  /\ ordinal' = OrdinalAfter(yielded)
  /\ UNCHANGED <<exporterVars, calls>>

\* A template set: the fields replace those kept under the same key.
TemplateSet ==
  /\ rest # <<>> /\ SetHere.kind = "template"
  /\ templates' = [k \in DOMAIN templates \cup {Key(Here)} |->
                     IF k = Key(Here) THEN SetHere.layout ELSE templates[k]]
  /\ rest' = Tail(rest)
  /\ Step(SetHere.layout, 0)

\* A data set, whose events the caller takes one by one.
DataSet ==
  /\ rest # <<>> /\ SetHere.kind = "data"
  /\ rest' = Tail(rest)
  /\ Step(Found(Here), EventsIn(SetHere, Found(Here)))
  /\ UNCHANGED templates

\* The caller takes only some of the events (an event raises in its hands) and
\* drops the generator: the sets behind are never parsed, templates included.
Abandoned ==
  /\ rest # <<>> /\ SetHere.kind = "data"
  /\ \E n \in 1..EventsIn(SetHere, Found(Here)) : Step(Found(Here), n)
  /\ rest' = <<>>
  /\ UNCHANGED templates

\* A set, or the header of its message, that is not valid: ValueError.
Refused ==
  /\ rest # <<>> /\ SetHere.kind = "broken"
  /\ rest' = <<>>
  /\ UNCHANGED <<exporterVars, templates, ordinal, calls, parsed>>

Decode == TemplateSet \/ DataSet \/ Abandoned \/ Refused

IpfixNext ==
  \/ \E e \in Exporters : Send(e) \/ Restart(e)
  \/ \E batch \in Batches : Call(batch)
  \/ Decode

IpfixSpec == IpfixInit /\ [][IpfixNext]_ipfixVars

-------------------------------------------------------------------------------
(* Properties *)

SetAt(at) == sent[at.msg].sets[at.set]
SameTemplate(a, b) ==
  /\ domainOf[sent[a.msg].from] = domainOf[sent[b.msg].from]
  /\ SetAt(a).tid = SetAt(b).tid
Before(a, b) == a.msg < b.msg \/ (a.msg = b.msg /\ a.set < b.set)

\* The places where the exporter of a set announced its template until then.
Announced(at) ==
  {a \in UNION {{[msg |-> n, set |-> s] : s \in DOMAIN sent[n].sets} : n \in 1..at.msg} :
     /\ SetAt(a).kind = "template" /\ SetAt(a).tid = SetAt(at).tid
     /\ sent[a.msg].from = sent[at.msg].from /\ sent[a.msg].epoch = sent[at.msg].epoch
     /\ Before(a, at)}

\* Entry i of the history is a data set that was decoded right after, among the
\* template sets of its domain and id, the one its exporter wrote it with.
Prepared(i) ==
  LET same == {j \in 1..i - 1 : /\ SetAt(parsed[j].at).kind = "template"
                                /\ SameTemplate(parsed[j].at, parsed[i].at)}
  IN  \E j \in same :
        /\ \A k \in same : k <= j
        /\ parsed[j].at \in Announced(parsed[i].at)
        /\ \A a \in Announced(parsed[i].at) : ~Before(parsed[j].at, a)

\* However messages were lost, repeated or late before, and whatever was refused or
\* left half read: once the decoder has taken the template a data set was written
\* with, later than any other template of that domain and id, it reads the set with
\* that layout and yields its records, all of them unless the caller stops (decode).
RecoversWithTemplate ==
  \A i \in DOMAIN parsed :
    LET set == SetAt(parsed[i].at) IN
    set.kind = "data" /\ Prepared(i) =>
      /\ parsed[i].used = set.layout
      /\ Len(parsed[i].ids) <= set.rows
      /\ Len(parsed[i].ids) = (IF set.layout.flow THEN set.rows ELSE 0)
         \/ i = Len(parsed) \/ parsed[i + 1].call > parsed[i].call

\* An event id, from which the alert ids are made, is given to two events only when
\* they come from different exporters, from before and after a restart or a wrap of
\* the sequence number, or from one message that was decoded in two calls (decode).
IdsRepeatOnlyAcross ==
  \A i, j \in DOMAIN parsed :
    \A k \in DOMAIN parsed[i].ids, l \in DOMAIN parsed[j].ids :
      LET m == sent[parsed[i].at.msg]
          n == sent[parsed[j].at.msg]
      IN  /\ parsed[i].ids[k] = parsed[j].ids[l] /\ <<i, k>> # <<j, l>>
          /\ m.from = n.from /\ m.epoch = n.epoch
          /\ m.count - n.count \in -(SeqSpace - 1)..SeqSpace - 1
          => /\ parsed[i].at.msg = parsed[j].at.msg
             /\ parsed[i].call # parsed[j].call

===============================================================================
