---------------------------- MODULE MCFirstPass -----------------------------
(***************************************************************************)
(* Dumps laid out byte by byte for HeapEngine: `dumps` is what a VM and a  *)
(* failing disk may leave, small enough to have several segments, several  *)
(* heap records in a segment and objects on either side of each border.    *)
(***************************************************************************)
EXTENDS DumpProperties

\* Sub-records, without their place.
Sized(s) == [size |-> SizeOf(s)] @@ s
Of(kind, id) == [kind |-> kind, form |-> "whole", id |-> id, left |-> 0]
Inst(id, class, data, truth) ==
    Sized([class |-> class, data |-> data, truth |-> truth] @@ Of("instance", id))
Prim(id, text, bytes) == Sized([text |-> text, bytes |-> bytes] @@ Of("primArray", id))
Arr(id, count) == Sized([count |-> count] @@ Of("objArray", id))
Cls(id, super, fields, statics) ==
    Sized([super |-> super, fields |-> fields, statics |-> statics] @@ Of("class", id))
PartCls(id, super) == [Cls(id, super, <<>>, <<>>) EXCEPT !.form = "partial"]
FRoot(id, thread, frame) == Sized([thread |-> thread, frame |-> frame] @@ Of("frameRoot", id))
TRoot(id, thread) == Sized([thread |-> thread] @@ Of("threadRoot", id))
ORoot(id) == Sized(Of("root", id))
Cut(id, size, left) == [kind |-> "instance", form |-> "broken", id |-> id,
                        size |-> size, left |-> left]
Broken(size, left) == [kind |-> "unknown", form |-> "broken", id |-> 0,
                       size |-> size, left |-> left]

\* Records, without their place.
AsRecord(r) == [size |-> LeastSize(r)] @@ r
Str(id, text)  == [tag |-> "String", id |-> id, text |-> text, size |-> 8]
Load(serial, class, name) ==
    AsRecord([tag |-> "LoadClass", serial |-> serial, class |-> class, name |-> name])
Frm(id, method) == AsRecord([tag |-> "Frame", id |-> id, method |-> method])
Trc(serial, thread, frames) ==
    AsRecord([tag |-> "Trace", serial |-> serial, thread |-> thread, frames |-> frames])
Thr(serial, object, trace, name) ==
    AsRecord([tag |-> "Thread", serial |-> serial, object |-> object, trace |-> trace,
            name |-> name])
Oth == [tag |-> "Other", size |-> 4]
Heap(subs) == [tag |-> "Heap", subs |-> subs,
               size |-> FoldLeft(LAMBDA n, s : n + s.size + s.left, 0, subs)]
Bad(r)   == [r EXCEPT !.size = @ - 1]
Extra(r) == [r EXCEPT !.size = @ + 2]

PlaceSubs(subs, start) ==
    FoldLeft(LAMBDA acc, s : [at |-> acc.at + s.size,
                              done |-> Append(acc.done, [at |-> acc.at] @@ s)],
             [at |-> start, done |-> <<>>], subs).done

PlaceRecord(r, at) ==
    IF r.tag = "Heap" THEN [at |-> at, subs |-> PlaceSubs(r.subs, at)] @@ r
    ELSE [at |-> at] @@ r

MkFile(records, tail, healthy) ==
    LET laid == FoldLeft(LAMBDA acc, r :
                    [at |-> acc.at + HeaderSize + r.size,
                     done |-> Append(acc.done, PlaceRecord(r, acc.at + HeaderSize))],
                    [at |-> 0, done |-> <<>>], records)
    IN  [records |-> laid.done, tail |-> tail, healthy |-> healthy,
         length |-> laid.at + CASE tail = "clean"   -> 0
                                [] tail = "header"  -> 6
                                [] tail = "payload" -> HeaderSize + 3]

-----------------------------------------------------------------------------
\* Names of fields, classes, objects.
nName == 1  nHolder == 2  nStatus == 3  nValue == 4  nMine == 5  nText == 6
cObject == 101  cThread == 102  cString == 103  cHolder == 104  cWorker == 105
F(name, type) == [name |-> name, type |-> type]
S(name, value) == [name |-> name, type |-> "ref", value |-> value]

Strings == <<Str(nName, "name"), Str(nHolder, "holder"), Str(nStatus, "threadStatus"),
             Str(nValue, "value"), Str(nMine, "mine"), Str(nText, "main")>>
Classes == <<Load(1, cObject, nMine), Load(2, cThread, nMine), Load(3, cString, nMine)>>

ObjectDump == Cls(cObject, 0, <<>>, <<>>)
OldThreadDump == Cls(cThread, cObject, <<F(nName, "ref"), F(nStatus, "int")>>, <<>>)
NewThreadDump == Cls(cThread, cObject, <<F(nName, "ref"), F(nHolder, "ref")>>, <<>>)
WorkerDump == Cls(cWorker, cThread, <<F(nMine, "bool")>>, <<S(nMine, 201)>>)
StringDump == Cls(cString, cObject, <<F(nValue, "ref")>>, <<>>)
HolderDump == Cls(cHolder, cObject, <<F(nStatus, "int")>>, <<>>)

NoTruth == [name |-> 0]
\* java.lang.Thread.State of a JVMTI status.
StateNamed == 4 :> "Runnable" @@ 1024 :> "Blocked" @@ 16 :> "Waiting" @@ 2 :> "Unknown"
OldThread(id, name, status) ==
    Inst(id, cThread, BytesOf(name, "ref") \o BytesOf(status, "int"),
         [name |-> name, state |-> StateNamed[status]])
Worker(id, name, status) ==
    Inst(id, cWorker, BytesOf(1, "bool") \o BytesOf(name, "ref") \o BytesOf(status, "int"),
         [name |-> name, state |-> StateNamed[status]])
NewThread(id, name, holder) ==
    Inst(id, cThread, BytesOf(name, "ref") \o BytesOf(holder, "ref"),
         [name |-> name, holder |-> holder])
String(id, value) == Inst(id, cString, BytesOf(value, "ref"), [value |-> value])
HolderObj(id, status) == Inst(id, cHolder, BytesOf(status, "int"), [state |-> StateNamed[status]])

\* Two threads of the old layout over three heap records and four segments, the
\* names far from the threads and the class dumps last.
Sound == MkFile(
    Strings \o Classes \o
    <<Frm(11, nMine), Frm(12, nMine), Trc(1, 1, <<11, 12>>), Trc(2, 2, <<12>>), Oth,
      Thr(1, 201, 1, nText), Thr(2, 202, 2, nText),
      Heap(<<TRoot(201, 1), TRoot(202, 2), FRoot(211, 1, 0), OldThread(201, 211, 4)>>),
      Heap(<<ORoot(101), ORoot(102), String(211, 221), FRoot(212, 1, 1), Worker(202, 212, 1024),
             FRoot(201, 2, 0)>>),
      Heap(<<Prim(221, "alpha", 12), String(212, 222), Prim(222, "beta", 4), ObjectDump,
             OldThreadDump, WorkerDump, StringDump>>)>>, "clean", TRUE)

\* No thread record; the new layout; two traces and two roots for a thread.
Synthetic == MkFile(
    Classes \o Strings \o
    <<Trc(1, 1, <<11>>), Frm(11, nMine), Trc(3, 1, <<12>>), Frm(12, nMine), Trc(2, 2, <<11>>),
      Heap(<<ObjectDump, NewThreadDump, StringDump, HolderDump, ORoot(101),
             TRoot(201, 1), TRoot(202, 2), TRoot(203, 1), FRoot(0, 1, 0), FRoot(201, 2, 0),
             FRoot(211, 1, 7)>>),
      Heap(<<ORoot(101)>>),
      Heap(<<NewThread(201, 211, 233), HolderObj(231, 16), NewThread(202, 212, 232),
             Arr(241, 2), NewThread(203, 211, 231), HolderObj(232, 2), String(211, 221),
             HolderObj(233, 4)>>),
      Heap(<<String(212, 222), Prim(221, "alpha", 3), Prim(222, "beta", 2)>>)>>, "clean", TRUE)

\* What a failing disk leaves: records that do not parse or parse short, a class
\* dump cut in its static fields, a tag nobody knows, the end of the file in a
\* record.
Damaged(tail) == MkFile(
    Strings \o Classes \o
    <<Trc(1, 1, <<11>>), Thr(1, 201, 1, nText), Bad(Frm(11, nMine)), Extra(Frm(12, nMine)),
      Heap(<<TRoot(201, 1), TRoot(202, 2), OldThread(201, 211, 4), ObjectDump,
             OldThreadDump, ORoot(101), Cut(202, 17, 5)>>),
      Heap(<<String(211, 221), PartCls(cString, cObject), Prim(221, "alpha", 2)>>)>>, tail, FALSE)

\* Only the end of a heap record is lost.
Torn == MkFile(
    Strings \o <<Heap(<<ORoot(1), Prim(221, "alpha", 2), Broken(1, 4)>>), Heap(<<ObjectDump>>)>>,
    "clean", FALSE)

\* A heap record ends right after the id of an object: nothing is left unread.
Unnoticed == MkFile(
    Strings \o <<Heap(<<ORoot(1), Prim(221, "alpha", 2), Cut(222, 5, 0)>>), Heap(<<ObjectDump>>)>>,
    "clean", FALSE)

\* Classes in cycles, a class without a dump, a thread without an object.
Cyclic == MkFile(
    <<Load(1, 101, nMine), Load(7, 107, nMine), Str(nMine, "mine"), Thr(1, 0, 9, nMine),
      Thr(2, 299, 9, nText),
      Heap(<<Cls(101, 102, <<>>, <<>>), Cls(102, 103, <<F(nName, "ref")>>, <<>>),
             Cls(103, 102, <<F(nMine, "int"), F(nMine, "what")>>, <<S(nMine, 201)>>),
             Cls(104, 104, <<>>, <<>>), Cls(105, 101, <<>>, <<>>), Cls(106, 0, <<>>, <<>>),
             TRoot(299, 2), Inst(201, 105, BytesOf(7, "int"), NoTruth)>>)>>, "clean", FALSE)

\* No heap record at all.
Bare == MkFile(<<Oth, Str(nText, "main"), Thr(1, 201, 1, nText)>>, "header", FALSE)

MCFiles == {Sound, Synthetic, Damaged("clean"), Damaged("payload"), Torn, Unnoticed, Cyclic, Bare}

Plain == [threads |-> 3, budget |-> 0, unbuildable |-> {}, lookalikes |-> {}]
MCSetups == {Plain,
             [Plain EXCEPT !.threads = 1],
             [Plain EXCEPT !.budget = NoBudget],
             [Plain EXCEPT !.budget = 200, !.unbuildable = {6, 10}],
             [Plain EXCEPT !.budget = 200,
                           !.lookalikes = {<<7, 201>>, <<7, 202>>, <<8, 202>>, <<4, 299>>, <<7, 221>>,
                                           <<9, 231>>, <<9, 212>>, <<12, 201>>}]}
=============================================================================
