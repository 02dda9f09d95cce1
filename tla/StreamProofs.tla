---------------------------- MODULE StreamProofs ----------------------------
(***************************************************************************)
(* That a viewer of a review receives every event once and in order, for   *)
(* any number of viewers, criteria, runs, crashes and broken connections,  *)
(* when the database never hands out an id twice (PostgreSQL).             *)
(***************************************************************************)
EXTENDS EventStream, TLAPS

Events == [id : Nat, run : Nat, place : 1..Failed]
Pages  == [at : {"connecting", "open", "closed", "refused"}, opened : BOOLEAN, last : Nat,
           status : {"connecting", "running", "completed", "failed"},
           shown : [Criteria -> Nat], decision : Nat]
Conns  == [at : {"none", "subscribed", "replaying"}, last : Nat,
           backlog : Seq(Events), queue : Seq(Events)]

StreamType ==
    /\ rows \in Seq(Events) /\ sequence \in Nat
    /\ worker \in [run : Nat, at : {"idle", "commit", "publish"}, place : 1..Failed]
    /\ conn \in [Viewers -> Conns]
    /\ page \in [Viewers -> Pages]
    /\ got \in [Viewers -> Seq(Events)]

Items(s)     == {s[i] : i \in DOMAIN s}
Ascending(s) == \A i, j \in DOMAIN s : i < j => s[i].id < s[j].id

\* Every event that is in the table, on its way to a viewer, or there.
Of(v) == Items(got[v]) \union Items(conn[v].backlog) \union Items(conn[v].queue)
Known == Items(rows) \union UNION {Of(v) : v \in Viewers}

Earlier(e, f) == e.run < f.run \/ (e.run = f.run /\ e.place < f.place)

\* The worker has been there when it commits its next event.
Past(e) ==
    \/ e.run < worker.run
    \/ /\ e.run = worker.run
       /\ \/ worker.at = "idle"
          \/ e.place < worker.place
          \/ worker.at = "publish" /\ e.place = worker.place

\* Ids order the events as the runs do, and name one event each.
IdsInOrder ==
    /\ \A e \in Known : e.id <= sequence /\ Past(e)
    /\ \A e, f \in Known : /\ e.id < f.id => Earlier(e, f)
                           /\ e.id = f.id => e = f

\* The table, and what is on its way, is in the order of ids; an event that is about
\* to be published is the newest.
TableInOrder ==
    /\ Ascending(rows)
    /\ worker.at = "publish" => rows # <<>> /\ rows[Len(rows)].id = sequence

ViewerInOrder(v) ==
    /\ Ascending(got[v]) /\ Ascending(conn[v].backlog) /\ Ascending(conn[v].queue)
    /\ \A e \in Items(got[v]) : e.id <= page[v].last
    /\ page[v].last <= sequence
    /\ conn[v].at # "none" => conn[v].last = page[v].last
    /\ \A e \in Items(conn[v].backlog) : e.id > conn[v].last
    /\ worker.at = "publish" => \A e \in Items(conn[v].queue) : e.id < sequence

\* A row that a viewer has not got yet will reach it: it is in the backlog, or it
\* comes after the backlog and is in the queue or about to be put there.
Coming(v, i) ==
    \/ rows[i] \in Items(conn[v].backlog)
    \/ /\ \A e \in Items(conn[v].backlog) : e.id < rows[i].id
       /\ rows[i] \in Items(conn[v].queue) \/ (worker.at = "publish" /\ i = Len(rows))

NothingLost(v) ==
    \A i \in DOMAIN rows :
        /\ rows[i].id <= page[v].last => rows[i] \in Items(got[v])
        /\ conn[v].at = "replaying" /\ rows[i].id > conn[v].last => Coming(v, i)

StreamInv ==
    /\ StreamType
    /\ IdsInOrder
    /\ TableInOrder
    /\ \A v \in Viewers : ViewerInOrder(v) /\ NothingLost(v)

-----------------------------------------------------------------------------
(* Sequences of events.                                                     *)

LEMMA AppendItems ==
    ASSUME NEW s \in Seq(Events), NEW e \in Events
    PROVE  /\ Append(s, e) \in Seq(Events)
           /\ Items(Append(s, e)) = Items(s) \union {e}
           /\ Ascending(s) /\ (\A x \in Items(s) : x.id < e.id) => Ascending(Append(s, e))
<1>1. /\ Append(s, e) \in Seq(Events) /\ Len(Append(s, e)) = Len(s) + 1
      /\ DOMAIN s = 1..Len(s) /\ DOMAIN Append(s, e) = 1..(Len(s) + 1) /\ Len(s) \in Nat
      /\ \A i \in 1..Len(s) : Append(s, e)[i] = s[i]
      /\ Append(s, e)[Len(s) + 1] = e
  OBVIOUS
<1>2. Items(Append(s, e)) = Items(s) \union {e}
  <2>1. \A i \in 1..(Len(s) + 1) : i \in 1..Len(s) \/ i = Len(s) + 1 BY <1>1
  <2>2. Len(s) + 1 \in 1..(Len(s) + 1) /\ 1..Len(s) \subseteq 1..(Len(s) + 1) BY <1>1
  <2> QED BY <1>1, <2>1, <2>2 DEF Items
<1>3. ASSUME Ascending(s), \A x \in Items(s) : x.id < e.id PROVE Ascending(Append(s, e))
  <2> SUFFICES ASSUME NEW i \in 1..(Len(s) + 1), NEW j \in 1..(Len(s) + 1), i < j
               PROVE  Append(s, e)[i].id < Append(s, e)[j].id
    BY <1>1 DEF Ascending
  <2>1. i \in 1..Len(s) BY <1>1
  <2>2. CASE j = Len(s) + 1 BY <1>1, <1>3, <2>1, <2>2 DEF Items
  <2>3. CASE j \in 1..Len(s) BY <1>1, <1>3, <2>1, <2>3 DEF Ascending
  <2> QED BY <1>1, <2>2, <2>3
<1> QED BY <1>1, <1>2, <1>3

LEMMA TailItems ==
    ASSUME NEW s \in Seq(Events), s # <<>>
    PROVE  /\ Tail(s) \in Seq(Events) /\ Head(s) \in Events
           /\ Items(s) = {Head(s)} \union Items(Tail(s))
           /\ Ascending(s) => Ascending(Tail(s)) /\ \A x \in Items(Tail(s)) : Head(s).id < x.id
<1>1. /\ Tail(s) \in Seq(Events) /\ Head(s) \in Events /\ Len(s) \in Nat \ {0}
      /\ DOMAIN s = 1..Len(s) /\ DOMAIN Tail(s) = 1..(Len(s) - 1)
      /\ \A i \in 1..(Len(s) - 1) : Tail(s)[i] = s[i + 1]
      /\ Head(s) = s[1]
  OBVIOUS
<1>2. Items(s) \subseteq {Head(s)} \union Items(Tail(s))
  <2> SUFFICES ASSUME NEW i \in 1..Len(s), i # 1 PROVE s[i] \in Items(Tail(s))
    BY <1>1 DEF Items
  <2>1. i - 1 \in 1..(Len(s) - 1) /\ (i - 1) + 1 = i BY <1>1
  <2> QED BY <1>1, <2>1 DEF Items
<1>3. \A i \in 1..(Len(s) - 1) : i + 1 \in 1..Len(s) /\ 1 < i + 1 BY <1>1
<1>4. 1 \in 1..Len(s) BY <1>1
<1>5. {Head(s)} \union Items(Tail(s)) \subseteq Items(s)
  BY <1>1, <1>3, <1>4 DEF Items
<1>6. ASSUME Ascending(s) PROVE \A x \in Items(Tail(s)) : Head(s).id < x.id
  BY <1>1, <1>3, <1>4, <1>6 DEF Items, Ascending
<1>7. ASSUME Ascending(s) PROVE Ascending(Tail(s))
  <2> SUFFICES ASSUME NEW i \in 1..(Len(s) - 1), NEW j \in 1..(Len(s) - 1), i < j
               PROVE  s[i + 1].id < s[j + 1].id
    BY <1>1 DEF Ascending
  <2>1. i + 1 \in 1..Len(s) /\ j + 1 \in 1..Len(s) /\ i + 1 < j + 1 BY <1>1
  <2> QED BY <1>1, <1>7, <2>1 DEF Ascending
<1> QED BY <1>1, <1>2, <1>5, <1>6, <1>7

LEMMA SuffixItems ==
    ASSUME NEW s \in Seq(Events), NEW n \in 0..Len(s)
    PROVE  /\ SubSeq(s, n + 1, Len(s)) \in Seq(Events)
           /\ Items(SubSeq(s, n + 1, Len(s))) = {s[i] : i \in {j \in DOMAIN s : j > n}}
           /\ Ascending(s) => Ascending(SubSeq(s, n + 1, Len(s)))
<1> DEFINE t == SubSeq(s, n + 1, Len(s))
<1>1. /\ t \in Seq(Events) /\ Len(s) \in Nat /\ n \in Nat /\ n <= Len(s)
      /\ DOMAIN s = 1..Len(s) /\ DOMAIN t = 1..(Len(s) - n)
      /\ \A i \in 1..(Len(s) - n) : t[i] = s[n + i]
  OBVIOUS
<1>2. \A i \in 1..(Len(s) - n) : n + i \in 1..Len(s) /\ n + i > n BY <1>1
<1>3. \A j \in 1..Len(s) : j > n => j - n \in 1..(Len(s) - n) /\ n + (j - n) = j BY <1>1
<1> HIDE DEF t
<1>4. Items(t) = {s[i] : i \in {j \in DOMAIN s : j > n}}
  <2>1. ASSUME NEW x \in Items(t) PROVE x \in {s[i] : i \in {j \in DOMAIN s : j > n}}
    <3>1. PICK i \in 1..(Len(s) - n) : x = t[i] BY <1>1 DEF Items
    <3> QED BY <1>1, <1>2, <3>1
  <2>2. ASSUME NEW j \in 1..Len(s), j > n PROVE s[j] \in Items(t)
    <3>1. s[j] = t[j - n] /\ j - n \in DOMAIN t BY <1>1, <1>3, <2>2
    <3> QED BY <3>1 DEF Items
  <2> QED BY <1>1, <2>1, <2>2
<1>5. ASSUME Ascending(s) PROVE Ascending(t)
  <2> SUFFICES ASSUME NEW i \in 1..(Len(s) - n), NEW j \in 1..(Len(s) - n), i < j
               PROVE  s[n + i].id < s[n + j].id
    BY <1>1 DEF Ascending
  <2>1. n + i < n + j BY <1>1
  <2> QED BY <1>1, <1>2, <1>5, <2>1 DEF Ascending
<1> QED BY <1>1, <1>4, <1>5 DEF t

-----------------------------------------------------------------------------
(* The parts of the invariant that a step leaves alone.                     *)

LEMMA ReduceTyped ==
    ASSUME NEW pg \in Pages, NEW e \in Events
    PROVE  Reduce(pg, e) \in Pages /\ Reduce(pg, e).last = pg.last
<1>1. CASE e.place = Started BY <1>1 DEF Reduce, Pages, Events
<1>2. CASE e.place # Started /\ e.place = Decision BY <1>2 DEF Reduce, Pages, Events
<1>3. CASE e.place \notin {Started, Decision} /\ e.place = Completed
  BY <1>3 DEF Reduce, Pages, Events
<1>4. CASE e.place \notin {Started, Decision, Completed} /\ e.place = Failed
  BY <1>4 DEF Reduce, Pages, Events
<1>5. CASE e.place \notin {Started, Decision, Completed, Failed}
  <2> DEFINE c == e.place \div 2
             k == IF e.place = Closes(c) THEN e.run ELSE 0
             s == [pg.shown EXCEPT ![c] = k]
  <2>1. k \in Nat BY DEF Events
  <2>2. s \in [Criteria -> Nat] BY <2>1 DEF Pages
  <2>3. Reduce(pg, e) = [pg EXCEPT !.shown = s] BY <1>5 DEF Reduce
  <2> QED BY <2>2, <2>3 DEF Pages
<1> QED BY <1>1, <1>2, <1>3, <1>4, <1>5

\* What one event folded in makes of a page.
LEMMA ReceiveTyped ==
    ASSUME StreamType, NEW v \in Viewers, NEW e \in Events, Receive(v, e)
    PROVE  /\ page' \in [Viewers -> Pages] /\ got' \in [Viewers -> Seq(Events)]
           /\ page'[v].last = e.id /\ got'[v] = Append(got[v], e)
           /\ \A w \in Viewers : w # v => page'[w] = page[w] /\ got'[w] = got[w]
<1> DEFINE pg == [Reduce(page[v], e) EXCEPT
                    !.last = e.id, !.at = IF e.place \in Terminal THEN "closed" ELSE "open"]
<1>1. page[v] \in Pages /\ e.id \in Nat BY DEF StreamType, Events
<1>2. pg \in Pages /\ pg.last = e.id BY <1>1, ReduceTyped DEF Pages
<1>3. page' = [page EXCEPT ![v] = pg] /\ got' = [got EXCEPT ![v] = Append(@, e)]
  BY DEF Receive
<1>4. Append(got[v], e) \in Seq(Events) BY AppendItems DEF StreamType
<1> HIDE DEF pg
<1> QED BY <1>2, <1>3, <1>4 DEF StreamType

LEMMA KnownParts ==
    ASSUME NEW x
    PROVE  x \in Known <=> x \in Items(rows) \/ \E v \in Viewers : x \in Of(v)
  BY Zenon DEF Known

LEMMA KnownTyped == StreamType => Known \subseteq Events
<1> SUFFICES ASSUME StreamType, NEW x \in Known PROVE x \in Events
  OBVIOUS
<1>1. ASSUME NEW s \in Seq(Events), x \in Items(s) PROVE x \in Events
  BY <1>1 DEF Items
<1>2. CASE x \in Items(rows) BY <1>1, <1>2 DEF StreamType
<1>3. ASSUME NEW v \in Viewers, x \in Of(v) PROVE x \in Events
  BY <1>1, <1>3 DEF StreamType, Of, Conns
<1> QED BY <1>2, <1>3, KnownParts

\* A step that brings in no event, and leaves the runs in order.
LEMMA KnownShrinks ==
    ASSUME IdsInOrder, Known' \subseteq Known, sequence' = sequence,
           \A e \in Known : Past(e) => Past(e)'
    PROVE  IdsInOrder'
<1>1. \A e \in Known' : e.id <= sequence' /\ Past(e)' BY DEF IdsInOrder
<1>2. \A e, f \in Known' : /\ e.id < f.id => Earlier(e, f)
                           /\ e.id = f.id => e = f
  BY DEF IdsInOrder
<1> QED BY <1>1, <1>2 DEF IdsInOrder, Earlier

\* A step of one viewer's connection.
LEMMA ViewerStep ==
    ASSUME StreamInv, StreamType', UNCHANGED <<rows, sequence, worker>>,
           NEW v \in Viewers,
           \A w \in Viewers : w # v => /\ conn'[w] = conn[w] /\ got'[w] = got[w]
                                       /\ page'[w].last = page[w].last,
           Items(got'[v]) \subseteq Known, Items(conn'[v].backlog) \subseteq Known,
           Items(conn'[v].queue) \subseteq Known,
           ViewerInOrder(v)', NothingLost(v)'
    PROVE  StreamInv'
<1>1. Known' \subseteq Known
  <2> SUFFICES ASSUME NEW x \in Known' PROVE x \in Known
    OBVIOUS
  <2>1. x \in Items(rows') \/ \E w \in Viewers : x \in Of(w)' BY Zenon DEF Known
  <2>2. CASE x \in Items(rows') BY <2>2, KnownParts
  <2>3. CASE x \in Of(v)' BY <2>3 DEF Of
  <2>4. ASSUME NEW w \in Viewers, w # v, x \in Of(w)' PROVE x \in Known
    <3>1. Of(w)' = Of(w) BY <2>4 DEF Of
    <3> QED BY <2>4, <3>1, KnownParts
  <2> QED BY <2>1, <2>2, <2>3, <2>4
<1>2. IdsInOrder' BY <1>1, KnownShrinks DEF StreamInv, Past
<1>3. TableInOrder' BY DEF StreamInv, TableInOrder, Ascending
<1>4. ASSUME NEW w \in Viewers, w # v PROVE ViewerInOrder(w)' /\ NothingLost(w)'
  <2>1. ViewerInOrder(w)' BY <1>4 DEF StreamInv, ViewerInOrder, Ascending, Items
  <2>2. NothingLost(w)' BY <1>4 DEF StreamInv, NothingLost, Coming, Items
  <2> QED BY <2>1, <2>2
<1> QED BY <1>2, <1>3, <1>4 DEF StreamInv

-----------------------------------------------------------------------------
(* The runner's steps.                                                      *)

LEMMA InitHolds == Init => StreamInv
<1> SUFFICES ASSUME Init PROVE StreamInv
  OBVIOUS
<1>1. Started \in 1..Failed BY StreamAssumption DEF Started, Failed
<1>2. NoConn \in Conns BY DEF NoConn, Conns
<1>3. NewPage \in Pages BY DEF NewPage, Pages
<1>4. StreamType BY <1>1, <1>2, <1>3 DEF Init, StreamType
<1>5. Items(<<>>) = {} /\ Ascending(<<>>) BY DEF Items, Ascending
<1>6. ASSUME NEW v \in Viewers
      PROVE  /\ conn[v].backlog = <<>> /\ conn[v].queue = <<>> /\ conn[v].at = "none"
             /\ got[v] = <<>> /\ page[v].last = 0
  BY DEF Init, NoConn, NewPage
<1>7. ASSUME NEW x \in Known PROVE FALSE
  <2>1. \A v \in Viewers : Of(v) = {} BY <1>5, <1>6 DEF Of
  <2> QED BY <1>5, <1>7, <2>1, KnownParts DEF Init
<1>8. IdsInOrder BY <1>7 DEF IdsInOrder
<1>9. TableInOrder BY <1>5 DEF TableInOrder, Init
<1>10. ASSUME NEW v \in Viewers PROVE ViewerInOrder(v) /\ NothingLost(v)
  <2>1. ViewerInOrder(v) BY <1>5, <1>6 DEF Init, ViewerInOrder
  <2>2. NothingLost(v) BY DEF Init, NothingLost
  <2> QED BY <2>1, <2>2
<1> QED BY <1>4, <1>8, <1>9, <1>10 DEF StreamInv

\* A step of the worker that leaves the table and the viewers alone.
LEMMA WorkerStep ==
    ASSUME StreamInv, UNCHANGED <<rows, sequence, conn, page, got>>,
           worker' \in [run : Nat, at : {"idle", "commit"}, place : 1..Failed],
           worker.at # "publish", \A e \in Known : Past(e) => Past(e)'
    PROVE  StreamInv'
<1>1. StreamType' BY DEF StreamInv, StreamType
<1>2. Known' \subseteq Known
  <2> SUFFICES ASSUME NEW x \in Known' PROVE x \in Known
    OBVIOUS
  <2>1. x \in Items(rows') \/ \E w \in Viewers : x \in Of(w)' BY Zenon DEF Known
  <2>2. \A w \in Viewers : Of(w)' = Of(w) BY DEF Of
  <2> QED BY <2>1, <2>2, KnownParts
<1>3. IdsInOrder' BY <1>2, KnownShrinks DEF StreamInv
<1>4. worker'.at # "publish" OBVIOUS
<1>5. TableInOrder' BY <1>4 DEF StreamInv, TableInOrder, Ascending
<1>6. ASSUME NEW v \in Viewers PROVE ViewerInOrder(v)' /\ NothingLost(v)'
  <2>1. ViewerInOrder(v)' BY <1>4 DEF StreamInv, ViewerInOrder, Ascending, Items
  <2>2. NothingLost(v)' BY <1>4 DEF StreamInv, NothingLost, Coming, Items
  <2> QED BY <2>1, <2>2
<1> QED BY <1>1, <1>3, <1>5, <1>6 DEF StreamInv

LEMMA KeepStartRun == StreamInv /\ StartRun => StreamInv'
<1> SUFFICES ASSUME StreamInv, StartRun PROVE StreamInv'
  OBVIOUS
<1> USE DEF StartRun, Viewing
<1>1. worker \in [run : Nat, at : {"idle", "commit", "publish"}, place : 1..Failed]
  BY DEF StreamInv, StreamType
<1>2. StreamType' BY <1>1, StreamAssumption DEF StreamInv, StreamType, Started, Failed
<1>3. Items(rows') = {} /\ Ascending(rows') /\ DOMAIN rows' = {}
  BY DEF Items, Ascending
<1>4. Known' \subseteq Known
  <2> SUFFICES ASSUME NEW x \in Known' PROVE x \in Known
    OBVIOUS
  <2>1. x \in Items(rows') \/ \E w \in Viewers : x \in Of(w)' BY Zenon DEF Known
  <2>2. \A w \in Viewers : Of(w)' = Of(w) BY DEF Of
  <2> QED BY <1>3, <2>1, <2>2, KnownParts
<1>5. ASSUME NEW e \in Known, Past(e) PROVE Past(e)'
  <2>1. e \in Events BY KnownTyped DEF StreamInv
  <2> QED BY <1>1, <1>5, <2>1 DEF Past, Events
<1>6. IdsInOrder' BY <1>4, <1>5, KnownShrinks DEF StreamInv
<1>7. TableInOrder' BY <1>3 DEF TableInOrder
<1>8. ASSUME NEW v \in Viewers PROVE ViewerInOrder(v)' /\ NothingLost(v)'
  <2>1. ViewerInOrder(v)' BY DEF StreamInv, ViewerInOrder, Ascending, Items
  <2>2. NothingLost(v)' BY <1>3 DEF NothingLost
  <2> QED BY <2>1, <2>2
<1> QED BY <1>2, <1>6, <1>7, <1>8 DEF StreamInv

LEMMA KeepFailRun == StreamInv /\ FailRun => StreamInv'
<1> SUFFICES ASSUME StreamInv, FailRun PROVE StreamInv'
  OBVIOUS
<1>1. worker \in [run : Nat, at : {"idle", "commit", "publish"}, place : 1..Failed]
  BY DEF StreamInv, StreamType
<1>2. Failed \in 1..Failed BY StreamAssumption DEF Failed
<1>3. ASSUME NEW e \in Known, Past(e) PROVE Past(e)'
  <2>1. e \in Events BY KnownTyped DEF StreamInv
  <2> QED BY <1>1, <1>2, <1>3, <2>1 DEF Past, Events, FailRun
<1> QED BY <1>1, <1>2, <1>3, WorkerStep DEF FailRun, Viewing

LEMMA KeepFailSilently == StreamInv /\ FailSilently => StreamInv'
<1> SUFFICES ASSUME StreamInv, FailSilently PROVE StreamInv'
  OBVIOUS
<1>1. worker \in [run : Nat, at : {"idle", "commit", "publish"}, place : 1..Failed]
  BY DEF StreamInv, StreamType
<1>2. ASSUME NEW e \in Known, Past(e) PROVE Past(e)'
  BY <1>1, <1>2 DEF Past, FailSilently
<1> QED BY <1>1, <1>2, WorkerStep DEF FailSilently, Viewing

\* The new row has the greatest id, and comes after every event known so far.
LEMMA KeepCommitEvent == ReuseIds = FALSE /\ StreamInv /\ CommitEvent => StreamInv'
<1> SUFFICES ASSUME ReuseIds = FALSE, StreamInv, CommitEvent PROVE StreamInv'
  OBVIOUS
<1> DEFINE e0 == [id |-> sequence + 1, run |-> worker.run, place |-> worker.place]
<1> USE DEF Viewing
<1>1. /\ worker \in [run : Nat, at : {"idle", "commit", "publish"}, place : 1..Failed]
      /\ rows \in Seq(Events) /\ sequence \in Nat
  BY DEF StreamInv, StreamType
<1>2. e0 \in Events BY <1>1 DEF Events
<1>3. e0.id = sequence + 1 /\ e0.run = worker.run /\ e0.place = worker.place
  OBVIOUS
<1>4. /\ rows' = Append(rows, e0) /\ sequence' = sequence + 1
      /\ worker' = [worker EXCEPT !.at = "publish"] /\ worker.at = "commit"
  BY DEF CommitEvent, NextId
<1> HIDE DEF e0
<1>5. StreamType'
  <2>1. rows' \in Seq(Events) BY <1>1, <1>2, <1>4, AppendItems
  <2>2. sequence' \in Nat BY <1>1, <1>4
  <2>3. worker' \in [run : Nat, at : {"idle", "commit", "publish"}, place : 1..Failed]
    BY <1>1, <1>4
  <2> QED BY <2>1, <2>2, <2>3 DEF StreamInv, StreamType, CommitEvent
<1>6. Items(rows') = Items(rows) \union {e0} BY <1>1, <1>2, <1>4, AppendItems
<1>7. ASSUME NEW x \in Known PROVE x \in Events /\ x.id < e0.id /\ Earlier(x, e0) /\ Past(x)'
  <2>1. x \in Events BY KnownTyped DEF StreamInv
  <2>2. x.id <= sequence /\ Past(x) BY DEF StreamInv, IdsInOrder
  <2> QED BY <1>1, <1>3, <1>4, <2>1, <2>2 DEF Past, Earlier, Events
<1>8. ASSUME NEW x \in Known', x # e0 PROVE x \in Known
  <2>1. x \in Items(rows') \/ \E w \in Viewers : x \in Of(w)' BY Zenon DEF Known
  <2>2. \A w \in Viewers : Of(w)' = Of(w) BY DEF Of, CommitEvent
  <2> QED BY <1>6, <1>8, <2>1, <2>2, KnownParts
<1>9. IdsInOrder'
  <2>1. ASSUME NEW x \in Known' PROVE x.id <= sequence' /\ Past(x)'
    <3>1. CASE x = e0 BY <1>1, <1>3, <1>4, <3>1 DEF Past
    <3>2. CASE x # e0
      <4>1. x \in Events /\ x.id < e0.id /\ Past(x)' BY <1>7, <1>8, <3>2
      <4> QED BY <1>1, <1>3, <1>4, <4>1 DEF Events
    <3> QED BY <3>1, <3>2
  <2>2. ASSUME NEW x \in Known', NEW y \in Known'
        PROVE  (x.id < y.id => Earlier(x, y)) /\ (x.id = y.id => x = y)
    <3>1. CASE x = e0 /\ y = e0 BY <1>1, <1>3, <3>1
    <3>2. CASE x # e0 /\ y # e0 BY <1>8, <3>2 DEF StreamInv, IdsInOrder
    <3>3. CASE x # e0 /\ y = e0
      <4>1. x \in Events /\ x.id < e0.id /\ Earlier(x, e0) BY <1>7, <1>8, <3>3
      <4> QED BY <1>1, <1>3, <3>3, <4>1 DEF Events
    <3>4. CASE x = e0 /\ y # e0
      <4>1. y \in Events /\ y.id < e0.id BY <1>7, <1>8, <3>4
      <4> QED BY <1>1, <1>3, <3>4, <4>1 DEF Events
    <3> QED BY <3>1, <3>2, <3>3, <3>4
  <2> QED BY <2>1, <2>2 DEF IdsInOrder, Earlier
<1>10. /\ DOMAIN rows = 1..Len(rows) /\ DOMAIN rows' = 1..(Len(rows) + 1)
       /\ Len(rows) \in Nat /\ Len(rows') = Len(rows) + 1
       /\ \A i \in 1..Len(rows) : rows'[i] = rows[i]
       /\ rows'[Len(rows) + 1] = e0
  BY <1>1, <1>2, <1>4
<1>11. TableInOrder'
  <2>1. \A x \in Items(rows) : x.id < e0.id BY <1>7, KnownParts
  <2>2. Ascending(rows)' BY <1>1, <1>2, <1>4, <2>1, AppendItems DEF StreamInv, TableInOrder
  <2> QED BY <1>3, <1>4, <1>10, <2>2 DEF TableInOrder
<1>12. ASSUME NEW v \in Viewers PROVE ViewerInOrder(v)'
  <2>1. \A x \in Items(conn[v].queue) : x.id < sequence + 1 BY <1>3, <1>7, KnownParts DEF Of
  <2>2. page[v].last \in Nat BY DEF StreamInv, StreamType, Pages
  <2>3. conn' = conn /\ page' = page /\ got' = got BY DEF CommitEvent
  <2>4. page[v].last <= sequence + 1 BY <1>1, <2>2 DEF StreamInv, ViewerInOrder
  <2> QED BY <1>4, <2>1, <2>3, <2>4 DEF StreamInv, ViewerInOrder, Ascending, Items
<1>13. ASSUME NEW v \in Viewers PROVE NothingLost(v)'
  <2>1. conn' = conn /\ page' = page /\ got' = got BY DEF CommitEvent
  <2>2. page[v].last <= sequence /\ page[v].last \in Nat
    BY DEF StreamInv, ViewerInOrder, StreamType, Pages
  <2> SUFFICES ASSUME NEW i \in 1..(Len(rows) + 1)
               PROVE  /\ rows'[i].id <= page[v].last => rows'[i] \in Items(got[v])
                      /\ conn[v].at = "replaying" /\ rows'[i].id > conn[v].last => Coming(v, i)'
    BY <1>10, <2>1 DEF NothingLost, Items
  <2>3. CASE i = Len(rows) + 1
    <3>1. ~(rows'[i].id <= page[v].last) BY <1>1, <1>3, <1>10, <2>2, <2>3
    <3>2. \A x \in Items(conn[v].backlog) : x.id < e0.id BY <1>7, KnownParts DEF Of
    <3>3. Coming(v, i)' BY <1>4, <1>10, <2>1, <2>3, <3>2 DEF Coming, Items
    <3> QED BY <3>1, <3>3
  <2>4. CASE i \in 1..Len(rows)
    <3>1. rows'[i] = rows[i] BY <1>10, <2>4
    <3>2. NothingLost(v) BY DEF StreamInv
    <3>3. Coming(v, i) => Coming(v, i)' BY <1>4, <2>1, <3>1 DEF Coming, Items
    <3> QED BY <1>10, <2>4, <3>1, <3>2, <3>3 DEF NothingLost
  <2> QED BY <1>10, <2>3, <2>4
<1> QED BY <1>5, <1>9, <1>11, <1>12, <1>13 DEF StreamInv

LEMMA KeepPublishEvent == StreamInv /\ PublishEvent => StreamInv'
<1> SUFFICES ASSUME StreamInv, PublishEvent PROVE StreamInv'
  OBVIOUS
<1> DEFINE e0 == rows[Len(rows)]
<1>1. /\ worker \in [run : Nat, at : {"idle", "commit", "publish"}, place : 1..Failed]
      /\ rows \in Seq(Events) /\ sequence \in Nat /\ conn \in [Viewers -> Conns]
      /\ worker.at = "publish" /\ rows # <<>> /\ e0.id = sequence
  BY DEF StreamInv, StreamType, TableInOrder, PublishEvent
<1>2. e0 \in Events /\ e0 \in Items(rows)
  <2>1. Len(rows) \in DOMAIN rows BY <1>1
  <2> QED BY <1>1, <2>1 DEF Items
<1>3. UNCHANGED <<rows, sequence, page, got>> BY DEF PublishEvent
<1>4. /\ worker' \in [run : Nat, at : {"idle", "commit"}, place : 1..Failed]
      /\ worker'.run = worker.run
      /\ worker'.at = "idle" \/ worker'.place = worker.place + 1
  <2>1. CASE worker.place \in Terminal BY <1>1, <2>1 DEF PublishEvent
  <2>2. CASE worker.place \notin Terminal
    <3>1. worker.place + 1 \in 1..Failed
      BY <1>1, <2>2, StreamAssumption DEF Terminal, Failed
    <3> QED BY <1>1, <2>2, <3>1 DEF PublishEvent
  <2> QED BY <2>1, <2>2
<1> HIDE DEF e0
<1>5. ASSUME NEW v \in Viewers
      PROVE  /\ conn'[v] \in Conns
             /\ conn'[v].at = conn[v].at /\ conn'[v].last = conn[v].last
             /\ conn'[v].backlog = conn[v].backlog
             /\ conn[v].at = "none" => conn'[v].queue = conn[v].queue
             /\ conn[v].at # "none" => conn'[v].queue = Append(conn[v].queue, e0)
  <2>1. conn[v] \in Conns BY <1>1
  <2>2. Append(conn[v].queue, e0) \in Seq(Events) BY <1>2, <2>1, AppendItems DEF Conns
  <2>3. CASE conn[v].at = "none" BY <2>1, <2>3 DEF PublishEvent
  <2>4. CASE conn[v].at # "none"
    <3>1. conn'[v] = [conn[v] EXCEPT !.queue = Append(conn[v].queue, e0)]
      BY <2>4 DEF PublishEvent, e0
    <3> QED BY <2>1, <2>2, <2>4, <3>1 DEF Conns
  <2> QED BY <2>3, <2>4
<1>6. ASSUME NEW v \in Viewers
      PROVE  /\ Items(conn'[v].queue) \subseteq Items(conn[v].queue) \union {e0}
             /\ Items(conn[v].queue) \subseteq Items(conn'[v].queue)
             /\ conn[v].at # "none" => e0 \in Items(conn'[v].queue)
             /\ Ascending(conn'[v].queue)
  <2>1. conn[v].queue \in Seq(Events) BY <1>1 DEF Conns
  <2>2. Ascending(conn[v].queue) /\ \A x \in Items(conn[v].queue) : x.id < e0.id
    BY <1>1 DEF StreamInv, ViewerInOrder
  <2>3. CASE conn[v].at = "none" BY <1>5, <2>2, <2>3
  <2>4. CASE conn[v].at # "none" BY <1>2, <1>5, <2>1, <2>2, <2>4, AppendItems
  <2> QED BY <2>3, <2>4
<1>7. StreamType'
  <2>1. conn' \in [Viewers -> Conns]
    <3>1. conn' = [v \in Viewers |-> conn'[v]] BY DEF PublishEvent
    <3> QED BY <1>5, <3>1
  <2> QED BY <1>3, <1>4, <2>1 DEF StreamInv, StreamType
<1>8. Known' \subseteq Known
  <2> SUFFICES ASSUME NEW x \in Known' PROVE x \in Known
    OBVIOUS
  <2>1. x \in Items(rows') \/ \E w \in Viewers : x \in Of(w)' BY Zenon DEF Known
  <2>2. \A w \in Viewers : Of(w)' \subseteq Of(w) \union {e0} BY <1>3, <1>5, <1>6 DEF Of
  <2> QED BY <1>2, <1>3, <2>1, <2>2, KnownParts
<1>9. ASSUME NEW e \in Known, Past(e) PROVE Past(e)'
  <2>1. e \in Events BY KnownTyped DEF StreamInv
  <2> QED BY <1>1, <1>4, <1>9, <2>1 DEF Past, Events
<1>10. IdsInOrder' BY <1>3, <1>8, <1>9, KnownShrinks DEF StreamInv
<1>11. TableInOrder' BY <1>3, <1>4 DEF StreamInv, TableInOrder, Ascending
<1>12. ASSUME NEW v \in Viewers PROVE ViewerInOrder(v)'
  <2>1. worker'.at # "publish" BY <1>4
  <2>2. ViewerInOrder(v) BY DEF StreamInv
  <2> QED BY <1>3, <1>5, <1>6, <2>1, <2>2 DEF ViewerInOrder
<1>13. ASSUME NEW v \in Viewers PROVE NothingLost(v)'
  <2>1. NothingLost(v) BY DEF StreamInv
  <2>2. ASSUME NEW i \in DOMAIN rows, conn[v].at = "replaying", Coming(v, i)
        PROVE  Coming(v, i)'
    BY <1>3, <1>5, <1>6, <2>2 DEF Coming, e0
  <2> QED BY <1>3, <1>5, <2>1, <2>2 DEF NothingLost
<1> QED BY <1>7, <1>10, <1>11, <1>12, <1>13 DEF StreamInv

LEMMA KeepCrash == StreamInv /\ Crash => StreamInv'
<1> SUFFICES ASSUME StreamInv, Crash PROVE StreamInv'
  OBVIOUS
<1>1. UNCHANGED <<rows, sequence, got>> /\ worker' = [worker EXCEPT !.at = "idle"]
  BY DEF Crash
<1>2. worker \in [run : Nat, at : {"idle", "commit", "publish"}, place : 1..Failed]
  BY DEF StreamInv, StreamType
<1>3. ASSUME NEW v \in Viewers
      PROVE  /\ conn'[v] = NoConn
             /\ page'[v] \in Pages /\ page'[v].last = page[v].last
  <2>1. page[v] \in Pages BY DEF StreamInv, StreamType
  <2>2. page'[v] = page[v] \/ page'[v] = [page[v] EXCEPT !.at = "connecting"] BY DEF Crash
  <2> QED BY <2>1, <2>2 DEF Crash, Pages
<1>4. NoConn \in Conns BY DEF NoConn, Conns
<1>5. StreamType'
  <2>1. conn' \in [Viewers -> Conns] BY <1>4 DEF Crash
  <2>2. page' \in [Viewers -> Pages]
    <3>1. page' = [v \in Viewers |-> page'[v]] BY DEF Crash
    <3> QED BY <1>3, <3>1
  <2> QED BY <1>1, <1>2, <2>1, <2>2 DEF StreamInv, StreamType
<1>6. Items(<<>>) = {} /\ Ascending(<<>>) BY DEF Items, Ascending
<1>7. Known' \subseteq Known
  <2> SUFFICES ASSUME NEW x \in Known' PROVE x \in Known
    OBVIOUS
  <2>1. x \in Items(rows') \/ \E w \in Viewers : x \in Of(w)' BY Zenon DEF Known
  <2>2. \A w \in Viewers : Of(w)' \subseteq Of(w) BY <1>1, <1>3, <1>6 DEF Of, NoConn
  <2> QED BY <1>1, <2>1, <2>2, KnownParts
<1>8. ASSUME NEW e \in Known, Past(e) PROVE Past(e)'
  BY <1>1, <1>2, <1>8 DEF Past
<1>9. IdsInOrder' BY <1>1, <1>7, <1>8, KnownShrinks DEF StreamInv
<1>10. TableInOrder' BY <1>1, <1>2 DEF StreamInv, TableInOrder, Ascending
<1>11. ASSUME NEW v \in Viewers PROVE ViewerInOrder(v)'
  <2>1. ViewerInOrder(v) BY DEF StreamInv
  <2> QED BY <1>1, <1>3, <1>6, <2>1 DEF ViewerInOrder, NoConn, Ascending, Items
<1>12. ASSUME NEW v \in Viewers PROVE NothingLost(v)'
  <2>1. NothingLost(v) BY DEF StreamInv
  <2> QED BY <1>1, <1>3, <2>1 DEF NothingLost, NoConn, Items
<1> QED BY <1>5, <1>9, <1>10, <1>11, <1>12 DEF StreamInv

-----------------------------------------------------------------------------
(* The steps of one viewer.                                                 *)

\* The connection of v is closed or opened anew: nothing is on its way to v.
LEMMA EmptyConnection ==
    ASSUME StreamInv, UNCHANGED <<rows, sequence, worker, got>>,
           NEW v \in Viewers, NEW c \in Conns, NEW pg \in Pages,
           c.at # "replaying", c.backlog = <<>>, c.queue = <<>>,
           c.at = "none" \/ c.last = page[v].last,
           pg.last = page[v].last,
           conn' = [conn EXCEPT ![v] = c], page' = [page EXCEPT ![v] = pg]
    PROVE  StreamInv'
<1>1. conn \in [Viewers -> Conns] /\ page \in [Viewers -> Pages]
  BY DEF StreamInv, StreamType
<1>2. StreamType' BY <1>1 DEF StreamInv, StreamType
<1>3. conn'[v] = c /\ page'[v] = pg BY <1>1
<1>4. \A w \in Viewers : w # v => /\ conn'[w] = conn[w] /\ got'[w] = got[w]
                                  /\ page'[w].last = page[w].last
  BY <1>1
<1>5. Items(<<>>) = {} /\ Ascending(<<>>) BY DEF Items, Ascending
<1>6. ViewerInOrder(v)'
  <2>1. ViewerInOrder(v) BY DEF StreamInv
  <2> QED BY <1>3, <1>5, <2>1 DEF ViewerInOrder, Ascending, Items
<1>7. NothingLost(v)'
  <2>1. NothingLost(v) BY DEF StreamInv
  <2> QED BY <1>3, <2>1 DEF NothingLost, Items
<1>8. Items(got'[v]) \subseteq Known
  <2>1. Items(got'[v]) = Items(got[v]) OBVIOUS
  <2> QED BY <2>1, KnownParts DEF Of
<1> QED BY <1>2, <1>3, <1>4, <1>5, <1>6, <1>7, <1>8, ViewerStep

LEMMA KeepConnect == \A v \in Viewers : StreamInv /\ Connect(v) => StreamInv'
<1> SUFFICES ASSUME NEW v \in Viewers, StreamInv, Connect(v) PROVE StreamInv'
  OBVIOUS
<1> DEFINE c  == [NoConn EXCEPT !.at = "subscribed", !.last = page[v].last]
           pg == [page[v] EXCEPT !.at = "open", !.opened = TRUE]
<1>1. page[v] \in Pages /\ page \in [Viewers -> Pages] BY DEF StreamInv, StreamType
<1>2. c \in Conns /\ c.at = "subscribed" /\ c.backlog = <<>> /\ c.queue = <<>>
      /\ c.last = page[v].last
  <2>1. page[v].last \in Nat BY <1>1 DEF Pages
  <2>2. NoConn \in Conns /\ NoConn.backlog = <<>> /\ NoConn.queue = <<>>
    BY DEF NoConn, Conns
  <2> QED BY <2>1, <2>2 DEF Conns
<1>3. pg \in Pages /\ pg.last = page[v].last BY <1>1 DEF Pages
<1>4. conn' = [conn EXCEPT ![v] = c] /\ page' = [page EXCEPT ![v] = pg]
  BY <1>1 DEF Connect
<1> HIDE DEF c, pg
<1> QED BY <1>2, <1>3, <1>4, EmptyConnection DEF Connect, Running

LEMMA KeepBreak == \A v \in Viewers : StreamInv /\ Break(v) => StreamInv'
<1> SUFFICES ASSUME NEW v \in Viewers, StreamInv, Break(v) PROVE StreamInv'
  OBVIOUS
<1> DEFINE pg == [page[v] EXCEPT !.at = "connecting"]
<1>1. page[v] \in Pages /\ page \in [Viewers -> Pages] BY DEF StreamInv, StreamType
<1>2. NoConn \in Conns /\ NoConn.at = "none" /\ NoConn.backlog = <<>> /\ NoConn.queue = <<>>
  BY DEF NoConn, Conns
<1>3. pg \in Pages /\ pg.last = page[v].last BY <1>1 DEF Pages
<1>4. conn' = [conn EXCEPT ![v] = NoConn] /\ page' = [page EXCEPT ![v] = pg]
  BY DEF Break
<1> HIDE DEF pg
<1> QED BY <1>2, <1>3, <1>4, EmptyConnection DEF Break, Running

LEMMA KeepConnectTimeout == \A v \in Viewers : StreamInv /\ ConnectTimeout(v) => StreamInv'
<1> SUFFICES ASSUME NEW v \in Viewers, StreamInv, ConnectTimeout(v) PROVE StreamInv'
  OBVIOUS
<1>1. page[v] \in Pages /\ page \in [Viewers -> Pages] BY DEF StreamInv, StreamType
<1>2. page' \in [Viewers -> Pages] /\ page'[v].last = page[v].last
  BY <1>1 DEF ConnectTimeout, Pages
<1>3. StreamType' BY <1>2 DEF StreamInv, StreamType, ConnectTimeout, Running
<1>4. UNCHANGED <<rows, sequence, worker, conn, got>> BY DEF ConnectTimeout, Running
<1>5. ViewerInOrder(v)' /\ NothingLost(v)'
  <2>1. ViewerInOrder(v) /\ NothingLost(v) BY DEF StreamInv
  <2>2. ViewerInOrder(v)' BY <1>2, <1>4, <2>1 DEF ViewerInOrder, Ascending, Items
  <2>3. NothingLost(v)' BY <1>2, <1>4, <2>1 DEF NothingLost, Coming, Items
  <2> QED BY <2>2, <2>3
<1>6. \A w \in Viewers : w # v => page'[w].last = page[w].last
  BY <1>1 DEF ConnectTimeout
<1>7. /\ Items(got'[v]) \subseteq Known /\ Items(conn'[v].backlog) \subseteq Known
      /\ Items(conn'[v].queue) \subseteq Known
  <2>1. got'[v] = got[v] /\ conn'[v] = conn[v] BY <1>4
  <2> QED BY <2>1, KnownParts DEF Of
<1> QED BY <1>3, <1>4, <1>5, <1>6, <1>7, ViewerStep

LEMMA KeepRefused == \A v \in Viewers : StreamInv /\ Refused(v) => StreamInv'
<1> SUFFICES ASSUME NEW v \in Viewers, StreamInv, Refused(v) PROVE StreamInv'
  OBVIOUS
<1>1. page[v] \in Pages /\ page \in [Viewers -> Pages] BY DEF StreamInv, StreamType
<1>2. page' \in [Viewers -> Pages] /\ page'[v].last = page[v].last
  BY <1>1 DEF Refused, Pages
<1>3. StreamType' BY <1>2 DEF StreamInv, StreamType, Refused, Running
<1>4. UNCHANGED <<rows, sequence, worker, conn, got>> BY DEF Refused, Running
<1>5. ViewerInOrder(v)' /\ NothingLost(v)'
  <2>1. ViewerInOrder(v) /\ NothingLost(v) BY DEF StreamInv
  <2>2. ViewerInOrder(v)' BY <1>2, <1>4, <2>1 DEF ViewerInOrder, Ascending, Items
  <2>3. NothingLost(v)' BY <1>2, <1>4, <2>1 DEF NothingLost, Coming, Items
  <2> QED BY <2>2, <2>3
<1>6. \A w \in Viewers : w # v => page'[w].last = page[w].last
  BY <1>1 DEF Refused
<1>7. /\ Items(got'[v]) \subseteq Known /\ Items(conn'[v].backlog) \subseteq Known
      /\ Items(conn'[v].queue) \subseteq Known
  <2>1. got'[v] = got[v] /\ conn'[v] = conn[v] BY <1>4
  <2> QED BY <2>1, KnownParts DEF Of
<1> QED BY <1>3, <1>4, <1>5, <1>6, <1>7, ViewerStep

LEMMA KeepReadBacklog == \A v \in Viewers : StreamInv /\ ReadBacklog(v) => StreamInv'
<1> SUFFICES ASSUME NEW v \in Viewers, StreamInv, ReadBacklog(v) PROVE StreamInv'
  OBVIOUS
<1>1. UNCHANGED <<rows, sequence, worker, page, got>> BY DEF ReadBacklog, Running
<1>2. conn \in [Viewers -> Conns] /\ conn[v] \in Conns /\ rows \in Seq(Events)
  BY DEF StreamInv, StreamType
<1>3. PICK n \in 0..Len(rows) :
          /\ \A i \in DOMAIN rows : i <= n <=> rows[i].id <= conn[v].last
          /\ conn' = [conn EXCEPT ![v].at = "replaying",
                                  ![v].backlog = SubSeq(rows, n + 1, Len(rows))]
  BY DEF ReadBacklog
<1> DEFINE b == SubSeq(rows, n + 1, Len(rows))
<1>4. /\ b \in Seq(Events)
      /\ Items(b) = {rows[i] : i \in {j \in DOMAIN rows : j > n}}
      /\ Ascending(b)
  BY <1>2, SuffixItems DEF StreamInv, TableInOrder
<1>5. conn' = [conn EXCEPT ![v].at = "replaying", ![v].backlog = b] BY <1>3
<1> HIDE DEF b
<1>6. /\ conn' \in [Viewers -> Conns]
      /\ conn'[v].at = "replaying" /\ conn'[v].backlog = b
      /\ conn'[v].last = conn[v].last /\ conn'[v].queue = conn[v].queue
      /\ \A w \in Viewers : w # v => conn'[w] = conn[w]
  BY <1>2, <1>4, <1>5 DEF Conns
<1>7. StreamType' BY <1>1, <1>6 DEF StreamInv, StreamType
<1>8. DOMAIN rows = 1..Len(rows) /\ Len(rows) \in Nat BY <1>2
<1>9. \A i \in DOMAIN rows : i > n <=> rows[i].id > conn[v].last
  <2> SUFFICES ASSUME NEW i \in DOMAIN rows PROVE i > n <=> rows[i].id > conn[v].last
    OBVIOUS
  <2>1. rows[i].id \in Nat /\ conn[v].last \in Nat
    <3>1. rows[i] \in Events BY <1>2
    <3> QED BY <1>2, <3>1 DEF Events, Conns
  <2> QED BY <1>3, <1>8, <2>1
<1>10. ViewerInOrder(v)'
  <2>1. ViewerInOrder(v) /\ conn[v].at = "subscribed" BY DEF StreamInv, ReadBacklog
  <2>2. \A e \in Items(b) : e.id > conn[v].last BY <1>4, <1>9
  <2> QED BY <1>1, <1>4, <1>6, <2>1, <2>2 DEF ViewerInOrder, Ascending, Items
<1>11. NothingLost(v)'
  <2>1. NothingLost(v) BY DEF StreamInv
  <2>2. \A i \in DOMAIN rows : rows[i].id > conn[v].last => rows[i] \in Items(b)
    BY <1>4, <1>9
  <2>3. ASSUME NEW i \in DOMAIN rows, rows[i].id > conn[v].last PROVE Coming(v, i)'
    <3>1. rows'[i] \in Items(conn'[v].backlog) BY <1>1, <1>6, <2>2, <2>3
    <3> QED BY <3>1 DEF Coming, Items
  <2>4. \A i \in DOMAIN rows : rows[i].id <= page[v].last => rows[i] \in Items(got[v])
    BY <2>1 DEF NothingLost
  <2> QED BY <1>1, <1>6, <2>3, <2>4 DEF NothingLost, Items
<1>12. Items(got'[v]) \subseteq Known /\ Items(b) \subseteq Known
       /\ Items(conn[v].queue) \subseteq Known
  <2>1. Items(b) \subseteq Items(rows) BY <1>4 DEF Items
  <2>2. got'[v] = got[v] BY <1>1
  <2> QED BY <2>1, <2>2, KnownParts DEF Of
<1> QED BY <1>1, <1>6, <1>7, <1>10, <1>11, <1>12, ViewerStep

LEMMA KeepSkipFrame == \A v \in Viewers : StreamInv /\ SkipFrame(v) => StreamInv'
<1> SUFFICES ASSUME NEW v \in Viewers, StreamInv, SkipFrame(v) PROVE StreamInv'
  OBVIOUS
<1> DEFINE q == conn[v].queue
<1>1. UNCHANGED <<rows, sequence, worker, page, got>> BY DEF SkipFrame, Running
<1>2. conn \in [Viewers -> Conns] /\ conn[v] \in Conns /\ rows \in Seq(Events)
  BY DEF StreamInv, StreamType
<1>3. q \in Seq(Events) /\ q # <<>> /\ Ascending(q) /\ Head(q).id <= conn[v].last
  BY <1>2 DEF SkipFrame, Conns, StreamInv, ViewerInOrder
<1>4. /\ Tail(q) \in Seq(Events) /\ Head(q) \in Events
      /\ Items(q) = {Head(q)} \union Items(Tail(q)) /\ Ascending(Tail(q))
  BY <1>3, TailItems
<1>5. conn' = [conn EXCEPT ![v].queue = Tail(q)] BY DEF SkipFrame
<1> HIDE DEF q
<1>6. /\ conn' \in [Viewers -> Conns]
      /\ conn'[v].queue = Tail(q) /\ conn'[v].backlog = conn[v].backlog
      /\ conn'[v].last = conn[v].last /\ conn'[v].at = conn[v].at
      /\ \A w \in Viewers : w # v => conn'[w] = conn[w]
  BY <1>2, <1>4, <1>5 DEF Conns
<1>7. StreamType' BY <1>1, <1>6 DEF StreamInv, StreamType
<1>8. ViewerInOrder(v)'
  <2>1. ViewerInOrder(v) BY DEF StreamInv
  <2>2. \A e \in Items(Tail(q)) : e \in Items(conn[v].queue) BY <1>4 DEF q
  <2> QED BY <1>1, <1>4, <1>6, <2>1, <2>2 DEF ViewerInOrder, Ascending, Items
<1>9. NothingLost(v)'
  <2>1. NothingLost(v) BY DEF StreamInv
  <2>2. ASSUME NEW i \in DOMAIN rows, rows[i].id > conn[v].last, Coming(v, i)
        PROVE  Coming(v, i)'
    <3>1. rows[i] \in Events /\ Head(q).id \in Nat /\ conn[v].last \in Nat
      <4>1. rows[i] \in Events BY <1>2
      <4> QED BY <1>2, <1>4, <4>1 DEF Events, Conns
    <3>2. rows[i] # Head(q) BY <1>3, <2>2, <3>1 DEF Events
    <3>3. rows[i] \in Items(conn[v].queue) => rows[i] \in Items(conn'[v].queue)
      BY <1>4, <1>6, <3>2 DEF q
    <3> QED BY <1>1, <1>6, <2>2, <3>3 DEF Coming
  <2> QED BY <1>1, <1>6, <2>1, <2>2 DEF NothingLost, Items
<1>10. /\ Items(got'[v]) \subseteq Known /\ Items(conn'[v].backlog) \subseteq Known
       /\ Items(conn'[v].queue) \subseteq Known
  <2>1. got'[v] = got[v] /\ Items(conn'[v].queue) \subseteq Items(conn[v].queue)
    BY <1>1, <1>4, <1>6 DEF q
  <2> QED BY <1>6, <2>1, KnownParts DEF Of
<1> QED BY <1>1, <1>6, <1>7, <1>8, <1>9, <1>10, ViewerStep

\* A frame that reaches v: the head of what is on its way, newer than all v has got.
LEMMA FrameReceived ==
    ASSUME StreamInv, UNCHANGED <<rows, sequence, worker>>,
           NEW v \in Viewers, NEW e \in Events, NEW c \in Conns, Receive(v, e),
           e \in Known, e.id > page[v].last,
           conn' = [conn EXCEPT ![v] = c],
           Items(c.backlog) \subseteq Items(conn[v].backlog),
           Items(c.queue) \subseteq Items(conn[v].queue),
           Ascending(c.backlog), Ascending(c.queue),
           c.at # "none" => c.last = e.id,
           \A x \in Items(c.backlog) : x.id > c.last,
           \A i \in DOMAIN rows :
               /\ rows[i].id > page[v].last /\ rows[i].id <= e.id => rows[i] = e
               /\ c.at = "replaying" /\ rows[i].id > e.id
                  => \/ rows[i] \in Items(c.backlog)
                     \/ /\ \A x \in Items(c.backlog) : x.id < rows[i].id
                        /\ rows[i] \in Items(c.queue) \/ (worker.at = "publish" /\ i = Len(rows))
    PROVE  StreamInv'
<1>1. StreamType /\ ViewerInOrder(v) /\ NothingLost(v) /\ IdsInOrder BY DEF StreamInv
<1>2. /\ page' \in [Viewers -> Pages] /\ got' \in [Viewers -> Seq(Events)]
      /\ page'[v].last = e.id /\ got'[v] = Append(got[v], e)
      /\ \A w \in Viewers : w # v => page'[w] = page[w] /\ got'[w] = got[w]
  BY <1>1, ReceiveTyped
<1>3. conn' \in [Viewers -> Conns] /\ conn'[v] = c
      /\ \A w \in Viewers : w # v => conn'[w] = conn[w]
  BY <1>1 DEF StreamType
<1>4. StreamType' BY <1>1, <1>2, <1>3 DEF StreamType
<1>5. got[v] \in Seq(Events) /\ page[v].last \in Nat /\ e.id \in Nat /\ rows \in Seq(Events)
  BY <1>1 DEF StreamType, Pages, Events
<1>6. ASSUME NEW x \in Items(got[v]) PROVE x.id \in Nat
  <2>1. x \in Events BY <1>5 DEF Items
  <2> QED BY <2>1 DEF Events
<1>7. \A x \in Items(got[v]) : x.id <= page[v].last BY <1>1 DEF ViewerInOrder
<1>8. \A x \in Items(got[v]) : x.id < e.id BY <1>5, <1>6, <1>7
<1>9. Items(got'[v]) = Items(got[v]) \union {e} /\ Ascending(got'[v])
  BY <1>1, <1>2, <1>5, <1>8, AppendItems DEF ViewerInOrder
<1>10. ViewerInOrder(v)'
  <2>1. \A x \in Items(got'[v]) : x.id <= page'[v].last BY <1>2, <1>5, <1>6, <1>8, <1>9
  <2>2. page'[v].last <= sequence' BY <1>1, <1>2 DEF IdsInOrder
  <2>3. worker'.at = "publish" => \A x \in Items(conn'[v].queue) : x.id < sequence'
    BY <1>1, <1>3 DEF ViewerInOrder
  <2> QED BY <1>2, <1>3, <1>9, <2>1, <2>2, <2>3 DEF ViewerInOrder
<1>11. NothingLost(v)'
  <2>1. ASSUME NEW i \in DOMAIN rows, rows[i].id <= e.id PROVE rows[i] \in Items(got'[v])
    <3>1. rows[i].id \in Nat
      <4>1. rows[i] \in Events BY <1>5
      <4> QED BY <4>1 DEF Events
    <3>2. CASE rows[i].id <= page[v].last BY <1>1, <1>9, <3>2 DEF NothingLost
    <3>3. CASE rows[i].id > page[v].last BY <1>9, <2>1, <3>3
    <3> QED BY <1>5, <3>1, <3>2, <3>3
  <2>2. ASSUME NEW i \in DOMAIN rows, c.at = "replaying", rows[i].id > c.last
        PROVE  Coming(v, i)'
    <3>1. rows[i].id > e.id BY <2>2
    <3> QED BY <1>3, <2>2, <3>1 DEF Coming
  <2> QED BY <1>2, <1>3, <2>1, <2>2 DEF NothingLost
<1>12. /\ Items(got'[v]) \subseteq Known /\ Items(conn'[v].backlog) \subseteq Known
       /\ Items(conn'[v].queue) \subseteq Known
  BY <1>3, <1>9, KnownParts DEF Of
<1> QED BY <1>2, <1>3, <1>4, <1>10, <1>11, <1>12, ViewerStep

LEMMA KeepReplayFrame == \A v \in Viewers : StreamInv /\ ReplayFrame(v) => StreamInv'
<1> SUFFICES ASSUME NEW v \in Viewers, StreamInv, ReplayFrame(v) PROVE StreamInv'
  OBVIOUS
<1> DEFINE b == conn[v].backlog
           e == Head(b)
           c == IF e.place \in Terminal THEN NoConn
                ELSE [conn[v] EXCEPT !.last = e.id, !.backlog = Tail(b)]
<1>1. StreamType /\ ViewerInOrder(v) /\ NothingLost(v) BY DEF StreamInv
<1>2. /\ conn[v] \in Conns /\ b \in Seq(Events) /\ b # <<>> /\ Ascending(b)
      /\ conn[v].queue \in Seq(Events) /\ conn[v].at = "replaying"
      /\ conn[v].last = page[v].last /\ page[v].last \in Nat
  BY <1>1 DEF StreamType, Conns, Pages, ReplayFrame, ViewerInOrder
<1>3. /\ Tail(b) \in Seq(Events) /\ e \in Events
      /\ Items(b) = {e} \union Items(Tail(b)) /\ Ascending(Tail(b))
      /\ \A x \in Items(Tail(b)) : e.id < x.id
  BY <1>2, TailItems
<1>4. /\ Receive(v, e) /\ conn' = [conn EXCEPT ![v] = c]
      /\ UNCHANGED <<rows, sequence, worker>>
  BY DEF ReplayFrame, Running
<1>5. Items(<<>>) = {} /\ Ascending(<<>>) BY DEF Items, Ascending
<1>6. \A x \in Items(b) : x.id > page[v].last BY <1>1, <1>2 DEF ViewerInOrder
<1>7. e \in Known /\ e.id > page[v].last BY <1>3, <1>6, KnownParts DEF Of
<1> HIDE DEF e, b
<1>8. /\ c \in Conns /\ Items(c.backlog) \subseteq Items(Tail(b))
      /\ Items(c.queue) \subseteq Items(conn[v].queue)
      /\ Ascending(c.backlog) /\ Ascending(c.queue)
      /\ c.at # "none" => /\ c.last = e.id /\ c.backlog = Tail(b) /\ c.queue = conn[v].queue
      /\ c.at = "none" => c.backlog = <<>>
  <2>1. CASE e.place \in Terminal BY <1>5, <2>1 DEF NoConn, Conns
  <2>2. CASE e.place \notin Terminal
    <3>1. Ascending(conn[v].queue) BY <1>1 DEF ViewerInOrder
    <3>2. e.id \in Nat BY <1>3 DEF Events
    <3> QED BY <1>2, <1>3, <2>2, <3>1, <3>2 DEF Conns
  <2> QED BY <2>1, <2>2
<1> HIDE DEF c
<1>9. \A x \in Items(c.backlog) : x.id > c.last
  <2>1. CASE c.at = "none" BY <1>5, <1>8, <2>1
  <2>2. CASE c.at # "none"
    <3>1. ASSUME NEW x \in Items(Tail(b)) PROVE x.id > e.id
      <4>1. x \in Events BY <1>3 DEF Items
      <4> QED BY <1>3, <4>1 DEF Events
    <3> QED BY <1>8, <2>2, <3>1
  <2> QED BY <2>1, <2>2
<1>10. ASSUME NEW i \in DOMAIN rows, rows[i].id > page[v].last
       PROVE  /\ rows[i].id <= e.id => rows[i] = e
              /\ c.at = "replaying" /\ rows[i].id > e.id
                 => \/ rows[i] \in Items(c.backlog)
                    \/ /\ \A x \in Items(c.backlog) : x.id < rows[i].id
                       /\ rows[i] \in Items(c.queue) \/ (worker.at = "publish" /\ i = Len(rows))
  <2>1. rows[i].id \in Nat /\ e.id \in Nat
    <3>1. rows[i] \in Events BY <1>1 DEF StreamType
    <3> QED BY <1>3, <3>1 DEF Events
  <2>2. Coming(v, i) BY <1>1, <1>2, <1>10 DEF NothingLost
  <2>3. CASE rows[i] \in Items(b)
    <3>1. rows[i] = e \/ rows[i] \in Items(Tail(b)) BY <1>3, <2>3
    <3>2. rows[i] \in Items(Tail(b)) => ~(rows[i].id <= e.id) BY <1>3, <2>1
    <3>3. rows[i] = e => ~(rows[i].id > e.id) BY <2>1
    <3>4. c.at = "replaying" => c.backlog = Tail(b) BY <1>8
    <3> QED BY <3>1, <3>2, <3>3, <3>4
  <2>4. CASE rows[i] \notin Items(b)
    <3>1. /\ \A x \in Items(b) : x.id < rows[i].id
          /\ rows[i] \in Items(conn[v].queue) \/ (worker.at = "publish" /\ i = Len(rows))
      BY <2>2, <2>4 DEF Coming, b
    <3>2. ~(rows[i].id <= e.id) BY <1>3, <2>1, <3>1
    <3>3. \A x \in Items(c.backlog) : x.id < rows[i].id BY <1>3, <1>8, <3>1
    <3> QED BY <1>8, <3>1, <3>2, <3>3
  <2> QED BY <2>3, <2>4
<1>11. ASSUME NEW i \in DOMAIN rows
       PROVE  /\ rows[i].id > page[v].last /\ rows[i].id <= e.id => rows[i] = e
              /\ c.at = "replaying" /\ rows[i].id > e.id
                 => \/ rows[i] \in Items(c.backlog)
                    \/ /\ \A x \in Items(c.backlog) : x.id < rows[i].id
                       /\ rows[i] \in Items(c.queue) \/ (worker.at = "publish" /\ i = Len(rows))
  <2>1. rows[i].id \in Nat /\ e.id \in Nat
    <3>1. rows[i] \in Events BY <1>1 DEF StreamType
    <3> QED BY <1>3, <3>1 DEF Events
  <2>2. rows[i].id > e.id => rows[i].id > page[v].last BY <1>2, <1>7, <2>1
  <2> QED BY <1>10, <2>2
<1>12. Items(c.backlog) \subseteq Items(conn[v].backlog) BY <1>3, <1>8 DEF b
<1> QED BY <1>3, <1>4, <1>7, <1>8, <1>9, <1>11, <1>12, FrameReceived

LEMMA KeepTailFrame == \A v \in Viewers : StreamInv /\ TailFrame(v) => StreamInv'
<1> SUFFICES ASSUME NEW v \in Viewers, StreamInv, TailFrame(v) PROVE StreamInv'
  OBVIOUS
<1> DEFINE q == conn[v].queue
           e == Head(q)
           c == IF e.place \in Terminal THEN NoConn
                ELSE [conn[v] EXCEPT !.last = e.id, !.queue = Tail(q)]
<1>1. StreamType /\ ViewerInOrder(v) /\ NothingLost(v) /\ TableInOrder BY DEF StreamInv
<1>2. /\ conn[v] \in Conns /\ q \in Seq(Events) /\ q # <<>> /\ Ascending(q)
      /\ conn[v].backlog = <<>> /\ conn[v].at = "replaying"
      /\ conn[v].last = page[v].last /\ page[v].last \in Nat
  BY <1>1 DEF StreamType, Conns, Pages, TailFrame, Tailing, ViewerInOrder
<1>3. /\ Tail(q) \in Seq(Events) /\ e \in Events
      /\ Items(q) = {e} \union Items(Tail(q)) /\ Ascending(Tail(q))
      /\ \A x \in Items(Tail(q)) : e.id < x.id
  BY <1>2, TailItems
<1>4. /\ Receive(v, e) /\ conn' = [conn EXCEPT ![v] = c] /\ e.id > conn[v].last
      /\ UNCHANGED <<rows, sequence, worker>>
  BY DEF TailFrame, Running
<1>5. Items(<<>>) = {} /\ Ascending(<<>>) BY DEF Items, Ascending
<1>6. e \in Known /\ e.id > page[v].last BY <1>2, <1>3, <1>4, KnownParts DEF Of
<1> HIDE DEF e, q
<1>7. /\ c \in Conns /\ c.backlog = <<>> /\ Items(c.queue) \subseteq Items(Tail(q))
      /\ Ascending(c.queue)
      /\ c.at # "none" => c.last = e.id /\ c.queue = Tail(q)
  <2>1. CASE e.place \in Terminal BY <1>5, <2>1 DEF NoConn, Conns
  <2>2. CASE e.place \notin Terminal
    <3>1. e.id \in Nat BY <1>3 DEF Events
    <3> QED BY <1>2, <1>3, <2>2, <3>1 DEF Conns
  <2> QED BY <2>1, <2>2
<1>8. c.at = "replaying" => c.at # "none" OBVIOUS
<1> HIDE DEF c
<1>9. ASSUME NEW i \in DOMAIN rows
      PROVE  /\ rows[i].id > page[v].last /\ rows[i].id <= e.id => rows[i] = e
             /\ c.at = "replaying" /\ rows[i].id > e.id
                => rows[i] \in Items(c.queue) \/ (worker.at = "publish" /\ i = Len(rows))
  <2>1. rows[i].id \in Nat /\ e.id \in Nat
    <3>1. rows[i] \in Events BY <1>1 DEF StreamType
    <3> QED BY <1>3, <3>1 DEF Events
  <2>2. rows[i].id > e.id => rows[i].id > page[v].last BY <1>2, <1>6, <2>1
  <2>3. ASSUME rows[i].id > page[v].last
        PROVE  rows[i] \in Items(q) \/ (worker.at = "publish" /\ i = Len(rows))
    <3>1. Coming(v, i) BY <1>1, <1>2, <2>3 DEF NothingLost
    <3> QED BY <1>2, <1>5, <3>1 DEF Coming, q
  <2>4. ASSUME worker.at = "publish", i = Len(rows) PROVE ~(rows[i].id <= e.id)
    <3>1. rows[i].id = sequence BY <1>1, <2>4 DEF TableInOrder
    <3>2. e.id < sequence BY <1>1, <1>3, <2>4 DEF ViewerInOrder, q
    <3> QED BY <2>1, <3>1, <3>2
  <2>5. rows[i] \in Items(q) => rows[i] = e \/ rows[i] \in Items(Tail(q)) BY <1>3
  <2>6. rows[i] \in Items(Tail(q)) => ~(rows[i].id <= e.id) BY <1>3, <2>1
  <2>7. rows[i] = e => ~(rows[i].id > e.id) BY <2>1
  <2> QED BY <1>7, <1>8, <2>2, <2>3, <2>4, <2>5, <2>6, <2>7
<1>10. /\ Items(c.backlog) = {} /\ Ascending(c.backlog)
       /\ Items(c.queue) \subseteq Items(conn[v].queue)
  BY <1>3, <1>5, <1>7 DEF q
<1> QED BY <1>3, <1>4, <1>6, <1>7, <1>9, <1>10, FrameReceived

-----------------------------------------------------------------------------
(* The theorems.                                                            *)

LEMMA StreamStep == ReuseIds = FALSE /\ StreamInv /\ [Next]_vars => StreamInv'
<1> SUFFICES ASSUME ReuseIds = FALSE, StreamInv, [Next]_vars PROVE StreamInv'
  OBVIOUS
<1>1. CASE StartRun BY <1>1, KeepStartRun
<1>2. CASE CommitEvent BY <1>2, KeepCommitEvent
<1>3. CASE PublishEvent BY <1>3, KeepPublishEvent
<1>4. CASE FailRun BY <1>4, KeepFailRun
<1>5. CASE FailSilently BY <1>5, KeepFailSilently
<1>6. CASE Crash BY <1>6, KeepCrash
<1>7. ASSUME NEW v \in Viewers,
             \/ Connect(v)   \/ ReadBacklog(v) \/ ReplayFrame(v)
             \/ SkipFrame(v) \/ TailFrame(v)   \/ Break(v)       \/ ConnectTimeout(v)
             \/ Refused(v)
      PROVE  StreamInv'
  BY <1>7, KeepConnect, KeepReadBacklog, KeepReplayFrame, KeepSkipFrame, KeepTailFrame,
     KeepBreak, KeepConnectTimeout, KeepRefused
<1>8. CASE UNCHANGED vars
  <2>1. StreamType' BY <1>8 DEF vars, StreamInv, StreamType
  <2>2. CASE Viewers = {}
    <3>1. Known' \subseteq Known
      <4>1. Known' = Items(rows') BY <2>2 DEF Known
      <4> QED BY <1>8, <4>1, KnownParts DEF vars, Items
    <3> QED BY <1>8, <2>1, <2>2, <3>1, KnownShrinks
            DEF vars, StreamInv, TableInOrder, Ascending, Past
  <2>3. ASSUME NEW v \in Viewers PROVE StreamInv'
    <3>1. ViewerInOrder(v)' BY <1>8 DEF vars, StreamInv, ViewerInOrder, Ascending, Items
    <3>2. NothingLost(v)' BY <1>8 DEF vars, StreamInv, NothingLost, Coming, Items
    <3>3. /\ Items(got'[v]) \subseteq Known /\ Items(conn'[v].backlog) \subseteq Known
          /\ Items(conn'[v].queue) \subseteq Known
      <4>1. got'[v] = got[v] /\ conn'[v] = conn[v] BY <1>8 DEF vars
      <4> QED BY <4>1, KnownParts DEF Of
    <3> QED BY <1>8, <2>1, <3>1, <3>2, <3>3, ViewerStep DEF vars
  <2> QED BY <2>2, <2>3
<1> QED BY <1>1, <1>2, <1>3, <1>4, <1>5, <1>6, <1>7, <1>8 DEF Next

LEMMA StreamInductive == ReuseIds = FALSE => (Spec => []StreamInv)
<1> SUFFICES ASSUME ReuseIds = FALSE PROVE Spec => []StreamInv
  OBVIOUS
<1>1. Init => StreamInv BY InitHolds
<1>2. StreamInv /\ [Next]_vars => StreamInv' BY StreamStep
<1> QED BY <1>1, <1>2, PTL DEF Spec

\* Replay and tail together miss no event, although the connection breaks, the
\* process dies, and a run deletes the events of the run before it at any moment.
THEOREM Delivery == ReuseIds = FALSE => (Spec => []NothingSkipped)
<1>1. StreamInv => NothingSkipped
  <2> SUFFICES ASSUME StreamInv, NEW v \in Viewers, NEW i \in DOMAIN rows,
                      rows[i].id <= page[v].last
               PROVE  \E k \in DOMAIN got[v] : got[v][k] = rows[i]
    BY DEF NothingSkipped
  <2>1. rows[i] \in Items(got[v]) BY DEF StreamInv, NothingLost
  <2> QED BY <2>1 DEF Items
<1> QED BY <1>1, StreamInductive, PTL

\* No viewer receives an event twice, or one that comes before one it has.
THEOREM OrderedDelivery == ReuseIds = FALSE => (Spec => []InOrderOnce)
<1>1. StreamInv => InOrderOnce
  <2> SUFFICES ASSUME StreamInv, NEW v \in Viewers,
                      NEW i \in DOMAIN got[v], NEW k \in DOMAIN got[v], i < k
               PROVE  Earlier(got[v][i], got[v][k])
    BY DEF InOrderOnce, Earlier
  <2>1. got[v][i] \in Known /\ got[v][k] \in Known BY KnownParts DEF Of, Items
  <2>2. got[v][i].id < got[v][k].id BY DEF StreamInv, ViewerInOrder, Ascending
  <2> QED BY <2>1, <2>2 DEF StreamInv, IdsInOrder
<1> QED BY <1>1, StreamInductive, PTL

-----------------------------------------------------------------------------
(* What the pages show.                                                     *)

\* The table holds the events of the run in progress, by place, and all of them;
\* only the event that reports a failure is out of place.
TableOfRun ==
    /\ \A i \in DOMAIN rows :
           rows[i].run = worker.run /\ (rows[i].place = i \/ rows[i].place = Failed)
    /\ \A e \in Known : e.run = worker.run => e \in Items(rows)
    /\ worker.at = "commit" => worker.place = Len(rows) + 1 \/ worker.place = Failed
    /\ worker.at = "publish" => worker.place = rows[Len(rows)].place

\* A verdict of the run in progress that has reached v is shown; a page that shows a
\* completed review has received its decision, and is closed.
PageInOrder(v) ==
    /\ \A c \in Criteria :
           (\E e \in Items(got[v]) : e.run = worker.run /\ e.place = Closes(c))
               => page[v].shown[c] = worker.run
    /\ page[v].status = "completed" =>
           /\ page[v].at = "closed"
           /\ \E e \in Items(got[v]) : e.place = Completed /\ e.run = page[v].decision
    /\ page[v].at = "closed" => conn[v].at = "none"

PagesInv == TableOfRun /\ \A v \in Viewers : PageInOrder(v)

LEMMA PagesInit == Init => PagesInv
<1> SUFFICES ASSUME Init PROVE PagesInv
  OBVIOUS
<1>1. \A v \in Viewers : /\ conn[v].backlog = <<>> /\ conn[v].queue = <<>> /\ got[v] = <<>>
                         /\ page[v].at = "connecting" /\ page[v].status = "connecting"
  BY DEF Init, NoConn, NewPage
<1>2. Items(<<>>) = {} BY DEF Items
<1>3. ASSUME NEW x \in Known PROVE FALSE
  <2>1. \A v \in Viewers : Of(v) = {} BY <1>1, <1>2 DEF Of
  <2> QED BY <1>2, <1>3, <2>1, KnownParts DEF Init
<1>4. TableOfRun BY <1>3 DEF TableOfRun, Init
<1>5. \A v \in Viewers : PageInOrder(v) BY <1>1, <1>2 DEF PageInOrder
<1> QED BY <1>4, <1>5 DEF PagesInv

\* An event that is not among the known ones after a step.
LEMMA KnownAfter ==
    ASSUME NEW x \in Known'
    PROVE  x \in Items(rows') \/ \E w \in Viewers : x \in Of(w)'
  BY Zenon DEF Known

\* A run that begins has no event yet.
LEMMA PagesStartRun == StreamInv /\ PagesInv /\ StartRun => PagesInv'
<1> SUFFICES ASSUME StreamInv, PagesInv, StartRun PROVE PagesInv'
  OBVIOUS
<1> USE DEF StartRun, Viewing
<1>1. worker.run \in Nat /\ worker'.run = worker.run + 1 /\ worker'.at = "commit"
      /\ worker'.place = Started /\ rows' = <<>> /\ Items(rows') = {}
  BY DEF StreamInv, StreamType, Items
<1>2. ASSUME NEW x \in Known PROVE x.run # worker'.run
  <2>1. Past(x) /\ x \in Events BY KnownTyped DEF StreamInv, IdsInOrder
  <2> QED BY <1>1, <2>1 DEF Past, Events
<1>3. ASSUME NEW x \in Known' PROVE x \in Known
  <2>1. \A w \in Viewers : Of(w)' = Of(w) BY DEF Of
  <2> QED BY <1>1, <1>3, <2>1, KnownAfter, KnownParts
<1>4. TableOfRun'
  <2>1. DOMAIN rows' = {} /\ Len(rows') + 1 = Started BY <1>1 DEF Started
  <2> QED BY <1>1, <1>2, <1>3, <2>1 DEF TableOfRun
<1>5. ASSUME NEW v \in Viewers PROVE PageInOrder(v)'
  <2>1. ASSUME NEW e \in Items(got[v]) PROVE e.run # worker'.run
    BY <1>2, <2>1, KnownParts DEF Of
  <2>2. PageInOrder(v) BY DEF PagesInv
  <2> QED BY <1>1, <2>1, <2>2 DEF PageInOrder, Items
<1> QED BY <1>4, <1>5 DEF PagesInv

LEMMA PagesCommitEvent ==
    ReuseIds = FALSE /\ StreamInv /\ PagesInv /\ CommitEvent => PagesInv'
<1> SUFFICES ASSUME ReuseIds = FALSE, StreamInv, PagesInv, CommitEvent PROVE PagesInv'
  OBVIOUS
<1> DEFINE e0 == [id |-> sequence + 1, run |-> worker.run, place |-> worker.place]
<1>1. /\ worker \in [run : Nat, at : {"idle", "commit", "publish"}, place : 1..Failed]
      /\ rows \in Seq(Events) /\ sequence \in Nat
  BY DEF StreamInv, StreamType
<1>2. e0 \in Events BY <1>1 DEF Events
<1>3. e0.run = worker.run /\ e0.place = worker.place OBVIOUS
<1>4. /\ rows' = Append(rows, e0) /\ worker' = [worker EXCEPT !.at = "publish"]
      /\ worker.at = "commit" /\ UNCHANGED <<conn, page, got>>
  BY DEF CommitEvent, NextId, Viewing
<1> HIDE DEF e0
<1>5. Items(rows') = Items(rows) \union {e0} BY <1>1, <1>2, <1>4, AppendItems
<1>6. /\ DOMAIN rows = 1..Len(rows) /\ DOMAIN rows' = 1..(Len(rows) + 1)
      /\ Len(rows) \in Nat /\ Len(rows') = Len(rows) + 1
      /\ \A i \in 1..Len(rows) : rows'[i] = rows[i]
      /\ rows'[Len(rows) + 1] = e0
  BY <1>1, <1>2, <1>4
<1>7. TableOfRun'
  <2>1. ASSUME NEW i \in 1..(Len(rows) + 1)
        PROVE  rows'[i].run = worker.run /\ (rows'[i].place = i \/ rows'[i].place = Failed)
    <3>1. CASE i = Len(rows) + 1 BY <1>3, <1>4, <1>6, <3>1 DEF PagesInv, TableOfRun
    <3>2. CASE i \in 1..Len(rows) BY <1>6, <3>2 DEF PagesInv, TableOfRun
    <3> QED BY <1>6, <3>1, <3>2
  <2>2. ASSUME NEW x \in Known', x.run = worker.run PROVE x \in Items(rows')
    <3>1. \A w \in Viewers : Of(w)' = Of(w) BY <1>4 DEF Of
    <3>2. x \in Items(rows') \/ x \in Known BY <3>1, KnownAfter, KnownParts
    <3> QED BY <1>5, <2>2, <3>2 DEF PagesInv, TableOfRun
  <2>3. worker'.run = worker.run /\ worker'.place = worker.place /\ worker'.at = "publish"
    BY <1>1, <1>4
  <2> QED BY <1>3, <1>6, <2>1, <2>2, <2>3 DEF TableOfRun
<1>8. ASSUME NEW v \in Viewers PROVE PageInOrder(v)'
  <2>1. PageInOrder(v) BY DEF PagesInv
  <2>2. worker'.run = worker.run BY <1>1, <1>4
  <2> QED BY <1>4, <2>1, <2>2 DEF PageInOrder, Items
<1> QED BY <1>7, <1>8 DEF PagesInv

\* A step that keeps the table and the run, and brings in no event.
LEMMA PagesKept ==
    ASSUME PagesInv, UNCHANGED rows, worker'.run = worker.run, Known' \subseteq Known,
           worker'.at = "commit" => worker'.place = Len(rows) + 1 \/ worker'.place = Failed,
           worker'.at = "publish" => worker' = worker,
           \A v \in Viewers : PageInOrder(v)'
    PROVE  PagesInv'
<1>1. \A e \in Known' : e.run = worker'.run => e \in Items(rows')
  BY DEF PagesInv, TableOfRun, Items
<1> QED BY <1>1 DEF PagesInv, TableOfRun

\* A step that leaves what v has got, and what it shows, alone.
LEMMA PageKept ==
    ASSUME PagesInv, NEW v \in Viewers, worker'.run = worker.run, got'[v] = got[v],
           page'[v].shown = page[v].shown, page'[v].decision = page[v].decision,
           page'[v].status = "completed"
               => page[v].status = "completed" /\ (page[v].at = "closed" => page'[v].at = "closed"),
           page'[v].at = "closed" => conn'[v].at = "none"
    PROVE  PageInOrder(v)'
<1>1. PageInOrder(v) /\ Items(got[v])' = Items(got[v]) BY DEF PagesInv, Items
<1>2. Items(got'[v]) = Items(got[v]) BY <1>1
<1> QED BY <1>1, <1>2 DEF PageInOrder

\* What Reduce does to the criteria and to the outcome.
LEMMA ReduceShows ==
    ASSUME NEW pg \in Pages, NEW e \in Events
    PROVE  /\ e.place \in {Started, Decision, Completed, Failed}
                  => Reduce(pg, e).shown = pg.shown
           /\ e.place \notin {Started, Decision, Completed, Failed}
                  => \A c \in Criteria : c # e.place \div 2
                                         => Reduce(pg, e).shown[c] = pg.shown[c]
           /\ Reduce(pg, e).status = "completed"
                  => \/ pg.status = "completed"
                     \/ e.place = Completed /\ Reduce(pg, e).decision = e.run
<1>1. CASE e.place = Started BY <1>1 DEF Reduce, Pages
<1>2. CASE e.place # Started /\ e.place = Decision BY <1>2 DEF Reduce, Pages
<1>3. CASE e.place \notin {Started, Decision} /\ e.place = Completed
  BY <1>3 DEF Reduce, Pages
<1>4. CASE e.place \notin {Started, Decision, Completed} /\ e.place = Failed
  BY <1>4 DEF Reduce, Pages
<1>5. CASE e.place \notin {Started, Decision, Completed, Failed}
  <2> DEFINE d == e.place \div 2
             k == IF e.place = Closes(d) THEN e.run ELSE 0
             s == [pg.shown EXCEPT ![d] = k]
  <2>1. Reduce(pg, e) = [pg EXCEPT !.shown = s] BY <1>5 DEF Reduce
  <2>2. \A c \in Criteria : c # d => s[c] = pg.shown[c] BY DEF Pages
  <2> HIDE DEF s
  <2>3. Reduce(pg, e).shown = s /\ Reduce(pg, e).status = pg.status BY <2>1 DEF Pages
  <2> QED BY <1>5, <2>2, <2>3
<1> QED BY <1>1, <1>2, <1>3, <1>4, <1>5

\* An event reaches an open page.
LEMMA PageReceives ==
    ASSUME StreamInv, PagesInv, NEW v \in Viewers, NEW e \in Events, Receive(v, e),
           UNCHANGED <<rows, worker>>, e \in Known, e.id > page[v].last,
           conn[v].at # "none", e.place \in Terminal => conn'[v].at = "none"
    PROVE  PageInOrder(v)'
<1>1. /\ page' \in [Viewers -> Pages] /\ got' \in [Viewers -> Seq(Events)]
      /\ page'[v].last = e.id /\ got'[v] = Append(got[v], e)
  BY ReceiveTyped DEF StreamInv
<1>2. /\ page[v] \in Pages /\ got[v] \in Seq(Events) /\ worker.run \in Nat
      /\ page \in [Viewers -> Pages] /\ page[v].last \in Nat
  BY DEF StreamInv, StreamType, Pages
<1>3. Items(got'[v]) = Items(got[v]) \union {e} BY <1>1, <1>2, AppendItems
<1>4. PageInOrder(v) BY DEF PagesInv
<1>5. page[v].status # "completed" BY <1>4 DEF PageInOrder
<1> DEFINE r == Reduce(page[v], e)
<1>6. /\ page'[v].shown = r.shown /\ page'[v].status = r.status
      /\ page'[v].decision = r.decision
      /\ page'[v].at = IF e.place \in Terminal THEN "closed" ELSE "open"
  <2>1. r \in Pages BY <1>2, ReduceTyped
  <2>2. page'[v] = [r EXCEPT !.last = e.id,
                             !.at = IF e.place \in Terminal THEN "closed" ELSE "open"]
    BY <1>2 DEF Receive
  <2> HIDE DEF r
  <2> QED BY <2>1, <2>2 DEF Pages
<1>7. ASSUME NEW c \in Criteria, NEW x \in Items(got'[v]),
             x.run = worker.run, x.place = Closes(c)
      PROVE  page'[v].shown[c] = worker.run
  <2>1. c \in 1..NCriteria /\ Closes(c) = 2 * c + 1 /\ Opens(c) = 2 * c /\ NCriteria \in Nat
    BY StreamAssumption DEF Criteria, Closes, Opens
  <2>2. page[v].shown \in [Criteria -> Nat] BY <1>2 DEF Pages
  <2>3. CASE x = e
    <3>1. e.place \notin {Started, Decision, Completed, Failed}
      BY <1>7, <2>1, <2>3 DEF Started, Decision, Completed, Failed
    <3>2. e.place \div 2 = c BY <1>7, <2>1, <2>3
    <3>3. r = [page[v] EXCEPT !.shown[c] = e.run]
      BY <1>7, <2>3, <3>1, <3>2 DEF Reduce
    <3> QED BY <1>2, <1>6, <1>7, <2>2, <2>3, <3>3 DEF Pages
  <2>4. CASE x # e
    <3>1. x \in Items(got[v]) BY <1>3, <2>4
    <3>2. page[v].shown[c] = worker.run BY <1>4, <1>7, <3>1 DEF PageInOrder
    <3>3. x \in Known /\ x \in Events /\ x.id <= page[v].last
      BY <3>1, KnownParts, KnownTyped DEF StreamInv, ViewerInOrder, Of
    <3>4. x.id < e.id BY <1>2, <3>3 DEF Events
    <3>5. Earlier(x, e) /\ Past(e) BY <3>3, <3>4 DEF StreamInv, IdsInOrder
    <3>6. e.run = worker.run /\ x.place < e.place
      BY <1>2, <1>7, <3>3, <3>5 DEF Earlier, Past, Events
    <3>7. CASE e.place \in {Started, Decision, Completed, Failed}
      <4>1. r.shown = page[v].shown BY <1>2, <3>7, ReduceShows
      <4> QED BY <1>6, <3>2, <4>1
    <3>8. CASE e.place \notin {Started, Decision, Completed, Failed}
      <4>1. e.place \div 2 # c
        BY <1>7, <2>1, <3>6 DEF Events
      <4>2. r.shown[c] = page[v].shown[c] BY <1>2, <2>2, <3>8, <4>1, ReduceShows
      <4> QED BY <1>6, <3>2, <4>2
    <3> QED BY <3>7, <3>8
  <2> QED BY <2>3, <2>4
<1>8. ASSUME page'[v].status = "completed"
      PROVE  e.place = Completed /\ page'[v].decision = e.run
  BY <1>2, <1>5, <1>6, <1>8, ReduceShows
<1>9. page'[v].status = "completed" =>
          /\ page'[v].at = "closed"
          /\ \E x \in Items(got'[v]) : x.place = Completed /\ x.run = page'[v].decision
  BY <1>3, <1>6, <1>8 DEF Terminal
<1>10. page'[v].at = "closed" => conn'[v].at = "none" BY <1>6
<1>11. worker'.run = worker.run OBVIOUS
<1> QED BY <1>7, <1>9, <1>10, <1>11 DEF PageInOrder

\* The steps of v's connection that bring v no event.
LEMMA PagesQuietStep ==
    ASSUME StreamInv, PagesInv, UNCHANGED <<rows, worker, got>>, NEW v \in Viewers,
           \A w \in Viewers : w # v => conn'[w] = conn[w] /\ page'[w] = page[w],
           Items(conn'[v].backlog) \subseteq Known, Items(conn'[v].queue) \subseteq Known,
           page'[v].shown = page[v].shown, page'[v].decision = page[v].decision,
           page'[v].status = "completed"
               => page[v].status = "completed" /\ (page[v].at = "closed" => page'[v].at = "closed"),
           page'[v].at = "closed" => conn'[v].at = "none"
    PROVE  PagesInv'
<1>1. ASSUME NEW w \in Viewers PROVE Of(w)' \subseteq Known
  <2>1. CASE w # v
    <3>1. Of(w)' = Of(w) BY <2>1 DEF Of
    <3> QED BY <3>1, KnownParts
  <2>2. CASE w = v
    <3>1. got'[v] = got[v] OBVIOUS
    <3> QED BY <2>2, <3>1, KnownParts DEF Of
  <2> QED BY <2>1, <2>2
<1>2. Known' \subseteq Known
  <2>1. Items(rows') = Items(rows) OBVIOUS
  <2> QED BY <1>1, <2>1, KnownAfter, KnownParts
<1>3. ASSUME NEW w \in Viewers PROVE PageInOrder(w)'
  <2>1. CASE w = v BY <2>1, PageKept
  <2>2. CASE w # v
    <3>1. page[w].at = "closed" => conn[w].at = "none" BY DEF PagesInv, PageInOrder
    <3> QED BY <2>2, <3>1, PageKept
  <2> QED BY <2>1, <2>2
<1>4. worker'.at = "commit" => worker'.place = Len(rows) + 1 \/ worker'.place = Failed
  BY DEF PagesInv, TableOfRun
<1> QED BY <1>2, <1>3, <1>4, PagesKept

\* The steps of v's connection that bring v an event.
LEMMA PagesFrameStep ==
    ASSUME StreamInv, PagesInv, UNCHANGED <<rows, worker>>, NEW v \in Viewers,
           NEW e \in Events, e \in Known, Receive(v, e), e.id > page[v].last,
           conn[v].at # "none", e.place \in Terminal => conn'[v].at = "none",
           \A w \in Viewers : w # v => conn'[w] = conn[w],
           Items(conn'[v].backlog) \subseteq Known, Items(conn'[v].queue) \subseteq Known
    PROVE  PagesInv'
<1>1. /\ got'[v] = Append(got[v], e)
      /\ \A w \in Viewers : w # v => page'[w] = page[w] /\ got'[w] = got[w]
  BY ReceiveTyped DEF StreamInv
<1>2. ASSUME NEW w \in Viewers PROVE Of(w)' \subseteq Known
  <2>1. CASE w # v
    <3>1. Of(w)' = Of(w) BY <1>1, <2>1 DEF Of
    <3> QED BY <3>1, KnownParts
  <2>2. CASE w = v
    <3>1. got[v] \in Seq(Events) BY DEF StreamInv, StreamType
    <3>2. Items(got'[v]) = Items(got[v]) \union {e} BY <1>1, <3>1, AppendItems
    <3> QED BY <2>2, <3>2, KnownParts DEF Of
  <2> QED BY <2>1, <2>2
<1>3. Known' \subseteq Known
  <2>1. Items(rows') = Items(rows) OBVIOUS
  <2> QED BY <1>2, <2>1, KnownAfter, KnownParts
<1>4. ASSUME NEW w \in Viewers PROVE PageInOrder(w)'
  <2>1. CASE w = v BY <2>1, PageReceives
  <2>2. CASE w # v
    <3>1. page[w].at = "closed" => conn[w].at = "none" BY DEF PagesInv, PageInOrder
    <3> QED BY <1>1, <2>2, <3>1, PageKept
  <2> QED BY <2>1, <2>2
<1>5. worker'.at = "commit" => worker'.place = Len(rows) + 1 \/ worker'.place = Failed
  BY DEF PagesInv, TableOfRun
<1> QED BY <1>3, <1>4, <1>5, PagesKept

LEMMA PagesPublishEvent == StreamInv /\ PagesInv /\ PublishEvent => PagesInv'
<1> SUFFICES ASSUME StreamInv, PagesInv, PublishEvent PROVE PagesInv'
  OBVIOUS
<1> DEFINE e0 == rows[Len(rows)]
<1>1. /\ worker \in [run : Nat, at : {"idle", "commit", "publish"}, place : 1..Failed]
      /\ rows \in Seq(Events) /\ conn \in [Viewers -> Conns]
      /\ rows # <<>> /\ worker.at = "publish" /\ UNCHANGED <<rows, page, got>>
  BY DEF StreamInv, StreamType, TableInOrder, PublishEvent
<1>2. e0 \in Events /\ e0 \in Items(rows) /\ Len(rows) \in DOMAIN rows
  <2>1. Len(rows) \in DOMAIN rows BY <1>1
  <2> QED BY <1>1, <2>1 DEF Items
<1>3. worker.place = Len(rows) \/ worker.place = Failed BY <1>1, <1>2 DEF PagesInv, TableOfRun
<1>4. /\ worker'.run = worker.run /\ worker'.at \in {"idle", "commit"}
      /\ worker'.at = "commit" => worker'.place = Len(rows) + 1
  <2>1. CASE worker.place \in Terminal BY <1>1, <2>1 DEF PublishEvent
  <2>2. CASE worker.place \notin Terminal
    <3>1. worker.place = Len(rows) BY <1>3, <2>2 DEF Terminal
    <3> QED BY <1>1, <2>2, <3>1 DEF PublishEvent
  <2> QED BY <2>1, <2>2
<1> HIDE DEF e0
<1>5. ASSUME NEW w \in Viewers
      PROVE  conn'[w].at = conn[w].at /\ Of(w)' \subseteq Of(w) \union {e0}
  <2>1. conn[w] \in Conns BY <1>1
  <2>2. CASE conn[w].at = "none"
    <3>1. conn'[w] = conn[w] BY <2>2 DEF PublishEvent
    <3>2. Of(w)' = Of(w) BY <1>1, <3>1 DEF Of
    <3> QED BY <3>1, <3>2
  <2>3. CASE conn[w].at # "none"
    <3>1. conn'[w] = [conn[w] EXCEPT !.queue = Append(conn[w].queue, e0)]
      BY <2>3 DEF PublishEvent, e0
    <3>2. /\ conn'[w].at = conn[w].at /\ conn'[w].backlog = conn[w].backlog
          /\ conn'[w].queue = Append(conn[w].queue, e0)
      BY <2>1, <3>1 DEF Conns
    <3>3. conn[w].queue \in Seq(Events) BY <2>1 DEF Conns
    <3>4. Items(conn'[w].queue) = Items(conn[w].queue) \union {e0}
      BY <1>2, <3>2, <3>3, AppendItems
    <3> QED BY <1>1, <3>2, <3>4 DEF Of
  <2> QED BY <2>2, <2>3
<1>6. Known' \subseteq Known
  <2>1. Items(rows') = Items(rows) BY <1>1
  <2> QED BY <1>2, <1>5, <2>1, KnownAfter, KnownParts
<1>7. ASSUME NEW w \in Viewers PROVE PageInOrder(w)'
  <2>1. page[w].at = "closed" => conn[w].at = "none" BY DEF PagesInv, PageInOrder
  <2> QED BY <1>1, <1>4, <1>5, <2>1, PageKept
<1> QED BY <1>1, <1>4, <1>6, <1>7, PagesKept

\* FailRun, FailSilently and Crash: the worker moves on or stops.
LEMMA PagesWorkerStep ==
    ASSUME StreamInv, PagesInv, FailRun \/ FailSilently \/ Crash
    PROVE  PagesInv'
<1>1. /\ worker \in [run : Nat, at : {"idle", "commit", "publish"}, place : 1..Failed]
      /\ page \in [Viewers -> Pages] /\ conn \in [Viewers -> Conns]
  BY DEF StreamInv, StreamType
<1>2. /\ UNCHANGED <<rows, got>> /\ worker'.run = worker.run
      /\ worker'.at = "idle" \/ (worker'.at = "commit" /\ worker'.place = Failed)
  BY <1>1 DEF FailRun, FailSilently, Crash, Viewing
<1>3. Items(<<>>) = {} BY DEF Items
<1>4. ASSUME NEW w \in Viewers
      PROVE  /\ Of(w)' \subseteq Of(w)
             /\ page'[w].shown = page[w].shown /\ page'[w].decision = page[w].decision
             /\ page'[w].status = page[w].status
             /\ page'[w].at = "closed" <=> page[w].at = "closed"
             /\ conn'[w].at = conn[w].at \/ conn'[w].at = "none"
  <2>1. CASE FailRun \/ FailSilently BY <2>1 DEF FailRun, FailSilently, Viewing, Of, Items
  <2>2. CASE Crash
    <3>1. conn'[w] = NoConn BY <2>2 DEF Crash
    <3>2. Of(w)' \subseteq Of(w) BY <1>2, <1>3, <3>1 DEF Of, NoConn
    <3>3. page[w] \in Pages BY <1>1
    <3>4. \/ page[w].at = "open" /\ page'[w] = [page[w] EXCEPT !.at = "connecting"]
          \/ page[w].at # "open" /\ page'[w] = page[w]
      BY <2>2 DEF Crash
    <3> QED BY <3>1, <3>2, <3>3, <3>4 DEF Pages, NoConn
  <2> QED BY <2>1, <2>2
<1>5. Known' \subseteq Known
  <2>1. Items(rows') = Items(rows) BY <1>2
  <2> QED BY <1>4, <2>1, KnownAfter, KnownParts
<1>6. ASSUME NEW w \in Viewers PROVE PageInOrder(w)'
  <2>1. page[w].at = "closed" => conn[w].at = "none" BY DEF PagesInv, PageInOrder
  <2> QED BY <1>2, <1>4, <2>1, PageKept
<1> QED BY <1>2, <1>5, <1>6, PagesKept

LEMMA PagesViewerStep ==
    ASSUME StreamInv, PagesInv, NEW v \in Viewers,
           \/ Connect(v)   \/ ReadBacklog(v) \/ ReplayFrame(v)
           \/ SkipFrame(v) \/ TailFrame(v)   \/ Break(v)       \/ ConnectTimeout(v)
           \/ Refused(v)
    PROVE  PagesInv'
<1>1. /\ page \in [Viewers -> Pages] /\ page[v] \in Pages /\ rows \in Seq(Events)
      /\ conn \in [Viewers -> Conns] /\ conn[v] \in Conns
      /\ conn[v].backlog \in Seq(Events) /\ conn[v].queue \in Seq(Events)
  BY DEF StreamInv, StreamType, Conns
<1>2. UNCHANGED <<rows, worker>>
  BY DEF Connect, ReadBacklog, ReplayFrame, SkipFrame, TailFrame, Break, ConnectTimeout, Refused,
         Running
<1>3. Items(<<>>) = {} /\ NoConn.backlog = <<>> /\ NoConn.queue = <<>> /\ NoConn.at = "none"
  BY DEF Items, NoConn
<1>4. Items(conn[v].backlog) \subseteq Known /\ Items(conn[v].queue) \subseteq Known
  BY KnownParts DEF Of
<1>5. page[v].at = "closed" => conn[v].at = "none" BY DEF PagesInv, PageInOrder
<1>6. page[v].status = "completed" => page[v].at = "closed" BY DEF PagesInv, PageInOrder
<1>7. CASE Connect(v)
  <2>1. /\ page'[v] = [page[v] EXCEPT !.at = "open", !.opened = TRUE]
        /\ \A w \in Viewers : w # v => conn'[w] = conn[w] /\ page'[w] = page[w]
        /\ got' = got /\ page[v].at = "connecting"
    BY <1>1, <1>7 DEF Connect
  <2>2. conn'[v].backlog = <<>> /\ conn'[v].queue = <<>>
    <3>1. conn'[v] = [NoConn EXCEPT !.at = "subscribed", !.last = page[v].last]
      BY <1>1, <1>7 DEF Connect
    <3> QED BY <3>1 DEF NoConn
  <2>3. /\ page'[v].shown = page[v].shown /\ page'[v].decision = page[v].decision
        /\ page'[v].status = page[v].status /\ page'[v].at = "open"
    BY <1>1, <2>1 DEF Pages
  <2>4. page[v].status # "completed" BY <1>6, <2>1
  <2> QED BY <1>2, <1>3, <2>1, <2>2, <2>3, <2>4, PagesQuietStep
<1>8. CASE ReadBacklog(v)
  <2>1. PICK n \in 0..Len(rows) :
            conn' = [conn EXCEPT ![v].at = "replaying",
                                 ![v].backlog = SubSeq(rows, n + 1, Len(rows))]
    BY <1>8 DEF ReadBacklog
  <2> DEFINE b == SubSeq(rows, n + 1, Len(rows))
  <2>2. Items(b) = {rows[i] : i \in {j \in DOMAIN rows : j > n}} BY <1>1, SuffixItems
  <2>3. Items(b) \subseteq Known
    <3>1. Items(b) \subseteq Items(rows) BY <2>2 DEF Items
    <3> QED BY <3>1, KnownParts
  <2>4. conn' = [conn EXCEPT ![v].at = "replaying", ![v].backlog = b] BY <2>1
  <2> HIDE DEF b
  <2>5. /\ conn'[v].backlog = b /\ conn'[v].queue = conn[v].queue
        /\ \A w \in Viewers : w # v => conn'[w] = conn[w]
    BY <1>1, <2>4 DEF Conns
  <2>6. page' = page /\ got' = got /\ page[v].at # "closed"
    BY <1>5, <1>8 DEF ReadBacklog
  <2> QED BY <1>2, <1>4, <2>3, <2>5, <2>6, PagesQuietStep
<1>9. CASE SkipFrame(v)
  <2> DEFINE q == conn[v].queue
  <2>1. q # <<>> /\ conn[v].at = "replaying" BY <1>9 DEF SkipFrame, Tailing
  <2>2. Items(Tail(q)) \subseteq Items(q) BY <1>1, <2>1, TailItems
  <2>3. conn' = [conn EXCEPT ![v].queue = Tail(q)] BY <1>9 DEF SkipFrame
  <2> HIDE DEF q
  <2>4. /\ conn'[v].queue = Tail(q) /\ conn'[v].backlog = conn[v].backlog
        /\ \A w \in Viewers : w # v => conn'[w] = conn[w]
    BY <1>1, <2>3 DEF Conns
  <2>5. page' = page /\ got' = got /\ page[v].at # "closed"
    BY <1>5, <1>9, <2>1 DEF SkipFrame
  <2>6. Items(conn'[v].queue) \subseteq Known BY <1>4, <2>2, <2>4 DEF q
  <2> QED BY <1>2, <1>4, <2>4, <2>5, <2>6, PagesQuietStep
<1>10. CASE Break(v)
  <2>1. /\ conn'[v] = NoConn /\ page'[v] = [page[v] EXCEPT !.at = "connecting"]
        /\ \A w \in Viewers : w # v => conn'[w] = conn[w] /\ page'[w] = page[w]
        /\ got' = got /\ conn[v].at # "none"
    BY <1>1, <1>10 DEF Break
  <2>2. /\ page'[v].shown = page[v].shown /\ page'[v].decision = page[v].decision
        /\ page'[v].status = page[v].status /\ page'[v].at = "connecting"
    BY <1>1, <2>1 DEF Pages
  <2>3. page[v].status # "completed" BY <1>5, <1>6, <2>1
  <2> QED BY <1>2, <1>3, <2>1, <2>2, <2>3, PagesQuietStep
<1>11. CASE ConnectTimeout(v)
  <2>1. /\ page'[v] = [page[v] EXCEPT !.status = "failed"]
        /\ \A w \in Viewers : w # v => page'[w] = page[w]
        /\ conn' = conn /\ got' = got /\ page[v].at = "connecting"
    BY <1>1, <1>11 DEF ConnectTimeout
  <2>2. /\ page'[v].shown = page[v].shown /\ page'[v].decision = page[v].decision
        /\ page'[v].status = "failed" /\ page'[v].at = "connecting"
    BY <1>1, <2>1 DEF Pages
  <2> QED BY <1>2, <1>4, <2>1, <2>2, PagesQuietStep
<1>12. CASE Refused(v)
  <2>1. /\ page'[v] = [page[v] EXCEPT !.at = "refused", !.status = "failed"]
        /\ \A w \in Viewers : w # v => page'[w] = page[w]
        /\ conn' = conn /\ got' = got
    BY <1>1, <1>12 DEF Refused
  <2>2. /\ page'[v].shown = page[v].shown /\ page'[v].decision = page[v].decision
        /\ page'[v].status = "failed" /\ page'[v].at = "refused"
    BY <1>1, <2>1 DEF Pages
  <2> QED BY <1>2, <1>4, <2>1, <2>2, PagesQuietStep
<1>13. CASE ReplayFrame(v)
  <2> DEFINE b == conn[v].backlog
             e == Head(b)
             c == IF e.place \in Terminal THEN NoConn
                  ELSE [conn[v] EXCEPT !.last = e.id, !.backlog = Tail(b)]
  <2>1. /\ b # <<>> /\ conn[v].at = "replaying" /\ Receive(v, e)
        /\ conn' = [conn EXCEPT ![v] = c]
    BY <1>13 DEF ReplayFrame
  <2>2. e \in Events /\ Items(b) = {e} \union Items(Tail(b)) BY <1>1, <2>1, TailItems
  <2>3. e \in Known /\ Items(Tail(b)) \subseteq Known BY <1>4, <2>2
  <2>4. e.id > page[v].last BY <2>1, <2>2 DEF StreamInv, ViewerInOrder
  <2> HIDE DEF e, b
  <2>5. /\ c.backlog = <<>> \/ c.backlog = Tail(b)
        /\ c.queue = <<>> \/ c.queue = conn[v].queue
        /\ e.place \in Terminal => c.at = "none"
    BY <1>1, <1>3 DEF Conns
  <2> HIDE DEF c
  <2>6. conn'[v] = c /\ \A w \in Viewers : w # v => conn'[w] = conn[w] BY <1>1, <2>1
  <2>7. Items(c.backlog) \subseteq Known /\ Items(c.queue) \subseteq Known
    BY <1>3, <1>4, <2>3, <2>5
  <2> QED BY <1>2, <2>1, <2>2, <2>3, <2>4, <2>5, <2>6, <2>7, PagesFrameStep
<1>14. CASE TailFrame(v)
  <2> DEFINE q == conn[v].queue
             e == Head(q)
             c == IF e.place \in Terminal THEN NoConn
                  ELSE [conn[v] EXCEPT !.last = e.id, !.queue = Tail(q)]
  <2>1. /\ q # <<>> /\ conn[v].at = "replaying" /\ Receive(v, e) /\ e.id > conn[v].last
        /\ conn' = [conn EXCEPT ![v] = c]
    BY <1>14 DEF TailFrame, Tailing
  <2>2. e \in Events /\ Items(q) = {e} \union Items(Tail(q)) BY <1>1, <2>1, TailItems
  <2>3. e \in Known /\ Items(Tail(q)) \subseteq Known BY <1>4, <2>2
  <2>4. e.id > page[v].last BY <2>1 DEF StreamInv, ViewerInOrder
  <2> HIDE DEF e, q
  <2>5. /\ c.queue = <<>> \/ c.queue = Tail(q)
        /\ c.backlog = <<>> \/ c.backlog = conn[v].backlog
        /\ e.place \in Terminal => c.at = "none"
    BY <1>1, <1>3 DEF Conns
  <2> HIDE DEF c
  <2>6. conn'[v] = c /\ \A w \in Viewers : w # v => conn'[w] = conn[w] BY <1>1, <2>1
  <2>7. Items(c.backlog) \subseteq Known /\ Items(c.queue) \subseteq Known
    BY <1>3, <1>4, <2>3, <2>5
  <2> QED BY <1>2, <2>1, <2>2, <2>3, <2>4, <2>5, <2>6, <2>7, PagesFrameStep
<1> QED BY <1>7, <1>8, <1>9, <1>10, <1>11, <1>13, <1>14, <1>12

LEMMA PagesStep ==
    ReuseIds = FALSE /\ StreamInv /\ PagesInv /\ [Next]_vars => PagesInv'
<1> SUFFICES ASSUME ReuseIds = FALSE, StreamInv, PagesInv, [Next]_vars PROVE PagesInv'
  OBVIOUS
<1>1. CASE StartRun BY <1>1, PagesStartRun
<1>2. CASE CommitEvent BY <1>2, PagesCommitEvent
<1>3. CASE PublishEvent BY <1>3, PagesPublishEvent
<1>4. CASE FailRun \/ FailSilently \/ Crash BY <1>4, PagesWorkerStep
<1>5. ASSUME NEW v \in Viewers,
             \/ Connect(v)   \/ ReadBacklog(v) \/ ReplayFrame(v)
             \/ SkipFrame(v) \/ TailFrame(v)   \/ Break(v)       \/ ConnectTimeout(v)
             \/ Refused(v)
      PROVE  PagesInv'
  BY <1>5, PagesViewerStep
<1>6. CASE UNCHANGED vars
  <2>1. UNCHANGED <<rows, worker, conn, page, got>> BY <1>6 DEF vars
  <2>2. Known' \subseteq Known
    <3>1. \A w \in Viewers : Of(w)' = Of(w) BY <2>1 DEF Of
    <3>2. Items(rows') = Items(rows) BY <2>1
    <3> QED BY <3>1, <3>2, KnownAfter, KnownParts
  <2>3. ASSUME NEW w \in Viewers PROVE PageInOrder(w)'
    <3>1. page[w].at = "closed" => conn[w].at = "none" BY DEF PagesInv, PageInOrder
    <3> QED BY <2>1, <3>1, PageKept
  <2>4. worker.at = "commit" => worker.place = Len(rows) + 1 \/ worker.place = Failed
    BY DEF PagesInv, TableOfRun
  <2> QED BY <2>1, <2>2, <2>3, <2>4, PagesKept
<1> QED BY <1>1, <1>2, <1>3, <1>4, <1>5, <1>6 DEF Next

\* A page shows the verdicts and the decision of one run, until a later run begins.
THEOREM OneRunShown == ReuseIds = FALSE => (Spec => []ShownFromOneRun)
<1> SUFFICES ASSUME ReuseIds = FALSE PROVE Spec => []ShownFromOneRun
  OBVIOUS
<1>1. Init => StreamInv /\ PagesInv BY InitHolds, PagesInit
<1>2. StreamInv /\ PagesInv /\ [Next]_vars => (StreamInv /\ PagesInv)'
  BY StreamStep, PagesStep
<1>3. StreamInv /\ PagesInv => ShownFromOneRun
  <2> SUFFICES ASSUME StreamInv, PagesInv, NEW v \in Viewers, page[v].status = "completed",
                      ~(worker.run > page[v].decision), NEW c \in Criteria
               PROVE  page[v].shown[c] = page[v].decision
    BY DEF ShownFromOneRun
  <2>1. PICK e \in Items(got[v]) : e.place = Completed /\ e.run = page[v].decision
    BY DEF PagesInv, PageInOrder
  <2>2. e \in Known /\ e \in Events /\ Past(e) /\ e.id <= page[v].last
    BY KnownParts, KnownTyped DEF StreamInv, IdsInOrder, ViewerInOrder, Of
  <2>3. e.run = worker.run
    <3>1. worker.run \in Nat /\ e.run \in Nat BY <2>2 DEF StreamInv, StreamType, Events
    <3> QED BY <2>1, <2>2, <3>1 DEF Past
  <2>4. PICK i \in DOMAIN rows : e = rows[i] BY <2>2, <2>3 DEF PagesInv, TableOfRun, Items
  <2>5. /\ DOMAIN rows = 1..Len(rows) /\ Len(rows) \in Nat /\ NCriteria \in Nat
        /\ c \in 1..NCriteria /\ rows \in Seq(Events)
    BY StreamAssumption DEF StreamInv, StreamType, Criteria
  <2>6. i = Completed
    BY <2>1, <2>4, <2>5 DEF PagesInv, TableOfRun, Completed, Failed
  <2>7. Closes(c) \in DOMAIN rows /\ Closes(c) < i
    BY <2>4, <2>5, <2>6 DEF Completed, Closes
  <2> DEFINE f == rows[Closes(c)]
  <2>8. f.run = worker.run /\ f.place = Closes(c)
    <3>1. f.run = worker.run /\ (f.place = Closes(c) \/ f.place = Failed)
      BY <2>7 DEF PagesInv, TableOfRun
    <3>2. f \in Known /\ f \in Events /\ f.id < e.id
      BY <2>4, <2>7, KnownParts, KnownTyped DEF StreamInv, TableInOrder, Ascending, Items
    <3>3. Earlier(f, e) BY <2>2, <3>2 DEF StreamInv, IdsInOrder
    <3>4. f.place < e.place BY <2>2, <2>3, <3>1, <3>2, <3>3 DEF Earlier, Events
    <3> QED BY <2>1, <2>5, <3>1, <3>4 DEF Completed, Failed
  <2>9. f \in Items(got[v])
    <3>1. f \in Events /\ f.id < e.id /\ page[v].last \in Nat
      BY <2>4, <2>5, <2>7 DEF StreamInv, StreamType, Pages, TableInOrder, Ascending
    <3>2. f.id <= page[v].last BY <2>2, <3>1 DEF Events
    <3> QED BY <2>7, <3>2 DEF StreamInv, NothingLost
  <2> HIDE DEF f
  <2> QED BY <2>1, <2>3, <2>8, <2>9 DEF PagesInv, PageInOrder
<1> QED BY <1>1, <1>2, <1>3, PTL DEF Spec

=============================================================================
