--------------------------- MODULE PagedQueryProofs ---------------------------
(***************************************************************************)
(* Proofs about PagedQuery for any number of rows and any page size: what  *)
(* the racing workers cannot do to each other.                             *)
(***************************************************************************)
EXTENDS PagedQuery, TLAPS

(* The inductive invariant. *)
IInv ==
  /\ TypeOK
  /\ PagesCover
  /\ QueryInvariant
  /\ NoRowMisplaced

-----------------------------------------------------------------------------
(* Lemmas about workers. *)

(* The fields of a worker. *)
LEMMA WorkerFields ==
  ASSUME NEW w \in Worker
  PROVE  /\ w.row \in Nat /\ w.last \in Nat /\ w.slot \in Nat
         /\ w.need \in Nat /\ w.next \in Nat /\ w.end \in Nat
BY DEF Worker

(* Changing one field of a worker. *)
LEMMA PutAt ==
  ASSUME NEW w \in Worker, NEW at \in {"check", "store"},
         NEW v, v = [w EXCEPT !.at = at]
  PROVE  /\ v \in Worker /\ v.at = at
         /\ v.row = w.row /\ v.last = w.last /\ v.slot = w.slot
BY DEF Worker

(* A worker goes on to another row; the rest of it is as it was.           *)
LEMMA PutNext ==
  ASSUME NEW w \in Worker, NEW next \in Nat,
         NEW v, v = [w EXCEPT !.next = next]
  PROVE  /\ v \in Worker /\ v.at = w.at /\ v.next = next /\ v.end = w.end
         /\ v.row = w.row /\ v.last = w.last /\ v.slot = w.slot
BY DEF Worker

(* One worker changes, the others stay as they are. *)
LEMMA BecomesFacts ==
  ASSUME workers \in Seq(Worker), NEW k \in DOMAIN workers, NEW w \in Worker,
         Becomes(k, w)
  PROVE  /\ workers' \in Seq(Worker)
         /\ Len(workers') = Len(workers)
         /\ DOMAIN workers' = DOMAIN workers
         /\ workers'[k] = w
         /\ \A j \in DOMAIN workers : j # k => workers'[j] = workers[j]
BY DEF Becomes

(* The invariant holds at the start. *)
LEMMA InitIInv == Init => IInv
<1> SUFFICES ASSUME Init PROVE IInv
  OBVIOUS
<1>1. TypeOK
  BY PagedQueryAssumption DEF Init, TypeOK, Page, Worker, RawSlot
<1>2. PagesCover
  BY DEF Init, PagesCover
<1>3. QueryInvariant
  BY DEF Init, QueryInvariant, Launched, InPlace, Constructed, ConstructedUpTo
<1>4. NoRowMisplaced
  BY DEF Init, NoRowMisplaced, RawSlot
<1> QED
  BY <1>1, <1>2, <1>3, <1>4 DEF IInv
-----------------------------------------------------------------------------
(* The steps of the thread of the handler. *)

(* Cutting a page. *)
LEMMA CutPageKeeps == IInv /\ CutPage => IInv'
<1> SUFFICES ASSUME IInv, CutPage PROVE IInv'
  OBVIOUS
<1> USE PagedQueryAssumption DEF IInv
<1> DEFINE page == [first |-> rows - left + 1, last |-> rows - left + PageSize]
<1>1. /\ rows \in Nat /\ left \in 1 .. rows /\ left' = left - PageSize
      /\ PageSize \in 1 .. left
      /\ left' > 0 => PageSize = NTHREADS
  BY DEF TypeOK, CutPage, PageSize
<1>2. /\ page \in Page
      /\ page.first = rows - left + 1 /\ page.last = rows - left'
      /\ page.last = page.first + PageSize - 1
  BY <1>1 DEF Page
<1>3. pages \in Seq(Page) /\ pages' = Append(pages, page)
  BY DEF TypeOK, CutPage
<1> HIDE DEF page
<1>4. /\ pages' \in Seq(Page) /\ Len(pages') = Len(pages) + 1
      /\ \A k \in 1 .. Len(pages) : pages'[k] = pages[k]
      /\ pages'[Len(pages) + 1] = page
  BY <1>2, <1>3
<1>5. TypeOK'
  BY <1>1, <1>4 DEF TypeOK, CutPage
<1>6. PagesCover'
  <2>1. pages' # <<>>
    BY <1>4
  <2>2. rows' = rows /\ DOMAIN pages' = 1 .. Len(pages) + 1
    BY <1>4 DEF CutPage
  <2>3. ASSUME NEW k \in 1 .. Len(pages)
        PROVE  /\ pages'[k].first <= pages'[k].last /\ pages'[k].last <= rows
               /\ k = 1 => pages'[k].first = 1
               /\ pages'[k + 1].first = pages'[k].last + 1
               /\ pages'[k].last = pages'[k].first + NTHREADS - 1
    <3>1. CASE k < Len(pages)
      BY <1>1, <1>3, <1>4, <3>1 DEF PagesCover, TypeOK
    <3>2. CASE k = Len(pages)
      BY <1>1, <1>2, <1>3, <1>4, <3>2 DEF PagesCover, TypeOK
    <3> QED
      BY <1>3, <3>1, <3>2
  <2>4. /\ page.first <= page.last /\ page.last <= rows
        /\ Len(pages) = 0 => page.first = 1
        /\ left' > 0 => page.last = page.first + NTHREADS - 1
    BY <1>1, <1>2, <1>3 DEF PagesCover
  <2> QED
    BY <1>2, <1>3, <1>4, <2>1, <2>2, <2>3, <2>4 DEF PagesCover
<1>7. QueryInvariant'
  <2>1. workers = <<>> /\ i = 0 /\ UNCHANGED <<rows, pc, i, workers, size, slots>>
    BY DEF CutPage, QueryInvariant, Launched
  <2>2. pc' = "paging"
    BY DEF CutPage
  <2>3. pages'[1].first = 1
    BY <1>1, <1>2, <1>3, <1>4 DEF PagesCover
  <2>4. Launched'
    BY <1>3, <1>4, <2>1, <2>2, <2>3 DEF Launched
  <2>5. InPlace' /\ Constructed'
    BY <2>1 DEF QueryInvariant, InPlace, Constructed, ConstructedUpTo
  <2> QED
    BY <2>4, <2>5 DEF QueryInvariant
<1>8. NoRowMisplaced'
  BY DEF NoRowMisplaced, CutPage
<1> QED
  BY <1>5, <1>6, <1>7, <1>8

(* Launching a worker. *)
LEMMA LaunchKeeps ==
  ASSUME IInv, NEW lazy \in BOOLEAN, Launch(lazy)
  PROVE  IInv'
<1> USE PagedQueryAssumption DEF IInv
<1> DEFINE n == Len(workers) + 1
           w == WorkerFor(pages[n], lazy)
<1>1. /\ workers \in Seq(Worker) /\ pages \in Seq(Page)
      /\ n \in DOMAIN pages /\ n <= Len(pages) /\ i \in Nat /\ pages[n] \in Page
      /\ pc' = pc /\ pc = "launching" /\ left = 0
      /\ workers' = Append(workers, w) /\ i' = i + NTHREADS
  BY DEF TypeOK, Launch, QueryInvariant, Launched, NextPosition
<1>2. /\ w \in Worker
      /\ w.at \in {"deferred", "check"}
      /\ w.row = pages[n].first /\ w.last = pages[n].last /\ w.slot = i + 1
  BY <1>1 DEF WorkerFor, Worker, Page
<1>3. /\ pages[n].first <= pages[n].last /\ pages[n].last <= rows
      /\ pages[n].first = i + 1
      /\ n < Len(pages) => pages[n + 1].first = pages[n].first + NTHREADS
  <2>1. pages[n].first = i + 1
    BY <1>1 DEF QueryInvariant, Launched
  <2>2. pages[n].first \in Nat /\ pages[n].last \in Nat
    BY <1>1 DEF Page
  <2> HIDE DEF n
  <2>3. /\ pages[n].first <= pages[n].last /\ pages[n].last <= rows
        /\ n < Len(pages) => /\ pages[n + 1].first = pages[n].last + 1
                             /\ pages[n].last = pages[n].first + NTHREADS - 1
    BY <1>1 DEF PagesCover
  <2> QED
    BY <2>1, <2>2, <2>3
<1> HIDE DEF w
<1>4. /\ workers' \in Seq(Worker) /\ Len(workers') = n
      /\ DOMAIN workers' = 1 .. n
      /\ \A k \in 1 .. n - 1 : workers'[k] = workers[k]
      /\ workers'[n] = w
  BY <1>1, <1>2
<1>5. UNCHANGED <<rows, left, pages, pc, joined, size, slots>>
  BY DEF Launch
<1>6. TypeOK'
  BY <1>1, <1>4, <1>5 DEF TypeOK
<1>7. PagesCover' /\ NoRowMisplaced'
  BY <1>5 DEF PagesCover, NoRowMisplaced
<1>8. Launched'
  BY <1>1, <1>3, <1>4, <1>5 DEF Launched, QueryInvariant
<1>9. InPlace'
  <2> SUFFICES ASSUME NEW k \in 1 .. n
               PROVE  /\ workers'[k].at # "done" =>
                           /\ workers'[k].slot = workers'[k].row
                           /\ workers'[k].row <= workers'[k].last
                      /\ workers'[k].row >= 1 /\ workers'[k].last <= rows
    BY <1>4, <1>5 DEF InPlace
  <2>1. CASE k < n
    BY <1>1, <1>4, <2>1 DEF InPlace, QueryInvariant
  <2>2. CASE k = n
    BY <1>1, <1>2, <1>3, <1>4, <2>2
  <2> QED
    BY <1>1, <2>1, <2>2
<1>10. Constructed'
  <2>1. \A k \in 1 .. n : workers'[k].at = "fill" =>
          k \in DOMAIN workers /\ workers'[k] = workers[k]
    BY <1>1, <1>2, <1>4
  <2> QED
    BY <1>4, <1>5, <2>1 DEF Constructed, ConstructedUpTo, QueryInvariant
<1> QED
  BY <1>6, <1>7, <1>8, <1>9, <1>10 DEF QueryInvariant

(* Running a deferred worker. *)
LEMMA RunDeferredKeeps == IInv /\ RunDeferred => IInv'
<1> SUFFICES ASSUME IInv, RunDeferred PROVE IInv'
  OBVIOUS
<1> USE DEF IInv
<1> DEFINE k == joined + 1
           w == [workers[k] EXCEPT !.at = "check"]
<1>1. /\ workers \in Seq(Worker) /\ k \in DOMAIN workers /\ workers[k] \in Worker
      /\ workers[k].at = "deferred"
      /\ Becomes(k, w)
      /\ UNCHANGED <<rows, left, pages, pc, i, joined, size, slots>>
  BY DEF TypeOK, RunDeferred
<1>2. /\ w \in Worker /\ w.at = "check"
      /\ w.row = workers[k].row /\ w.last = workers[k].last /\ w.slot = workers[k].slot
  BY <1>1, PutAt
<1> HIDE DEF w, k
<1>3. /\ workers' \in Seq(Worker) /\ Len(workers') = Len(workers)
      /\ DOMAIN workers' = DOMAIN workers /\ workers'[k] = w
      /\ \A j \in DOMAIN workers : j # k => workers'[j] = workers[j]
  BY <1>1, <1>2, BecomesFacts
<1>4. TypeOK' /\ PagesCover' /\ NoRowMisplaced'
  BY <1>1, <1>3 DEF TypeOK, PagesCover, NoRowMisplaced
<1>5. Launched'
  BY <1>1, <1>3 DEF QueryInvariant, Launched
<1>6. InPlace'
  BY <1>1, <1>2, <1>3 DEF QueryInvariant, InPlace
<1>7. Constructed'
  BY <1>1, <1>2, <1>3 DEF QueryInvariant, Constructed, ConstructedUpTo
<1> QED
  BY <1>4, <1>5, <1>6, <1>7 DEF QueryInvariant

(* The other steps of the handler change none of the data. *)
LEMMA PhasesKeep ==
  ASSUME IInv, EndPaging \/ EndLaunching \/ Join \/ Answer
  PROVE  IInv'
<1> USE DEF IInv
<1>1. /\ UNCHANGED <<rows, left, pages, i, workers, size, slots>>
      /\ pc' # "paging" /\ left = 0
      /\ pc' \in {"paging", "launching", "joining"} \cup Ends
      /\ joined' \in 0 .. Len(workers)
  BY DEF EndPaging, EndLaunching, Join, Answer, TypeOK, QueryInvariant, Launched, Ends
<1>2. TypeOK' /\ PagesCover' /\ NoRowMisplaced'
  BY <1>1 DEF TypeOK, PagesCover, NoRowMisplaced
<1>3. QueryInvariant'
  BY <1>1 DEF QueryInvariant, Launched, InPlace, Constructed, ConstructedUpTo
<1> QED
  BY <1>2, <1>3
-----------------------------------------------------------------------------
(* The steps of the workers. *)

(* What every step of a worker finds. *)
LEMMA WorkerFacts ==
  ASSUME IInv, NEW k \in DOMAIN workers
  PROVE  /\ workers \in Seq(Worker) /\ workers[k] \in Worker
         /\ workers[k].slot \in Nat /\ workers[k].row \in Nat
         /\ workers[k].last \in Nat /\ workers[k].need \in Nat
         /\ workers[k].next \in Nat /\ workers[k].end \in Nat
         /\ rows \in Nat /\ size \in 0 .. rows
<1>1. workers \in Seq(Worker) /\ rows \in Nat /\ size \in 0 .. rows
  BY PagedQueryAssumption DEF IInv, TypeOK
<1>2. workers[k] \in Worker
  BY <1>1
<1> QED
  BY <1>1, <1>2, WorkerFields

(* A worker that stays in its place and constructs nothing. *)
LEMMA MovesOn ==
  ASSUME IInv, NEW k \in DOMAIN workers, NEW w \in Worker, Becomes(k, w),
         workers[k].at # "done", w.at # "done", w.at # "fill",
         w.row = workers[k].row, w.last = workers[k].last, w.slot = workers[k].slot,
         UNCHANGED <<rows, left, pages, pc, i, joined, size, slots>>
  PROVE  IInv'
<1> USE DEF IInv
<1>1. workers \in Seq(Worker)
  BY DEF TypeOK
<1>2. /\ workers' \in Seq(Worker) /\ Len(workers') = Len(workers)
      /\ DOMAIN workers' = DOMAIN workers /\ workers'[k] = w
      /\ \A j \in DOMAIN workers : j # k => workers'[j] = workers[j]
  BY <1>1, BecomesFacts
<1>3. TypeOK' /\ PagesCover' /\ NoRowMisplaced'
  BY <1>2 DEF TypeOK, PagesCover, NoRowMisplaced
<1>4. Launched'
  BY <1>1, <1>2 DEF QueryInvariant, Launched
<1>5. InPlace'
  BY <1>2 DEF QueryInvariant, InPlace
<1>6. Constructed'
  BY <1>2 DEF QueryInvariant, Constructed, ConstructedUpTo
<1> QED
  BY <1>3, <1>4, <1>5, <1>6 DEF QueryInvariant

(* Reading the size. *)
LEMMA CheckKeeps ==
  ASSUME IInv, NEW k \in DOMAIN workers, Check(k)
  PROVE  IInv'
<1>1. workers[k] \in Worker /\ workers[k].slot \in Nat /\ size \in Nat
  BY WorkerFacts
<1>2. workers[k].at = "check"
  BY DEF Check, RunsAt
<1>3. UNCHANGED <<rows, left, pages, pc, i, joined, size, slots>>
  BY DEF Check
<1>4. CASE Becomes(k, [workers[k] EXCEPT !.at = "store"])
  <2> DEFINE w == [workers[k] EXCEPT !.at = "store"]
  <2>1. /\ w \in Worker /\ w.at = "store" /\ w.row = workers[k].row
        /\ w.last = workers[k].last /\ w.slot = workers[k].slot
    BY <1>1, PutAt
  <2>2. Becomes(k, w)
    BY <1>4
  <2> HIDE DEF w
  <2> QED
    BY <1>2, <1>3, <2>1, <2>2, MovesOn
<1>5. CASE /\ workers[k].slot > size
           /\ Becomes(k, [workers[k] EXCEPT !.at = "append", !.need = Missing(k)])
  <2> DEFINE w == [workers[k] EXCEPT !.at = "append", !.need = Missing(k)]
  <2>1. Missing(k) \in Nat
    BY <1>1, <1>5 DEF Missing
  <2>2. /\ w \in Worker /\ w.at = "append" /\ w.row = workers[k].row
        /\ w.last = workers[k].last /\ w.slot = workers[k].slot
    <3> DEFINE u == workers[k]
               need == Missing(k)
    <3>1. w = [u EXCEPT !.at = "append", !.need = need]
      OBVIOUS
    <3>2. u \in Worker /\ need \in Nat
      BY <1>1, <2>1
    <3> HIDE DEF u, need, w
    <3>3. /\ w \in Worker /\ w.at = "append"
          /\ w.row = u.row /\ w.last = u.last /\ w.slot = u.slot
      BY <3>1, <3>2 DEF Worker
    <3> QED
      BY <3>3 DEF u
  <2>3. Becomes(k, w)
    BY <1>5
  <2> HIDE DEF w
  <2> QED
    BY <1>2, <1>3, <2>2, <2>3, MovesOn
<1> QED
  BY <1>4, <1>5 DEF Check

(* Beginning to append. *)
LEMMA BeginAppendKeeps ==
  ASSUME IInv, NEW k \in DOMAIN workers, BeginAppend(k)
  PROVE  IInv'
<1> USE DEF IInv
<1> DEFINE w == [workers[k] EXCEPT !.at = "fill", !.next = size + 1,
                                   !.end = size + workers[k].need]
<1>1. /\ workers \in Seq(Worker) /\ workers[k] \in Worker /\ size \in Nat
      /\ workers[k].need \in Nat /\ rows \in Nat
      /\ workers[k].at = "append" /\ size + workers[k].need <= rows
      /\ Becomes(k, w)
      /\ UNCHANGED <<rows, left, pages, pc, i, joined, size, slots>>
  BY WorkerFacts DEF BeginAppend, RunsAt
<1>2. /\ w \in Worker /\ w.at = "fill"
      /\ w.row = workers[k].row /\ w.last = workers[k].last /\ w.slot = workers[k].slot
      /\ w.next = size + 1 /\ w.end = size + workers[k].need
  <2> DEFINE u == workers[k]
             next == size + 1
             end == size + workers[k].need
  <2>1. u \in Worker /\ next \in Nat /\ end \in Nat
    BY <1>1
  <2>2. w = [u EXCEPT !.at = "fill", !.next = next, !.end = end]
    OBVIOUS
  <2> HIDE DEF u, next, end, w
  <2>3. /\ w \in Worker /\ w.at = "fill" /\ w.next = next /\ w.end = end
        /\ w.row = u.row /\ w.last = u.last /\ w.slot = u.slot
    BY <2>1, <2>2 DEF Worker
  <2> QED
    BY <2>3 DEF u, next, end
<1> HIDE DEF w
<1>3. /\ workers' \in Seq(Worker) /\ Len(workers') = Len(workers)
      /\ DOMAIN workers' = DOMAIN workers /\ workers'[k] = w
      /\ \A j \in DOMAIN workers : j # k => workers'[j] = workers[j]
  BY <1>1, <1>2, BecomesFacts
<1>4. TypeOK' /\ PagesCover' /\ NoRowMisplaced'
  BY <1>1, <1>3 DEF TypeOK, PagesCover, NoRowMisplaced
<1>5. Launched'
  BY <1>1, <1>3 DEF QueryInvariant, Launched
<1>6. InPlace'
  BY <1>1, <1>2, <1>3 DEF QueryInvariant, InPlace
<1>7. Constructed'
  <2>1. /\ w.next >= 1 /\ w.next <= w.end + 1 /\ w.end <= rows
        /\ ConstructedUpTo(w.next - 1)
    <3>1. w.next - 1 = size
      BY <1>1, <1>2
    <3> QED
      BY <1>1, <1>2, <3>1 DEF QueryInvariant, Constructed
  <2> QED
    BY <1>1, <1>3, <2>1 DEF QueryInvariant, Constructed, ConstructedUpTo
<1> QED
  BY <1>4, <1>5, <1>6, <1>7 DEF QueryInvariant

(* Constructing one null. *)
LEMMA FillKeeps ==
  ASSUME IInv, NEW k \in DOMAIN workers, Fill(k)
  PROVE  IInv'
<1> USE DEF IInv
<1> DEFINE w == [workers[k] EXCEPT !.next = workers[k].next + 1]
<1>1. /\ workers \in Seq(Worker) /\ workers[k] \in Worker /\ rows \in Nat
      /\ size \in Nat /\ workers[k].next \in Nat /\ workers[k].end \in Nat
      /\ workers[k].at = "fill" /\ workers[k].next <= workers[k].end
      /\ UNCHANGED <<rows, left, pages, pc, i, joined, size>>
  BY WorkerFacts DEF Fill, RunsAt
<1>2. Becomes(k, w)
  BY DEF Fill
<1>3. /\ w \in Worker /\ w.at = "fill"
      /\ w.row = workers[k].row /\ w.last = workers[k].last /\ w.slot = workers[k].slot
      /\ w.next = workers[k].next + 1 /\ w.end = workers[k].end
  BY <1>1, PutNext
<1> HIDE DEF w
<1>4. /\ workers' \in Seq(Worker) /\ Len(workers') = Len(workers)
      /\ DOMAIN workers' = DOMAIN workers /\ workers'[k] = w
      /\ \A j \in DOMAIN workers : j # k => workers'[j] = workers[j]
  BY <1>1, <1>2, <1>3, BecomesFacts
<1>5. /\ workers[k].next \in 1 .. rows
      /\ workers[k].end <= rows
      /\ ConstructedUpTo(workers[k].next - 1)
  BY <1>1 DEF QueryInvariant, Constructed
<1>6. /\ slots' \in [1 .. rows -> {NullSlot, RawSlot, TornSlot} \cup 1 .. rows]
      /\ slots'[workers[k].next] = NullSlot
      /\ \A n \in 1 .. rows : n # workers[k].next => slots'[n] = slots[n]
  BY <1>5 DEF Fill, TypeOK
<1>7. TypeOK' /\ PagesCover'
  BY <1>1, <1>4, <1>6 DEF TypeOK, PagesCover
<1>8. NoRowMisplaced'
  BY <1>1, <1>6 DEF NoRowMisplaced
<1>9. Launched'
  BY <1>1, <1>4 DEF QueryInvariant, Launched
<1>10. InPlace'
  BY <1>1, <1>3, <1>4 DEF QueryInvariant, InPlace
<1>11. Constructed'
  <2>1. \A n \in 1 .. rows : slots[n] # RawSlot => slots'[n] # RawSlot
    BY <1>1, <1>6 DEF NullSlot, RawSlot
  <2>2. \A n \in 1 .. workers[k].next : slots'[n] # RawSlot
    BY <1>1, <1>5, <1>6, <2>1 DEF ConstructedUpTo, NullSlot, RawSlot
  <2>3. ConstructedUpTo(size)'
    BY <1>1, <2>1 DEF QueryInvariant, Constructed, ConstructedUpTo
  <2> SUFFICES ASSUME NEW j \in DOMAIN workers, workers'[j].at = "fill"
               PROVE  /\ workers'[j].next >= 1
                      /\ workers'[j].next <= workers'[j].end + 1
                      /\ workers'[j].end <= rows
                      /\ workers'[j].next - 1 <= rows
                      /\ \A m \in 1 .. workers'[j].next - 1 : slots'[m] # RawSlot
    BY <1>1, <1>4, <2>3 DEF Constructed, ConstructedUpTo
  <2>4. CASE j = k
    BY <1>1, <1>3, <1>4, <1>5, <2>2, <2>4
  <2>5. CASE j # k
    <3>1. workers'[j] = workers[j] /\ workers[j] \in Worker
      BY <1>1, <1>4, <2>5
    <3>2. /\ workers[j].next >= 1 /\ workers[j].next <= workers[j].end + 1
          /\ workers[j].end <= rows /\ workers[j].next - 1 <= rows
          /\ \A m \in 1 .. workers[j].next - 1 : slots[m] # RawSlot
      BY <3>1 DEF QueryInvariant, Constructed, ConstructedUpTo
    <3>3. workers[j].next \in Nat /\ workers[j].end \in Nat
      BY <3>1, WorkerFields
    <3>4. \A m \in 1 .. workers[j].next - 1 : m \in 1 .. rows
      BY <1>1, <3>2, <3>3
    <3> QED
      BY <2>1, <3>1, <3>2, <3>4
  <2> QED
    BY <2>4, <2>5
<1> QED
  BY <1>7, <1>8, <1>9, <1>10, <1>11 DEF QueryInvariant

(* Setting the size to where the append ended. *)
LEMMA PublishKeeps ==
  ASSUME IInv, NEW k \in DOMAIN workers, Publish(k)
  PROVE  IInv'
<1> USE DEF IInv
<1> DEFINE w == [workers[k] EXCEPT !.at = "store"]
<1>1. /\ workers \in Seq(Worker) /\ workers[k] \in Worker /\ rows \in Nat
      /\ workers[k].next \in Nat /\ workers[k].end \in Nat
      /\ workers[k].at = "fill" /\ workers[k].next > workers[k].end
      /\ UNCHANGED <<rows, left, pages, pc, i, joined, slots>>
      /\ size' = workers[k].end
  BY WorkerFacts DEF Publish, RunsAt
<1>2. Becomes(k, w)
  BY DEF Publish
<1>3. /\ w \in Worker /\ w.at = "store"
      /\ w.row = workers[k].row /\ w.last = workers[k].last /\ w.slot = workers[k].slot
  BY <1>1, PutAt
<1> HIDE DEF w
<1>4. /\ workers' \in Seq(Worker) /\ Len(workers') = Len(workers)
      /\ DOMAIN workers' = DOMAIN workers /\ workers'[k] = w
      /\ \A j \in DOMAIN workers : j # k => workers'[j] = workers[j]
  BY <1>1, <1>2, <1>3, BecomesFacts
<1>5. size' \in 0 .. rows /\ \A m \in 1 .. size' : slots[m] # RawSlot
  <2>1. /\ workers[k].next <= workers[k].end + 1 /\ workers[k].end <= rows
        /\ \A m \in 1 .. workers[k].next - 1 : slots[m] # RawSlot
    BY <1>1 DEF QueryInvariant, Constructed, ConstructedUpTo
  <2> QED
    BY <1>1, <2>1
<1>6. TypeOK' /\ PagesCover' /\ NoRowMisplaced'
  BY <1>1, <1>4, <1>5 DEF TypeOK, PagesCover, NoRowMisplaced
<1>7. Launched'
  BY <1>1, <1>4 DEF QueryInvariant, Launched
<1>8. InPlace'
  BY <1>1, <1>3, <1>4 DEF QueryInvariant, InPlace
<1>9. Constructed'
  BY <1>1, <1>3, <1>4, <1>5 DEF QueryInvariant, Constructed, ConstructedUpTo
<1> QED
  BY <1>6, <1>7, <1>8, <1>9 DEF QueryInvariant

(* Storing a row. *)
LEMMA StoreKeeps ==
  ASSUME IInv, NEW k \in DOMAIN workers, Store(k)
  PROVE  IInv'
<1> USE DEF IInv
<1> DEFINE w == NextRow(workers[k])
           n == workers[k].slot
<1>1. /\ workers \in Seq(Worker) /\ workers[k] \in Worker /\ rows \in Nat
      /\ workers[k].row \in Nat /\ workers[k].last \in Nat /\ n \in Nat
      /\ workers[k].at = "store"
      /\ UNCHANGED <<rows, left, pages, pc, i, joined, size>>
      /\ Becomes(k, w)
  BY WorkerFacts DEF Store, RunsAt
<1>2. /\ n = workers[k].row /\ n <= workers[k].last
      /\ n >= 1 /\ workers[k].last <= rows
  BY <1>1 DEF QueryInvariant, InPlace
<1>3. /\ w \in Worker /\ w.at \in {"check", "done"}
      /\ w.at # "done" => w.row <= w.last /\ w.slot = w.row
      /\ w.row >= 1 /\ w.last <= rows
  <2>1. /\ w.at = IF workers[k].row < workers[k].last THEN "check" ELSE "done"
        /\ w.row = workers[k].row + 1 /\ w.slot = workers[k].slot + 1
        /\ w.last = workers[k].last
        /\ w \in Worker
    <3> DEFINE u == workers[k]
               row == u.row + 1
               slot == u.slot + 1
               at == IF workers[k].row < workers[k].last THEN "check" ELSE "done"
    <3>1. u \in Worker /\ at \in {"check", "done"} /\ row \in Nat /\ slot \in Nat
      BY <1>1
    <3>2. w = [u EXCEPT !.at = at, !.row = row, !.slot = slot]
      BY DEF NextRow
    <3> HIDE DEF u, row, slot, at, w
    <3>3. /\ w \in Worker /\ w.at = at
          /\ w.row = row /\ w.last = u.last /\ w.slot = slot
      BY <3>1, <3>2 DEF Worker
    <3> QED
      BY <3>3 DEF u, row, slot, at
  <2> HIDE DEF w
  <2> QED
    BY <1>1, <1>2, <2>1
<1> HIDE DEF w
<1>4. /\ workers' \in Seq(Worker) /\ Len(workers') = Len(workers)
      /\ DOMAIN workers' = DOMAIN workers /\ workers'[k] = w
      /\ \A j \in DOMAIN workers : j # k => workers'[j] = workers[j]
  BY <1>1, <1>3, BecomesFacts
<1>5. n \in 1 .. rows
  BY <1>1, <1>2
<1>6. PICK value \in {n, TornSlot} : slots' = [slots EXCEPT ![n] = value]
  BY <1>2 DEF Store
<1>7. /\ slots' \in [1 .. rows -> {NullSlot, RawSlot, TornSlot} \cup 1 .. rows]
      /\ slots'[n] \in {n, TornSlot}
      /\ \A m \in 1 .. rows : m # n => slots'[m] = slots[m]
  BY <1>5, <1>6 DEF TypeOK
<1>8. TypeOK' /\ PagesCover'
  BY <1>1, <1>4, <1>7 DEF TypeOK, PagesCover
<1>9. NoRowMisplaced'
  BY <1>1, <1>7 DEF NoRowMisplaced
<1>10. Launched'
  BY <1>1, <1>4 DEF QueryInvariant, Launched
<1>11. InPlace'
  BY <1>1, <1>3, <1>4 DEF QueryInvariant, InPlace
<1>12. Constructed'
  <2>1. n # RawSlot /\ TornSlot # RawSlot
    BY <1>5 DEF RawSlot, TornSlot
  <2>2. \A m \in 1 .. rows : slots[m] # RawSlot => slots'[m] # RawSlot
    BY <1>7, <2>1
  <2>3. ConstructedUpTo(size)'
    BY <1>1, <2>2 DEF QueryInvariant, Constructed, ConstructedUpTo, TypeOK
  <2> SUFFICES ASSUME NEW j \in DOMAIN workers, workers'[j].at = "fill"
               PROVE  /\ workers'[j].next >= 1
                      /\ workers'[j].next <= workers'[j].end + 1
                      /\ workers'[j].end <= rows
                      /\ workers'[j].next - 1 <= rows
                      /\ \A m \in 1 .. workers'[j].next - 1 : slots'[m] # RawSlot
    BY <1>1, <1>4, <2>3 DEF Constructed, ConstructedUpTo
  <2>4. j # k /\ workers'[j] = workers[j] /\ workers[j] \in Worker
    BY <1>1, <1>3, <1>4
  <2>5. /\ workers[j].next >= 1 /\ workers[j].next <= workers[j].end + 1
        /\ workers[j].end <= rows /\ workers[j].next - 1 <= rows
        /\ \A m \in 1 .. workers[j].next - 1 : slots[m] # RawSlot
    BY <2>4 DEF QueryInvariant, Constructed, ConstructedUpTo
  <2>6. workers[j].next \in Nat /\ workers[j].end \in Nat
    BY <2>4, WorkerFields
  <2>7. \A m \in 1 .. workers[j].next - 1 : m \in 1 .. rows
    BY <1>1, <2>5, <2>6
  <2> QED
    BY <2>2, <2>4, <2>5, <2>7
<1> QED
  BY <1>8, <1>9, <1>10, <1>11, <1>12 DEF QueryInvariant

(* The end of the process. *)
LEMMA EndKeeps ==
  ASSUME IInv, pc # "paging", pc' \in Ends,
         UNCHANGED <<rows, left, pages, i, workers, joined, size, slots>>
  PROVE  IInv'
BY DEF IInv, TypeOK, PagesCover, NoRowMisplaced, QueryInvariant, Launched, InPlace,
       Constructed, ConstructedUpTo, Ends
-----------------------------------------------------------------------------
(* Every step keeps the invariant. *)
LEMMA NextIInv == IInv /\ [Next]_vars => IInv'
<1> SUFFICES ASSUME IInv, [Next]_vars PROVE IInv'
  OBVIOUS
<1>1. CASE MainStep
  <2>1. CASE CutPage
    BY <2>1, CutPageKeeps
  <2>2. CASE \E lazy \in BOOLEAN : Launch(lazy)
    BY <2>2, LaunchKeeps
  <2>3. CASE RunDeferred
    BY <2>3, RunDeferredKeeps
  <2>4. CASE EndPaging \/ EndLaunching \/ Join \/ Answer
    BY <2>4, PhasesKeep
  <2> QED
    BY <1>1, <2>1, <2>2, <2>3, <2>4 DEF MainStep
<1>2. ASSUME NEW k \in DOMAIN workers, WorkerStep(k)
      PROVE  IInv'
  <2>1. CASE Relocate(k) \/ DestroyGarbage(k)
    BY <2>1, EndKeeps DEF Relocate, DestroyGarbage, RunsAt, Ends
  <2> QED
    BY <1>2, <2>1, CheckKeeps, BeginAppendKeeps, FillKeeps, PublishKeeps, StoreKeeps
       DEF WorkerStep
<1>3. CASE UNCHANGED vars
  BY <1>3 DEF vars, IInv, TypeOK, PagesCover, NoRowMisplaced, QueryInvariant,
              Launched, InPlace, Constructed, ConstructedUpTo
<1> QED
  BY <1>1, <1>2, <1>3 DEF Next, Ended

LEMMA Invariance == Spec => []IInv
BY InitIInv, NextIInv, PTL DEF Spec

(* The variables keep their types: no worker appends or writes beyond the  *)
(* memory reserved for the rows (DbManager.h:219-236).                     *)
THEOREM QueryTypeCorrect == Spec => []TypeOK
<1>1. IInv => TypeOK
  BY DEF IInv
<1> QED
  BY <1>1, Invariance, PTL

(* The pages of Paginator are a partition of the rows into full pages and  *)
(* a last one (Paginator.h:24-33).                                         *)
THEOREM PagesPartitionRows == Spec => []PagesCover
<1>1. IInv => PagesCover
  BY DEF IInv
<1> QED
  BY <1>1, Invariance, PTL

(* However the workers interleave, a row is written to its own place or    *)
(* nowhere (DbManager.h:228-236, 258-266).                                 *)
THEOREM RowsStayInPlace == Spec => []NoRowMisplaced
<1>1. IInv => NoRowMisplaced
  BY DEF IInv
<1> QED
  BY <1>1, Invariance, PTL

(* However the workers interleave, dump finds no memory in the vector that *)
(* was never constructed (DbManager.h:228-239).                            *)
THEOREM NothingUnconstructedInAnswer == Spec => []AnswerReadable
<1>1. IInv => AnswerReadable
  BY DEF IInv, QueryInvariant, Constructed, ConstructedUpTo, AnswerReadable
<1> QED
  BY <1>1, Invariance, PTL

(* What the workers rely on holds at every step.                           *)
THEOREM QueryInvariantHolds == Spec => []QueryInvariant
<1>1. IInv => QueryInvariant
  BY DEF IInv
<1> QED
  BY <1>1, Invariance, PTL
-----------------------------------------------------------------------------
(***************************************************************************)
(* Without a race the answer is complete.                                  *)
(***************************************************************************)

SInv == IInv /\ SequentialInvariant

(* What the steps of a worker make of it. *)
LEMMA StepFacts ==
  ASSUME IInv, NEW k \in DOMAIN workers,
         Check(k) \/ BeginAppend(k) \/ Fill(k) \/ Publish(k) \/ Store(k)
  PROVE  /\ workers' \in Seq(Worker) /\ Len(workers') = Len(workers)
         /\ DOMAIN workers' = DOMAIN workers
         /\ \A j \in DOMAIN workers : j # k => workers'[j] = workers[j]
         /\ workers'[k].last = workers[k].last /\ workers'[k].lazy = workers[k].lazy
         /\ workers[k].at \in {"check", "append", "fill", "store"}
         /\ UNCHANGED <<rows, left, pages, pc, i, joined>>
         /\ ~Store(k) => /\ workers'[k].row = workers[k].row
                         /\ workers'[k].at \in {"append", "fill", "store"}
         /\ Check(k) =>
              /\ workers[k].at = "check" /\ UNCHANGED <<size, slots>>
              /\ \/ workers[k].slot <= size /\ workers'[k].at = "store"
                 \/ /\ workers[k].slot > size /\ workers'[k].at = "append"
                    /\ workers'[k].need = workers[k].slot - size
         /\ BeginAppend(k) =>
              /\ workers[k].at = "append" /\ UNCHANGED <<size, slots>>
              /\ workers'[k].at = "fill" /\ workers'[k].next = size + 1
              /\ workers'[k].end = size + workers[k].need
         /\ Fill(k) =>
              /\ workers[k].at = "fill" /\ workers'[k].at = "fill" /\ size' = size
              /\ workers'[k].next = workers[k].next + 1
              /\ workers'[k].end = workers[k].end
         /\ Publish(k) =>
              /\ workers[k].at = "fill" /\ workers'[k].at = "store"
              /\ size' = workers[k].end /\ slots' = slots
         /\ Store(k) =>
              /\ workers[k].at = "store" /\ size' = size
              /\ workers'[k].row = workers[k].row + 1
              /\ workers'[k].at = IF workers[k].row < workers[k].last THEN "check"
                                  ELSE "done"
<1>1. PICK u : u = workers[k]
  OBVIOUS
<1>2. /\ workers \in Seq(Worker) /\ u \in Worker /\ size \in Nat
      /\ u.row \in Nat /\ u.slot \in Nat /\ u.need \in Nat /\ u.next \in Nat
      /\ u.end \in Nat
  BY <1>1, WorkerFacts
<1>3. CASE Check(k)
  <2>1. PICK w : /\ Becomes(k, w)
                 /\ \/ u.slot <= size /\ w = [u EXCEPT !.at = "store"]
                    \/ /\ u.slot > size
                       /\ w = [u EXCEPT !.at = "append", !.need = u.slot - size]
    BY <1>1, <1>3 DEF Check, Missing
  <2>2. u.slot > size => u.slot - size \in Nat
    BY <1>2
  <2>3. /\ w \in Worker /\ w.last = u.last /\ w.lazy = u.lazy /\ w.row = u.row
        /\ \/ u.slot <= size /\ w.at = "store"
           \/ u.slot > size /\ w.at = "append" /\ w.need = u.slot - size
    BY <1>2, <2>1, <2>2 DEF Worker
  <2>4. /\ u.at = "check" /\ UNCHANGED <<rows, left, pages, pc, i, joined, size, slots>>
        /\ ~Store(k) /\ ~BeginAppend(k) /\ ~Fill(k) /\ ~Publish(k)
    BY <1>1, <1>3 DEF Check, RunsAt, Store, BeginAppend, Fill, Publish
  <2> QED
    BY <1>1, <1>2, <2>1, <2>3, <2>4, BecomesFacts
<1>4. CASE BeginAppend(k)
  <2>1. PICK w : /\ Becomes(k, w)
                 /\ w = [u EXCEPT !.at = "fill", !.next = size + 1,
                                  !.end = size + u.need]
    BY <1>1, <1>4 DEF BeginAppend
  <2>2. size + 1 \in Nat /\ size + u.need \in Nat
    BY <1>2
  <2>3. /\ w \in Worker /\ w.last = u.last /\ w.lazy = u.lazy /\ w.row = u.row
        /\ w.at = "fill" /\ w.next = size + 1 /\ w.end = size + u.need
    BY <1>2, <2>1, <2>2 DEF Worker
  <2>4. /\ u.at = "append" /\ UNCHANGED <<rows, left, pages, pc, i, joined, size, slots>>
        /\ ~Store(k) /\ ~Check(k) /\ ~Fill(k) /\ ~Publish(k)
    BY <1>1, <1>4 DEF Check, RunsAt, Store, BeginAppend, Fill, Publish
  <2> QED
    BY <1>1, <1>2, <2>1, <2>3, <2>4, BecomesFacts
<1>5. CASE Fill(k)
  <2>1. PICK w : Becomes(k, w) /\ w = [u EXCEPT !.next = u.next + 1]
    BY <1>1, <1>5 DEF Fill
  <2>2. u.next + 1 \in Nat
    BY <1>2
  <2>3. /\ w \in Worker /\ w.last = u.last /\ w.lazy = u.lazy /\ w.row = u.row
        /\ w.at = u.at /\ w.next = u.next + 1 /\ w.end = u.end
    BY <1>2, <2>1, <2>2 DEF Worker
  <2>4. /\ u.at = "fill" /\ UNCHANGED <<rows, left, pages, pc, i, joined, size>>
        /\ ~Store(k) /\ ~Check(k) /\ ~BeginAppend(k) /\ ~Publish(k)
    BY <1>1, <1>2, <1>5 DEF Check, RunsAt, Store, BeginAppend, Fill, Publish
  <2> QED
    BY <1>1, <1>2, <2>1, <2>3, <2>4, BecomesFacts
<1>6. CASE Publish(k)
  <2>1. PICK w : Becomes(k, w) /\ w = [u EXCEPT !.at = "store"]
    BY <1>1, <1>6 DEF Publish
  <2>2. /\ w \in Worker /\ w.last = u.last /\ w.lazy = u.lazy /\ w.row = u.row
        /\ w.at = "store"
    BY <1>2, <2>1 DEF Worker
  <2>3. /\ u.at = "fill" /\ UNCHANGED <<rows, left, pages, pc, i, joined, slots>>
        /\ size' = u.end /\ ~Store(k) /\ ~Check(k) /\ ~BeginAppend(k) /\ ~Fill(k)
    BY <1>1, <1>2, <1>6 DEF Check, RunsAt, Store, BeginAppend, Fill, Publish
  <2> QED
    BY <1>1, <1>2, <2>1, <2>2, <2>3, BecomesFacts
<1>7. CASE Store(k)
  <2>1. PICK w : Becomes(k, w) /\ w = NextRow(u)
    BY <1>1, <1>7 DEF Store
  <2>2. u.row + 1 \in Nat /\ u.slot + 1 \in Nat
    BY <1>2
  <2>3. /\ w \in Worker /\ w.last = u.last /\ w.lazy = u.lazy /\ w.row = u.row + 1
        /\ w.at = IF u.row < u.last THEN "check" ELSE "done"
    BY <1>2, <2>1, <2>2 DEF Worker, NextRow
  <2>4. /\ u.at = "store" /\ UNCHANGED <<rows, left, pages, pc, i, joined, size>>
        /\ ~Publish(k) /\ ~Check(k) /\ ~BeginAppend(k) /\ ~Fill(k)
    BY <1>1, <1>7 DEF Check, RunsAt, Store, BeginAppend, Fill, Publish
  <2> QED
    BY <1>1, <1>2, <2>1, <2>3, <2>4, BecomesFacts
<1> QED
  BY <1>3, <1>4, <1>5, <1>6, <1>7

(* Workers stay on their pages. *)
LEMMA WorkerKeepsPage ==
  ASSUME SInv, NEW k \in DOMAIN workers,
         Check(k) \/ BeginAppend(k) \/ Fill(k) \/ Publish(k) \/ Store(k)
  PROVE  WorkersOnPages' /\ (OneAtATime' => OneAtATime)
<1>1. /\ IInv /\ WorkersOnPages
  BY DEF SInv, SequentialInvariant
<1>2. /\ Len(workers') = Len(workers) /\ DOMAIN workers' = DOMAIN workers
      /\ \A j \in DOMAIN workers : j # k => workers'[j] = workers[j]
      /\ workers'[k].last = workers[k].last /\ workers'[k].lazy = workers[k].lazy
      /\ UNCHANGED <<rows, left, pages, pc, i, joined>>
      /\ workers'[k].at # "deferred"
      /\ workers'[k].at = "done" => /\ workers'[k].row = workers[k].row + 1
                                    /\ ~(workers[k].row < workers[k].last)
                                    /\ workers[k].at # "done"
  BY <1>1, StepFacts
<1>3. /\ workers[k].row \in Nat /\ workers[k].last \in Nat
      /\ workers[k].at # "done" => workers[k].row <= workers[k].last
  BY <1>1, WorkerFacts DEF IInv, QueryInvariant, InPlace
<1>4. workers'[k].at = "done" => workers'[k].row = workers'[k].last + 1
  BY <1>2, <1>3
<1>5. WorkersOnPages'
  BY <1>1, <1>2, <1>4 DEF WorkersOnPages
<1>6. OneAtATime' => OneAtATime
  BY <1>2 DEF OneAtATime
<1> QED
  BY <1>5, <1>6

(* The only worker at work is the one that is waited for. *)
LEMMA AtWork ==
  ASSUME SInv, OneAtATime, NEW k \in DOMAIN workers,
         workers[k].at \notin {"done", "deferred"}
  PROVE  /\ k = joined + 1 /\ joined < Len(workers) /\ joined \in Nat
         /\ \A j \in DOMAIN workers : j # k => workers[j].at \in {"done", "deferred"}
         /\ StoredRows = workers[k].row - 1
         /\ workers[k].slot = workers[k].row
         /\ workers[k].row \in 1 .. rows /\ workers[k].row <= workers[k].last
         /\ \A n \in 1 .. workers[k].row - 1 : slots[n] = n
         /\ \A n \in 1 .. rows : slots[n] # TornSlot
         /\ size = IF workers[k].at = "store" THEN workers[k].row
                   ELSE workers[k].row - 1
         /\ workers[k].at = "append" => workers[k].need = 1
         /\ workers[k].at = "fill" =>
              workers[k].end = workers[k].row /\ workers[k].next >= workers[k].row
<1>1. /\ IInv /\ OneAfterTheOther /\ StoredInOrder
  BY DEF SInv, SequentialInvariant
<1>2. /\ workers \in Seq(Worker) /\ joined \in 0 .. Len(workers) /\ k \in 1 .. Len(workers)
  BY <1>1 DEF IInv, TypeOK
<1>3. k = joined + 1 /\ joined < Len(workers) /\ joined \in Nat
  BY <1>1, <1>2 DEF OneAfterTheOther
<1>4. \A j \in DOMAIN workers : j # k => workers[j].at \in {"done", "deferred"}
  BY <1>1, <1>2, <1>3 DEF OneAfterTheOther
<1>5. /\ workers[k].slot = workers[k].row /\ workers[k].row <= workers[k].last
      /\ workers[k].row >= 1 /\ workers[k].last <= rows
      /\ workers[k].row \in Nat /\ workers[k].last \in Nat /\ rows \in Nat
  BY <1>1, WorkerFacts DEF IInv, QueryInvariant, InPlace
<1>6. workers[k].row \in 1 .. rows
  BY <1>5
<1>7. StoredRows = workers[k].row - 1
  BY <1>3 DEF StoredRows
<1> QED
  BY <1>1, <1>3, <1>4, <1>5, <1>6, <1>7 DEF StoredInOrder

(* A worker that runs alone writes its rows one after the other behind     *)
(* those that are there.                                                   *)
LEMMA WorkerStaysSequential ==
  ASSUME SInv, OneAtATime, NEW k \in DOMAIN workers,
         Check(k) \/ BeginAppend(k) \/ Fill(k) \/ Publish(k) \/ Store(k)
  PROVE  OneAfterTheOther' /\ StoredInOrder'
<1>1. /\ IInv /\ OneAfterTheOther
  BY DEF SInv, SequentialInvariant
<1>2. /\ Len(workers') = Len(workers) /\ DOMAIN workers' = DOMAIN workers
      /\ \A j \in DOMAIN workers : j # k => workers'[j] = workers[j]
      /\ workers[k].at \in {"check", "append", "fill", "store"}
      /\ UNCHANGED <<rows, left, pages, pc, i, joined>>
  BY <1>1, StepFacts
<1>3. /\ k = joined + 1 /\ joined < Len(workers) /\ joined \in Nat
      /\ \A j \in DOMAIN workers : j # k => workers[j].at \in {"done", "deferred"}
      /\ workers[k].slot = workers[k].row
      /\ workers[k].row \in 1 .. rows /\ workers[k].row <= workers[k].last
      /\ \A n \in 1 .. workers[k].row - 1 : slots[n] = n
      /\ \A n \in 1 .. rows : slots[n] # TornSlot
      /\ size = IF workers[k].at = "store" THEN workers[k].row ELSE workers[k].row - 1
      /\ workers[k].at = "append" => workers[k].need = 1
      /\ workers[k].at = "fill" =>
           workers[k].end = workers[k].row /\ workers[k].next >= workers[k].row
  BY <1>2, AtWork
<1>4. /\ rows \in Nat /\ workers[k].next \in Nat /\ workers \in Seq(Worker)
      /\ slots \in [1 .. rows -> {NullSlot, RawSlot, TornSlot} \cup 1 .. rows]
  BY <1>1, WorkerFacts DEF IInv, TypeOK
<1>5. OneAfterTheOther'
  <2>1. \A j \in DOMAIN workers : j # k => workers'[j].at = workers[j].at
    BY <1>2
  <2>2. \A j \in DOMAIN workers : (j <= joined \/ j > joined + 1) => j # k
    BY <1>3, <1>4
  <2> QED
    BY <1>1, <1>2, <2>1, <2>2 DEF OneAfterTheOther
<1>6. StoredRows' = workers'[k].row - 1
  BY <1>2, <1>3 DEF StoredRows
<1>7. SUFFICES /\ \A n \in 1 .. workers'[k].row - 1 : slots'[n] = n
               /\ \A n \in 1 .. rows : slots'[n] # TornSlot
               /\ size' = IF workers'[k].at = "store" THEN workers'[k].row
                          ELSE workers'[k].row - 1
               /\ workers'[k].at = "append" => workers'[k].need = 1
               /\ workers'[k].at = "fill" =>
                    workers'[k].end = workers'[k].row /\ workers'[k].next >= workers'[k].row
  BY <1>2, <1>3, <1>5, <1>6 DEF StoredInOrder
<1>8. CASE Check(k)
  <2>1. /\ workers[k].at = "check" /\ UNCHANGED <<size, slots>>
        /\ workers'[k].row = workers[k].row
        /\ \/ workers[k].slot <= size /\ workers'[k].at = "store"
           \/ /\ workers[k].slot > size /\ workers'[k].at = "append"
              /\ workers'[k].need = workers[k].slot - size
    BY <1>1, <1>8, StepFacts DEF Check, Store, RunsAt
  <2>2. size = workers[k].row - 1 /\ workers[k].row \in Nat
    BY <1>3, <2>1
  <2>3. workers'[k].at = "append" /\ workers'[k].need = 1
    BY <1>3, <2>1, <2>2
  <2> QED
    BY <1>3, <2>1, <2>2, <2>3
<1>9. CASE BeginAppend(k)
  <2>1. /\ workers[k].at = "append" /\ UNCHANGED <<size, slots>>
        /\ workers'[k].row = workers[k].row
        /\ workers'[k].at = "fill" /\ workers'[k].next = size + 1
        /\ workers'[k].end = size + workers[k].need
    BY <1>1, <1>9, StepFacts DEF BeginAppend, Store, RunsAt
  <2>2. size = workers[k].row - 1 /\ workers[k].row \in Nat /\ workers[k].need = 1
    BY <1>3, <2>1
  <2>3. workers'[k].next = workers[k].row /\ workers'[k].end = workers[k].row
    BY <2>1, <2>2
  <2> QED
    BY <1>3, <2>1, <2>2, <2>3
<1>10. CASE Fill(k)
  <2>1. /\ workers[k].at = "fill" /\ workers'[k].at = "fill" /\ size' = size
        /\ workers'[k].row = workers[k].row
        /\ workers'[k].next = workers[k].next + 1
        /\ workers'[k].end = workers[k].end
    BY <1>1, <1>10, StepFacts DEF Fill, Store, RunsAt
  <2>2. slots' = [slots EXCEPT ![workers[k].next] = NullSlot]
    BY <1>10 DEF Fill
  <2>3. \A n \in 1 .. rows : slots'[n] = slots[n] \/ slots'[n] = 0
    BY <1>4, <2>2 DEF NullSlot
  <2>4. \A n \in 1 .. workers[k].row - 1 : n \in 1 .. rows /\ n # workers[k].next
    BY <1>3, <1>4, <2>1
  <2>5. \A n \in 1 .. workers[k].row - 1 : slots'[n] = slots[n]
    BY <1>4, <2>2, <2>4
  <2>6. \A n \in 1 .. rows : slots'[n] # TornSlot
    BY <1>3, <2>3 DEF TornSlot
  <2> QED
    BY <1>3, <1>4, <2>1, <2>5, <2>6
<1>11. CASE Publish(k)
  <2>1. /\ workers[k].at = "fill" /\ workers'[k].at = "store"
        /\ size' = workers[k].end /\ slots' = slots
        /\ workers'[k].row = workers[k].row
    BY <1>1, <1>11, StepFacts DEF Publish, Store, RunsAt
  <2> QED
    BY <1>3, <2>1
<1>12. CASE Store(k)
  <2>1. /\ workers[k].at = "store" /\ size' = size
        /\ workers'[k].row = workers[k].row + 1
        /\ workers'[k].at \in {"check", "done"}
    BY <1>1, <1>12, StepFacts
  <2>2. ~Overwritten(k)
    BY <1>3 DEF Overwritten
  <2>3. slots' = [slots EXCEPT ![workers[k].row] = workers[k].row]
    BY <1>3, <1>12, <2>2 DEF Store
  <2>4. workers[k].row \in Nat /\ workers'[k].row - 1 = workers[k].row
        /\ size' = workers[k].row
    BY <1>3, <2>1
  <2>5. \A n \in 1 .. rows : slots'[n] = IF n = workers[k].row THEN n ELSE slots[n]
    BY <1>4, <2>3
  <2>6. \A n \in 1 .. workers'[k].row - 1 :
          n \in 1 .. rows /\ (n = workers[k].row \/ n \in 1 .. workers[k].row - 1)
    BY <1>3, <1>4, <2>4
  <2>7. \A n \in 1 .. rows : slots'[n] # TornSlot
    BY <1>3, <2>5 DEF TornSlot
  <2> QED
    BY <1>3, <2>1, <2>4, <2>5, <2>6, <2>7
<1> QED
  BY <1>8, <1>9, <1>10, <1>11, <1>12

(* What only a race can do. *)
LEMMA NoAccident ==
  ASSUME SInv, OneAtATime, NEW k \in DOMAIN workers
  PROVE  ~Relocate(k) /\ ~DestroyGarbage(k)
<1>1. IInv /\ rows \in Nat
  BY WorkerFacts DEF SInv
<1>2. ASSUME Relocate(k)
      PROVE  FALSE
  <2>1. workers[k].at = "append" /\ size + workers[k].need > rows
    BY <1>2 DEF Relocate, RunsAt
  <2>2. workers[k].need = 1 /\ size = workers[k].row - 1 /\ workers[k].row \in 1 .. rows
    BY <2>1, AtWork
  <2> QED
    BY <1>1, <2>1, <2>2
<1>3. ASSUME DestroyGarbage(k)
      PROVE  FALSE
  <2>1. workers[k].at = "store" /\ slots[workers[k].slot] \in {RawSlot, TornSlot}
    BY <1>3 DEF DestroyGarbage, RunsAt
  <2>2. /\ workers[k].slot = workers[k].row /\ size = workers[k].row
        /\ workers[k].row \in 1 .. rows
        /\ \A n \in 1 .. rows : slots[n] # TornSlot
    BY <2>1, AtWork
  <2>3. workers[k].row \in 1 .. size
    BY <1>1, <2>2
  <2>4. slots[workers[k].row] # RawSlot
    BY <1>1, <2>3 DEF IInv, QueryInvariant, Constructed, ConstructedUpTo
  <2> QED
    BY <2>1, <2>2, <2>4
<1> QED
  BY <1>2, <1>3

(* A worker that is launched is behind those that were.                    *)
LEMMA LaunchSequential ==
  ASSUME SInv, NEW lazy \in BOOLEAN, Launch(lazy)
  PROVE  SequentialInvariant'
<1>1. /\ IInv /\ WorkersOnPages /\ pc = "launching" /\ pc' = pc
      /\ UNCHANGED <<rows, left, pages, joined, size, slots>>
      /\ workers \in Seq(Worker) /\ pages \in Seq(Page) /\ i \in Nat
      /\ joined \in 0 .. Len(workers) /\ Len(workers) < Len(pages)
      /\ rows \in Nat /\ size \in Nat
  BY PagedQueryAssumption DEF SInv, SequentialInvariant, Launch, IInv, TypeOK
<1>2. PICK n, w : n = Len(workers) + 1 /\ w = WorkerFor(pages[n], lazy)
  OBVIOUS
<1>3. n \in DOMAIN pages /\ n \in Nat \ {0} /\ pages[n] \in Page
  BY <1>1, <1>2
<1>4. /\ w \in Worker /\ w.at = (IF lazy THEN "deferred" ELSE "check")
      /\ w.lazy = lazy /\ w.row = pages[n].first /\ w.last = pages[n].last
  BY <1>1, <1>2, <1>3 DEF WorkerFor, Worker, Page
<1>5. workers' = Append(workers, w)
  BY <1>2 DEF Launch
<1>6. /\ Len(workers') = n /\ DOMAIN workers' = 1 .. n
      /\ \A j \in 1 .. n - 1 : j \in DOMAIN workers /\ workers'[j] = workers[j]
      /\ workers'[n] = w
  BY <1>1, <1>2, <1>4, <1>5
<1>7. WorkersOnPages'
  <2>1. ASSUME NEW k \in 1 .. n
        PROVE  /\ workers'[k].last = pages[k].last
               /\ workers'[k].at = "deferred" => workers'[k].row = pages[k].first
               /\ workers'[k].at = "done" => workers'[k].row = workers'[k].last + 1
    <3>1. CASE k = n
      BY <1>4, <1>6, <3>1
    <3>2. CASE k # n
      <4>1. k \in 1 .. n - 1
        BY <1>3, <2>1, <3>2
      <4> QED
        BY <1>1, <1>6, <4>1 DEF WorkersOnPages
    <3> QED
      BY <3>1, <3>2
  <2> QED
    BY <1>1, <1>6, <2>1 DEF WorkersOnPages
<1>8. ASSUME OneAtATime'
      PROVE  /\ OneAtATime
             /\ n = joined + 1 \/ (lazy /\ n > joined + 1)
  <2>1. \A k \in DOMAIN workers : k \in 1 .. n - 1
    BY <1>1, <1>2
  <2>2. OneAtATime
    BY <1>1, <1>6, <1>8, <2>1 DEF OneAtATime
  <2>3. Len(pages) <= 1 => n = joined + 1
    BY <1>1, <1>2
  <2>4. Len(pages) > 1 => lazy
    BY <1>1, <1>3, <1>4, <1>6, <1>8 DEF OneAtATime
  <2>5. n = joined + 1 \/ n > joined + 1
    BY <1>1, <1>2
  <2> QED
    BY <1>1, <2>2, <2>3, <2>4, <2>5
<1>9. ASSUME OneAtATime'
      PROVE  OneAfterTheOther' /\ StoredInOrder'
  <2>1. OneAfterTheOther /\ StoredInOrder
    BY <1>8, <1>9 DEF SInv, SequentialInvariant
  <2>2. OneAfterTheOther'
    <3>1. ASSUME NEW k \in 1 .. n
          PROVE  /\ k <= joined => workers'[k].at = "done"
                 /\ k > joined + 1 => workers'[k].at = "deferred"
      <4>1. CASE k = n
        BY <1>1, <1>2, <1>4, <1>6, <1>8, <1>9, <4>1
      <4>2. CASE k # n
        <5>1. k \in 1 .. n - 1
          BY <1>3, <3>1, <4>2
        <5> QED
          BY <1>6, <2>1, <5>1 DEF OneAfterTheOther
      <4> QED
        BY <4>1, <4>2
    <3> QED
      BY <1>1, <1>6, <3>1 DEF OneAfterTheOther
  <2>3. CASE joined < Len(workers)
    <3>1. /\ joined + 1 \in 1 .. n - 1 /\ joined < n
          /\ workers'[joined + 1] = workers[joined + 1]
      BY <1>1, <1>2, <1>6, <2>3
    <3>2. StoredRows' = StoredRows
      BY <1>1, <1>6, <2>3, <3>1 DEF StoredRows
    <3> QED
      BY <1>1, <1>6, <2>1, <2>2, <2>3, <3>1, <3>2 DEF StoredInOrder
  <2>4. CASE joined = Len(workers)
    <3>1. joined + 1 = n /\ joined < n /\ ~(joined < Len(workers))
      BY <1>1, <1>2, <2>4
    <3>2. StoredRows' = pages[n].first - 1
      BY <1>1, <1>4, <1>6, <3>1 DEF StoredRows
    <3>3. StoredRows = pages[n].first - 1
      <4>1. CASE joined = 0
        <5>1. n = 1 /\ pages[n].first = 1
          BY <1>1, <1>3, <3>1, <4>1 DEF IInv, PagesCover
        <5> QED
          BY <3>1, <4>1, <5>1 DEF StoredRows
      <4>2. CASE joined # 0
        <5>1. /\ joined \in DOMAIN pages /\ joined < Len(pages) /\ joined \in Nat
              /\ pages[joined] \in Page
          BY <1>1, <2>4, <4>2
        <5>2. pages[joined + 1].first = pages[joined].last + 1
          BY <1>1, <5>1 DEF IInv, PagesCover
        <5>3. pages[joined].last \in Nat
          BY <5>1 DEF Page
        <5> QED
          BY <3>1, <4>2, <5>2, <5>3 DEF StoredRows
      <4> QED
        BY <4>1, <4>2
    <3>4. size = StoredRows
      BY <2>1, <3>1 DEF StoredInOrder
    <3>5. workers'[joined + 1].at \in {"deferred", "check"}
          /\ workers'[joined + 1].row = pages[n].first
      BY <1>4, <1>6, <3>1
    <3>6. /\ joined' < Len(workers') /\ joined' = joined
          /\ StoredRows' = StoredRows /\ size' = workers'[joined + 1].row - 1
      BY <1>1, <1>6, <3>1, <3>2, <3>3, <3>4, <3>5
    <3>7. /\ \A m \in 1 .. StoredRows' : slots'[m] = m
          /\ \A m \in 1 .. rows' : slots'[m] # TornSlot
      BY <1>1, <2>1, <3>6 DEF StoredInOrder
    <3> QED
      BY <2>2, <3>5, <3>6, <3>7 DEF StoredInOrder
  <2> QED
    BY <1>1, <2>2, <2>3, <2>4
<1> QED
  BY <1>1, <1>7, <1>9 DEF SequentialInvariant

(* The rows of the page that was waited for are the next in the answer. *)
LEMMA JoinSequential ==
  ASSUME SInv, Join
  PROVE  SequentialInvariant'
<1>1. /\ IInv /\ WorkersOnPages /\ pc = "joining" /\ pc' = pc /\ joined' = joined + 1
      /\ UNCHANGED <<rows, left, pages, workers, size, slots>>
      /\ workers \in Seq(Worker) /\ pages \in Seq(Page) /\ joined \in Nat
      /\ joined + 1 \in DOMAIN workers /\ joined < Len(workers)
      /\ workers[joined + 1].at = "done" /\ Len(workers) = Len(pages)
  BY DEF SInv, SequentialInvariant, Join, IInv, TypeOK, WorkersOnPages
<1>2. WorkersOnPages'
  BY <1>1 DEF WorkersOnPages
<1>3. OneAtATime' => OneAtATime
  BY <1>1 DEF OneAtATime
<1>4. ASSUME OneAtATime
      PROVE  OneAfterTheOther' /\ StoredInOrder'
  <2>1. OneAfterTheOther /\ StoredInOrder
    BY <1>4 DEF SInv, SequentialInvariant
  <2>2. OneAfterTheOther'
    <3>1. \A k \in DOMAIN workers : /\ k <= joined + 1 => k <= joined \/ k = joined + 1
                                    /\ k > joined + 1 + 1 => k > joined + 1
      BY <1>1
    <3> QED
      BY <1>1, <2>1, <3>1 DEF OneAfterTheOther
  <2>3. /\ pages[joined + 1].last \in Nat
        /\ StoredRows = pages[joined + 1].last /\ size = StoredRows
    <3>1. workers[joined + 1].row = pages[joined + 1].last + 1
      BY <1>1 DEF WorkersOnPages
    <3>2. pages[joined + 1] \in Page
      BY <1>1
    <3>3. pages[joined + 1].last \in Nat
      BY <3>2 DEF Page
    <3> QED
      BY <1>1, <2>1, <3>1, <3>3 DEF StoredRows, StoredInOrder
  <2>4. CASE joined + 1 < Len(workers)
    <3>1. joined + 2 \in DOMAIN workers /\ joined + 2 > joined + 1
          /\ joined + 1 \in DOMAIN pages /\ joined + 1 < Len(pages)
      BY <1>1, <2>4
    <3>2. workers[joined + 2].at = "deferred"
      BY <2>1, <3>1 DEF OneAfterTheOther
    <3>3. workers[joined + 2].row = pages[joined + 2].first
      BY <1>1, <3>1, <3>2 DEF WorkersOnPages
    <3>4. pages[joined + 1 + 1].first = pages[joined + 1].last + 1
      BY <1>1, <3>1 DEF IInv, PagesCover
    <3>5. joined + 1 + 1 = joined + 2
      BY <1>1
    <3>6. StoredRows' = workers[joined + 2].row - 1
      BY <1>1, <2>4, <3>5 DEF StoredRows
    <3>7. StoredRows' = StoredRows
      BY <2>3, <3>3, <3>4, <3>5, <3>6
    <3>8. /\ joined' < Len(workers') /\ joined' + 1 = joined + 2
          /\ workers'[joined + 2].at = "deferred"
          /\ size' = workers'[joined + 2].row - 1
      BY <1>1, <2>3, <2>4, <3>2, <3>5, <3>6, <3>7
    <3>9. /\ \A m \in 1 .. StoredRows' : slots'[m] = m
          /\ \A m \in 1 .. rows' : slots'[m] # TornSlot
      BY <1>1, <2>1, <3>7 DEF StoredInOrder
    <3> QED
      BY <2>2, <3>8, <3>9 DEF StoredInOrder
  <2>5. CASE ~(joined + 1 < Len(workers))
    <3>1. StoredRows' = StoredRows
      BY <1>1, <2>3, <2>5 DEF StoredRows
    <3>2. ~(joined' < Len(workers')) /\ size' = StoredRows'
      BY <1>1, <2>3, <2>5, <3>1
    <3>3. /\ \A m \in 1 .. StoredRows' : slots'[m] = m
          /\ \A m \in 1 .. rows' : slots'[m] # TornSlot
      BY <1>1, <2>1, <3>1 DEF StoredInOrder
    <3> QED
      BY <2>2, <3>2, <3>3 DEF StoredInOrder
  <2> QED
    BY <2>2, <2>4, <2>5
<1> QED
  BY <1>1, <1>2, <1>3, <1>4 DEF SequentialInvariant

(* A deferred worker runs inside the wait for its future, when no other    *)
(* does.                                                                   *)
LEMMA RunDeferredSequential ==
  ASSUME SInv, RunDeferred
  PROVE  SequentialInvariant'
<1>1. PICK k, u : k = joined + 1 /\ u = workers[k]
  OBVIOUS
<1>2. /\ IInv /\ WorkersOnPages /\ pc = "joining"
      /\ UNCHANGED <<rows, left, pages, pc, joined, size, slots>>
      /\ workers \in Seq(Worker) /\ joined \in Nat /\ joined < Len(workers)
      /\ k \in DOMAIN workers /\ u \in Worker /\ u.at = "deferred"
      /\ Becomes(k, [u EXCEPT !.at = "check"])
  BY <1>1 DEF SInv, SequentialInvariant, RunDeferred, IInv, TypeOK
<1>3. PICK w : w = [u EXCEPT !.at = "check"]
  OBVIOUS
<1>4. /\ w \in Worker /\ w.at = "check" /\ w.row = u.row /\ w.last = u.last
      /\ w.lazy = u.lazy
  BY <1>2, <1>3 DEF Worker
<1>5. /\ Len(workers') = Len(workers) /\ DOMAIN workers' = DOMAIN workers
      /\ workers'[k] = w
      /\ \A j \in DOMAIN workers : j # k => workers'[j] = workers[j]
  BY <1>2, <1>3, <1>4, BecomesFacts
<1>6. WorkersOnPages'
  BY <1>1, <1>2, <1>4, <1>5 DEF WorkersOnPages
<1>7. OneAtATime' => OneAtATime
  BY <1>1, <1>2, <1>4, <1>5 DEF OneAtATime
<1>8. ASSUME OneAtATime
      PROVE  OneAfterTheOther' /\ StoredInOrder'
  <2>1. OneAfterTheOther /\ StoredInOrder
    BY <1>8 DEF SInv, SequentialInvariant
  <2>2. \A j \in DOMAIN workers : (j <= joined \/ j > joined + 1) => j # k
    BY <1>1, <1>2
  <2>3. OneAfterTheOther'
    BY <1>2, <1>5, <2>1, <2>2 DEF OneAfterTheOther
  <2>4. StoredRows' = StoredRows
    BY <1>1, <1>2, <1>4, <1>5 DEF StoredRows
  <2> QED
    BY <1>1, <1>2, <1>4, <1>5, <2>1, <2>3, <2>4 DEF StoredInOrder
<1> QED
  BY <1>2, <1>6, <1>7, <1>8 DEF SequentialInvariant

(* Cutting pages disturbs no worker.                                       *)
LEMMA PagingSequential ==
  ASSUME SInv, CutPage \/ EndPaging
  PROVE  SequentialInvariant'
<1>1. /\ workers = <<>> /\ joined = 0 /\ UNCHANGED <<rows, workers, joined, size, slots>>
      /\ pc' \in {"paging", "launching"} /\ StoredInOrder /\ DOMAIN workers = {}
      /\ Len(workers) = 0
  BY DEF SInv, IInv, TypeOK, QueryInvariant, Launched, CutPage, EndPaging,
     SequentialInvariant, OneAtATime
<1>2. StoredRows = 0 /\ StoredRows' = 0
  BY <1>1 DEF StoredRows
<1>3. WorkersOnPages' /\ OneAfterTheOther'
  BY <1>1 DEF WorkersOnPages, OneAfterTheOther
<1>4. StoredInOrder'
  BY <1>1, <1>2 DEF StoredInOrder
<1> QED
  BY <1>1, <1>3, <1>4 DEF SequentialInvariant

(* Nor does passing from one phase of the query to the next.               *)
LEMMA PhaseSequential ==
  ASSUME SInv, EndLaunching \/ Answer \/ UNCHANGED vars
  PROVE  SequentialInvariant'
<1>1. /\ IInv /\ WorkersOnPages
      /\ UNCHANGED <<rows, left, pages, workers, joined, size, slots>>
  BY DEF SInv, SequentialInvariant, EndLaunching, Answer, vars
<1>2. OneAtATime' = OneAtATime /\ StoredRows' = StoredRows
  BY <1>1 DEF OneAtATime, StoredRows
<1>3. OneAtATime => OneAfterTheOther' /\ StoredInOrder'
  BY <1>1, <1>2 DEF SInv, SequentialInvariant, OneAfterTheOther, StoredInOrder
<1>4. WorkersOnPages'
  BY <1>1 DEF WorkersOnPages, EndLaunching, Answer, vars
<1>5. ASSUME OneAtATime
      PROVE  pc' \notin {"died", "undefined"}
  <2>1. CASE Answer
    <3>1. \A n \in 1 .. size : n \in 1 .. rows
      BY <1>1, PagedQueryAssumption DEF IInv, TypeOK
    <3>2. \A n \in 1 .. rows : slots[n] # TornSlot
      BY <1>5 DEF SInv, SequentialInvariant, StoredInOrder
    <3> QED
      BY <2>1, <3>1, <3>2 DEF Answer
  <2>2. CASE EndLaunching \/ UNCHANGED vars
    BY <1>5, <2>2 DEF EndLaunching, vars, SInv, SequentialInvariant
  <2> QED
    BY <2>1, <2>2
<1> QED
  BY <1>2, <1>3, <1>4, <1>5 DEF SequentialInvariant

(* Every step of a worker is that of the only one.                         *)
LEMMA WorkerSequential ==
  ASSUME SInv, NEW k \in DOMAIN workers, WorkerStep(k)
  PROVE  SequentialInvariant'
<1>1. CASE Check(k) \/ BeginAppend(k) \/ Fill(k) \/ Publish(k) \/ Store(k)
  <2>1. pc' = pc /\ pc \notin {"died", "undefined"}
    BY <1>1 DEF Check, BeginAppend, Fill, Publish, Store, RunsAt
  <2> QED
    BY <1>1, <2>1, WorkerKeepsPage, WorkerStaysSequential DEF SequentialInvariant
<1>2. CASE Relocate(k) \/ DestroyGarbage(k)
  <2>1. /\ UNCHANGED <<pages, workers, joined>> /\ pc' \in {"died", "undefined"}
        /\ WorkersOnPages /\ ~OneAtATime
    BY <1>2, NoAccident DEF Relocate, DestroyGarbage, SInv, SequentialInvariant
  <2>2. WorkersOnPages' /\ ~OneAtATime'
    BY <2>1 DEF WorkersOnPages, OneAtATime
  <2> QED
    BY <2>2 DEF SequentialInvariant
<1> QED
  BY <1>1, <1>2 DEF WorkerStep

(* Every step of the query keeps the invariant.                            *)
LEMMA NextSequential == SInv /\ [Next]_vars => SInv'
<1> SUFFICES ASSUME SInv, [Next]_vars PROVE SInv'
  OBVIOUS
<1>1. IInv'
  BY NextIInv DEF SInv
<1>2. SUFFICES SequentialInvariant'
  BY <1>1 DEF SInv
<1>3. CASE \E lazy \in BOOLEAN : Launch(lazy)
  BY <1>3, LaunchSequential
<1>4. CASE \E k \in DOMAIN workers : WorkerStep(k)
  BY <1>4, WorkerSequential
<1>5. CASE CutPage \/ EndPaging
  BY <1>5, PagingSequential
<1>6. CASE EndLaunching \/ Answer \/ UNCHANGED vars
  BY <1>6, PhaseSequential
<1>7. CASE Join
  BY <1>7, JoinSequential
<1>8. CASE RunDeferred
  BY <1>8, RunDeferredSequential
<1> QED
  BY <1>3, <1>4, <1>5, <1>6, <1>7, <1>8 DEF Next, MainStep, Ended

(* It holds before the query begins.                                       *)
LEMMA InitSequential == Init => SInv
<1> SUFFICES ASSUME Init PROVE SInv
  OBVIOUS
<1>1. /\ IInv /\ workers = <<>> /\ joined = 0 /\ size = 0 /\ pc = "paging"
      /\ DOMAIN workers = {} /\ Len(workers) = 0
      /\ \A n \in 1 .. rows : slots[n] # TornSlot
  BY InitIInv DEF Init, RawSlot, TornSlot
<1>2. StoredRows = 0
  BY <1>1 DEF StoredRows
<1>3. WorkersOnPages /\ OneAfterTheOther /\ StoredInOrder
  BY <1>1, <1>2 DEF WorkersOnPages, OneAfterTheOther, StoredInOrder
<1> QED
  BY <1>1, <1>3 DEF SInv, SequentialInvariant

(* At the end all rows are in the array.                                   *)
LEMMA SequentialEnd == SInv => SequentialComplete
<1> SUFFICES ASSUME SInv PROVE SequentialComplete
  OBVIOUS
<1>1. pc \in {"died", "undefined"} => ~OneAtATime
  BY DEF SInv, SequentialInvariant
<1>2. ASSUME pc = "answered", OneAtATime
      PROVE  Complete
  <2>1. /\ IInv /\ WorkersOnPages /\ StoredInOrder
    BY <1>2 DEF SInv, SequentialInvariant
  <2>2. /\ Len(workers) = Len(pages) /\ joined = Len(workers) /\ left = 0
        /\ pages \in Seq(Page) /\ rows \in Nat
    BY <1>2, <2>1, PagedQueryAssumption DEF WorkersOnPages, IInv, QueryInvariant,
       Launched, TypeOK
  <2>3. StoredRows = rows
    <3>1. CASE joined = 0
      <4>1. pages = <<>>
        <5>1. Len(pages) = 0
          BY <2>2, <3>1
        <5> QED
          BY <2>2, <5>1
      <4> QED
        BY <2>1, <2>2, <3>1, <4>1 DEF IInv, PagesCover, StoredRows
    <3>2. CASE joined # 0
      <4>1. joined \in DOMAIN pages /\ joined = Len(pages)
        BY <2>2, <3>2
      <4>2. pages[joined].last = rows - left
        BY <2>1, <4>1 DEF IInv, PagesCover
      <4> QED
        BY <2>2, <3>2, <4>2 DEF StoredRows
    <3> QED
      BY <3>1, <3>2
  <2> QED
    BY <2>1, <2>2, <2>3 DEF StoredInOrder, Complete
<1> QED
  BY <1>1, <1>2 DEF SequentialComplete

(* While nothing races the workers store the rows one after the other and  *)
(* the vector grows by the row at hand (DbManager.h:213-240).              *)
THEOREM SequentialInvariantHolds == Spec => []SequentialInvariant
<1>1. SInv => SequentialInvariant
  BY DEF SInv
<1> QED
  BY <1>1, InitSequential, NextSequential, PTL DEF Spec

(* With one page, or with every worker deferred, a query that is answered  *)
(* is answered with every row, and no accident happens on the way; only a  *)
(* race can lose rows (DbManager.h:213-240, Paginator.h:24-33).            *)
THEOREM NoRaceNoLoss == Spec => []SequentialComplete
BY InitSequential, NextSequential, SequentialEnd, PTL DEF Spec
=============================================================================
