------------------------------ MODULE PagedQuery ------------------------------
(***************************************************************************)
(* How GetUpdatedBetween and GetHistoryBetween of DbManager.h turn the     *)
(* rows of a query into a JSON array.  Paginate cuts the rows into pages   *)
(* of NTHREADS rows, std::async gives every page to a worker, and all      *)
(* workers write into one vector, items["items"], without a lock.  The     *)
(* vector has room for all rows (reserve) but starts with size 0: a write  *)
(* beyond the size makes operator[] resize the vector first.               *)
(*                                                                         *)
(* resize is not atomic.  operator[] reads the size and computes how many  *)
(* elements are missing; the append then reads the size again, constructs  *)
(* that many nulls from there on, and sets the size to where it ended.     *)
(* These are the memory accesses of the optimised build the Makefile asks  *)
(* for; each of them is a step.                                            *)
(***************************************************************************)
EXTENDS Integers, Sequences

CONSTANTS
  NTHREADS,   \* rows on a page (4 in the code)
  MaxRows     \* bound of the model: rows a query returns

ASSUME PagedQueryAssumption ==
  /\ NTHREADS \in Nat \ {0}
  /\ MaxRows \in Nat

VARIABLES
  rows,      \* number of rows of the result; row n is the n-th in its order
  left,      \* rows Paginator has not yet put on a page
  pages,     \* the pages, as ranges of rows
  pc,        \* where the thread of the handler is
  i,         \* the position the next worker starts to write at, from 0
  workers,   \* one for every page that was launched
  joined,    \* futures the handler has waited for
  size,      \* size of the vector items["items"]
  slots      \* its memory, up to its capacity

vars == <<rows, left, pages, pc, i, workers, joined, size, slots>>

(* What a slot holds that does not hold a row. *)
NullSlot == 0      \* a constructed null
RawSlot  == -1     \* memory nothing was constructed in
TornSlot == -2     \* half of a null, half of an item

Page == [first : Nat, last : Nat]
Worker == [at : {"deferred", "check", "append", "fill", "store", "done"},
           lazy : BOOLEAN,  \* runs when the handler waits for it, not before
           row  : Nat,      \* the row it is at
           last : Nat,      \* the last row of its page
           slot : Nat,      \* where it writes that row, from 1
           need : Nat,      \* nulls it found missing
           next : Nat,      \* the slot it constructs next
           end  : Nat]      \* the size after the append

Ends == {"answered", "died", "undefined"}

TypeOK ==
  /\ rows \in 0 .. MaxRows
  /\ left \in 0 .. rows
  /\ pages \in Seq(Page)
  /\ pc \in {"paging", "launching", "joining"} \cup Ends
  /\ i \in Nat
  /\ workers \in Seq(Worker)
  /\ joined \in 0 .. Len(workers)
  /\ size \in 0 .. rows
  /\ slots \in [1 .. rows -> {NullSlot, RawSlot, TornSlot} \cup 1 .. rows]

Init ==
  /\ rows \in 0 .. MaxRows
  /\ left = rows
  /\ pages = <<>>
  /\ pc = "paging"
  /\ i = 0
  /\ workers = <<>>
  /\ joined = 0
  /\ size = 0
  /\ slots = [n \in 1 .. rows |-> RawSlot]
-----------------------------------------------------------------------------
(* The constructor of Paginator. *)

(* A slip: the last page is as long as the others. *)
AlwaysFullPage == NTHREADS
PageSize == IF NTHREADS <= left THEN NTHREADS ELSE left

CutPage ==
  /\ pc = "paging"
  /\ left > 0
  /\ pages' = Append(pages, [first |-> rows - left + 1,
                             last  |-> rows - left + PageSize])
  /\ left' = left - PageSize
  /\ UNCHANGED <<rows, pc, i, workers, joined, size, slots>>

EndPaging ==
  /\ pc = "paging"
  /\ left = 0
  /\ pc' = "launching"
  /\ UNCHANGED <<rows, left, pages, i, workers, joined, size, slots>>
-----------------------------------------------------------------------------
(* The handler launches the workers, waits for them in order and answers.  *)

(* A worker is a new thread, or is deferred if there is no thread to have. *)
WorkerFor(page, lazy) ==
  [at |-> IF lazy THEN "deferred" ELSE "check", lazy |-> lazy,
   row |-> page.first, last |-> page.last, slot |-> i + 1,
   need |-> 0, next |-> 0, end |-> 0]

(* A slip: i counts workers, not rows. *)
NextWorker == i + 1
NextPosition == i + NTHREADS

Launch(lazy) ==
  /\ pc = "launching"
  /\ Len(workers) < Len(pages)
  /\ workers' = Append(workers, WorkerFor(pages[Len(workers) + 1], lazy))
  /\ i' = NextPosition
  /\ UNCHANGED <<rows, left, pages, pc, joined, size, slots>>

EndLaunching ==
  /\ pc = "launching"
  /\ Len(workers) = Len(pages)
  /\ pc' = "joining"
  /\ UNCHANGED <<rows, left, pages, i, workers, joined, size, slots>>

Becomes(k, w) == workers' = [workers EXCEPT ![k] = w]

(* get() runs a deferred worker in the thread of the handler. *)
RunDeferred ==
  /\ pc = "joining"
  /\ joined < Len(workers)
  /\ workers[joined + 1].at = "deferred"
  /\ Becomes(joined + 1, [workers[joined + 1] EXCEPT !.at = "check"])
  /\ UNCHANGED <<rows, left, pages, pc, i, joined, size, slots>>

Join ==
  /\ pc = "joining"
  /\ joined < Len(workers)
  /\ workers[joined + 1].at = "done"
  /\ joined' = joined + 1
  /\ UNCHANGED <<rows, left, pages, pc, i, workers, size, slots>>

(* dump asserts that an item that is an object has a value. *)
Answer ==
  /\ pc = "joining"
  /\ joined = Len(workers)
  /\ pc' = IF \E n \in 1 .. size : slots[n] = TornSlot THEN "died" ELSE "answered"
  /\ UNCHANGED <<rows, left, pages, i, workers, joined, size, slots>>
-----------------------------------------------------------------------------
(* The workers. *)

RunsAt(k, at) ==
  /\ pc \in {"launching", "joining"}
  /\ k \in DOMAIN workers
  /\ workers[k].at = at

(* operator[](slot): enough elements, or some are missing.  The slip       *)
(* resizes to the index of the element, not to one more.                   *)
OneTooFew(k) == workers[k].slot - size - 1
Missing(k) == workers[k].slot - size

Check(k) ==
  /\ RunsAt(k, "check")
  /\ \/ /\ workers[k].slot <= size
        /\ Becomes(k, [workers[k] EXCEPT !.at = "store"])
     \/ /\ workers[k].slot > size
        /\ Becomes(k, [workers[k] EXCEPT !.at = "append", !.need = Missing(k)])
  /\ UNCHANGED <<rows, left, pages, pc, i, joined, size, slots>>

(* The append starts where the vector ends by now.  The slip announces the *)
(* new size before the nulls are there.                                    *)
SizeFirst(k) ==
  /\ RunsAt(k, "append")
  /\ size + workers[k].need <= rows
  /\ size' = size + workers[k].need
  /\ Becomes(k, [workers[k] EXCEPT !.at = "fill", !.next = size + 1,
                                   !.end = size + workers[k].need])
  /\ UNCHANGED <<rows, left, pages, pc, i, joined, slots>>

BeginAppend(k) ==
  /\ RunsAt(k, "append")
  /\ size + workers[k].need <= rows
  /\ Becomes(k, [workers[k] EXCEPT !.at = "fill", !.next = size + 1,
                                   !.end = size + workers[k].need])
  /\ UNCHANGED <<rows, left, pages, pc, i, joined, size, slots>>

(* Others have appended so much that the rest is too small: the vector     *)
(* moves to new memory under the hands of the other workers, and nothing   *)
(* can be said of what the program does from there on.                     *)
Relocate(k) ==
  /\ RunsAt(k, "append")
  /\ size + workers[k].need > rows
  /\ pc' = "undefined"
  /\ UNCHANGED <<rows, left, pages, i, workers, joined, size, slots>>

Fill(k) ==
  /\ RunsAt(k, "fill")
  /\ workers[k].next <= workers[k].end
  /\ slots' = [slots EXCEPT ![workers[k].next] = NullSlot]
  /\ Becomes(k, [workers[k] EXCEPT !.next = @ + 1])
  /\ UNCHANGED <<rows, left, pages, pc, i, joined, size>>

Publish(k) ==
  /\ RunsAt(k, "fill")
  /\ workers[k].next > workers[k].end
  /\ size' = workers[k].end
  /\ Becomes(k, [workers[k] EXCEPT !.at = "store"])
  /\ UNCHANGED <<rows, left, pages, pc, i, joined, slots>>

(* Two slips: neither the row nor i is advanced; only the row is. *)
SameRow(w) == [w EXCEPT !.at = IF w.row < w.last THEN "check" ELSE "done"]
SameSlot(w) ==
  [w EXCEPT !.at = IF w.row < w.last THEN "check" ELSE "done", !.row = @ + 1]
NextRow(w) ==
  [w EXCEPT !.at = IF w.row < w.last THEN "check" ELSE "done",
            !.row = @ + 1, !.slot = @ + 1]

(* A null that another worker is writing to the same slot meanwhile can    *)
(* leave either value or half of each.                                     *)
Overwritten(k) ==
  \E j \in DOMAIN workers \ {k} :
    workers[j].at = "fill" /\ workers[j].next = workers[k].slot

Store(k) ==
  /\ RunsAt(k, "store")
  /\ \E value \in {workers[k].row} \cup (IF Overwritten(k) THEN {TornSlot} ELSE {}) :
       slots' = [slots EXCEPT ![workers[k].slot] = value]
  /\ Becomes(k, NextRow(workers[k]))
  /\ UNCHANGED <<rows, left, pages, pc, i, joined, size>>

(* The assignment destroys what was in the slot: in memory that was never  *)
(* constructed that can be anything.                                       *)
DestroyGarbage(k) ==
  /\ RunsAt(k, "store")
  /\ slots[workers[k].slot] \in {RawSlot, TornSlot}
  /\ pc' = "died"
  /\ UNCHANGED <<rows, left, pages, i, workers, joined, size, slots>>
-----------------------------------------------------------------------------
WorkerStep(k) ==
  \/ Check(k)
  \/ BeginAppend(k)
  \/ Relocate(k)
  \/ Fill(k)
  \/ Publish(k)
  \/ Store(k)
  \/ DestroyGarbage(k)

MainStep ==
  \/ CutPage
  \/ EndPaging
  \/ \E lazy \in BOOLEAN : Launch(lazy)
  \/ EndLaunching
  \/ RunDeferred
  \/ Join
  \/ Answer

Ended == pc \in Ends /\ UNCHANGED vars

Next == MainStep \/ (\E k \in DOMAIN workers : WorkerStep(k)) \/ Ended

Spec == Init /\ [][Next]_vars

(* The operating system runs every thread that can run. *)
FairSpec ==
  /\ Spec
  /\ WF_vars(MainStep)
  /\ \A k \in 1 .. MaxRows : WF_vars(WorkerStep(k))
-----------------------------------------------------------------------------
(* The pages are the rows, in their order, none left out and none twice,   *)
(* and all pages but the last are full (Paginator.h:24-33).                *)
PagesCover ==
  /\ pages = <<>> => left = rows
  /\ \A k \in DOMAIN pages :
       /\ pages[k].first <= pages[k].last /\ pages[k].last <= rows
       /\ k = 1 => pages[k].first = 1
       /\ k < Len(pages) => pages[k + 1].first = pages[k].last + 1
       /\ k = Len(pages) => pages[k].last = rows - left
       /\ k < Len(pages) \/ left > 0 =>
            pages[k].last = pages[k].first + NTHREADS - 1

(* Whatever the workers do to each other, a row is never in the place of   *)
(* another: what is in the answer is in the order of the query.            *)
NoRowMisplaced ==
  \A n \in 1 .. rows : slots[n] \in {NullSlot, RawSlot, TornSlot, n}

(* The part of the memory that is the vector has been constructed: the     *)
(* answer may lack rows but dump never reads memory nobody wrote.          *)
AnswerReadable == \A n \in 1 .. size : slots[n] # RawSlot

(* The answer has every row. *)
Complete == size = rows /\ \A n \in 1 .. rows : slots[n] = n

(* If there is one worker, or each runs only when the handler waits for    *)
(* it, nothing races: the request is answered and the answer is complete.  *)
OneAtATime ==
  \/ Len(pages) <= 1
  \/ \A k \in DOMAIN workers : workers[k].lazy

SequentialComplete ==
  /\ pc = "answered" /\ OneAtATime => Complete
  /\ pc \in {"died", "undefined"} => ~OneAtATime

(* Every query comes to an end. *)
QueryEnds == <>(pc \in Ends)

(* Behind these: where the workers are, what they have constructed.        *)
Launched ==
  /\ Len(workers) <= Len(pages)
  /\ pc = "paging" => workers = <<>> /\ i = 0
  /\ pc # "paging" => left = 0
  /\ Len(workers) < Len(pages) => pages[Len(workers) + 1].first = i + 1

InPlace ==
  \A k \in DOMAIN workers :
    /\ workers[k].at # "done" =>
         workers[k].slot = workers[k].row /\ workers[k].row <= workers[k].last
    /\ workers[k].row >= 1 /\ workers[k].last <= rows

ConstructedUpTo(n) == n <= rows /\ \A m \in 1 .. n : slots[m] # RawSlot
Constructed ==
  /\ ConstructedUpTo(size)
  /\ \A k \in DOMAIN workers :
       workers[k].at = "fill" =>
         /\ workers[k].next >= 1
         /\ workers[k].next <= workers[k].end + 1
         /\ workers[k].end <= rows
         /\ ConstructedUpTo(workers[k].next - 1)

QueryInvariant ==
  /\ Launched
  /\ InPlace
  /\ Constructed

(***************************************************************************)
(* Behind SequentialComplete: while nothing races, the workers run one     *)
(* after the other, each row is stored before the next is looked at, and   *)
(* the vector ends with the row at hand.                                   *)
(***************************************************************************)
WorkersOnPages ==
  /\ pc \in {"joining", "answered"} => Len(workers) = Len(pages)
  /\ pc = "answered" => joined = Len(workers)
  /\ \A k \in DOMAIN workers :
       /\ workers[k].last = pages[k].last
       /\ workers[k].at = "deferred" => workers[k].row = pages[k].first
       /\ workers[k].at = "done" => workers[k].row = workers[k].last + 1

(* The rows stored: those before the row of the worker that is waited for. *)
StoredRows ==
  IF joined < Len(workers) THEN workers[joined + 1].row - 1
  ELSE IF joined = 0 THEN 0 ELSE pages[joined].last

OneAfterTheOther ==
  \A k \in DOMAIN workers :
    /\ k <= joined => workers[k].at = "done"
    /\ k > joined + 1 => workers[k].at = "deferred"

StoredInOrder ==
  /\ \A n \in 1 .. StoredRows : slots[n] = n
  /\ \A n \in 1 .. rows : slots[n] # TornSlot
  /\ IF joined < Len(workers)
     THEN LET w == workers[joined + 1]
          IN  /\ size = IF w.at = "store" THEN w.row ELSE w.row - 1
              /\ w.at = "append" => w.need = 1
              /\ w.at = "fill" => w.end = w.row /\ w.next >= w.row
     ELSE size = StoredRows

SequentialInvariant ==
  /\ WorkersOnPages
  /\ OneAtATime =>
       /\ pc \notin {"died", "undefined"}
       /\ OneAfterTheOther
       /\ StoredInOrder

(* What the users of /updates and /history expect: a reply lists every row *)
(* the query found.                                                        *)
AnswerComplete == pc = "answered" => Complete
=============================================================================
