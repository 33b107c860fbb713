-------------------------- MODULE Multipart_proofs --------------------------
(***************************************************************************)
(* Multipart uploads for any number of titles, parts, requests and         *)
(* restarts: a session that is COMPLETED has its object, and the nightly   *)
(* sweep takes away nothing that is younger than two days.                 *)
(*                                                                         *)
(* The sweep acts on what it read some steps before.  The invariant says   *)
(* why that is sound: the ages it read are still the ages, because no day  *)
(* passes while a request or the sweep is under way, and a row is never    *)
(* older than the upload it stands for.                                    *)
(***************************************************************************)
EXTENDS Multipart, WellFoundedInduction, TLAPS

-----------------------------------------------------------------------------
(* The invariant *)

InitTask == [op : {"init"}, at : {"find", "list", "fail", "stale", "abort", "mark", "create", "insert"},
             movie : Movies, session : Nat \cup {None}, todo : SUBSET Nat, upload : Nat \cup {None}]
AssembleTask == [op : {"assemble"}, at : {"assemble", "close"}, session : Nat]
AbortTask == [op : {"abort"}, at : {"abort", "mark"}, session : Nat]
PutTask == [op : {"put"}, at : {"put"}, movie : Movies, asset : Assets]
SweepTask == [op : {"sweep"}, at : {"stale", "abort", "mark", "uploads", "reap"},
              session : Nat \cup {None}, todo : SUBSET Nat]
             \cup [op : {"sweep"}, at : {"known"}, session : Nat \cup {None}, todo : SUBSET (Nat \X Nat)]
Task == InitTask \cup AssembleTask \cup AbortTask \cup PutTask \cup SweepTask

OldSession(j) == j \in DOMAIN session /\ session[j].age = Abandoned
OldUpload(i) == i \in DOMAIN upload /\ upload[i].age = Abandoned

\* What a request or the sweep relies on where it stands.
Fits(t) ==
    /\ (t.op = "init" /\ t.at \in {"list", "fail"}) \/ t.op \in {"assemble", "abort"} \/ t.at = "mark"
          => t.session \in DOMAIN session
    /\ t.op \in {"init", "sweep"} /\ t.at \in {"abort", "mark"} => \A j \in t.todo : OldSession(j)
    /\ t.op = "init" /\ t.at = "insert" => t.upload \in DOMAIN upload
    /\ t.op = "assemble" /\ t.at = "close" => Large \in store[session[t.session].movie]
    /\ t.op = "sweep" /\ t.at = "known" => \A u \in t.todo : u[1] \in DOMAIN upload /\ u[2] = upload[u[1]].age
    /\ t.op = "sweep" /\ t.at = "reap" => \A i \in t.todo : OldUpload(i)

Typed == MultipartTypeOK /\ task \in [Workers -> Task \cup {None}]
Described == \A p \in Workers : task[p] # None => Fits(task[p])
\* A row is written after its upload was created, and both grow old together.
Linked == \A j \in DOMAIN session :
              session[j].upload \in DOMAIN upload /\ session[j].age <= upload[session[j].upload].age
Stored == \A j \in DOMAIN session : session[j].status = "COMPLETED" => Large \in store[session[j].movie]
IInv == Typed /\ Described /\ Linked /\ Stored

-----------------------------------------------------------------------------
(* Requests *)

\* The kinds of request differ in what they carry.
LEMMA TaskByOp ==
  ASSUME NEW t \in Task
  PROVE  /\ t.op \in {"init", "assemble", "abort", "put", "sweep"}
         /\ t.op = "init" => t \in InitTask
         /\ t.op = "assemble" => t \in AssembleTask
         /\ t.op = "abort" => t \in AbortTask
         /\ t.op = "put" => t \in PutTask
         /\ t.op = "sweep" => t \in SweepTask
<1>1. CASE t \in InitTask
  BY <1>1 DEF InitTask
<1>2. CASE t \in AssembleTask
  BY <1>2 DEF AssembleTask
<1>3. CASE t \in AbortTask
  BY <1>3 DEF AbortTask
<1>4. CASE t \in PutTask
  BY <1>4 DEF PutTask
<1>5. CASE t \in SweepTask
  BY <1>5 DEF SweepTask
<1> QED
  BY <1>1, <1>2, <1>3, <1>4, <1>5 DEF Task

LEMMA Context ==
  ASSUME IInv, NEW p \in Workers, task[p] # None
  PROVE  task[p] \in Task /\ Fits(task[p])
BY DEF IInv, Typed, Described

\* Of the rows of one object the newest exists.
LEMMA NewestExists ==
  ASSUME NEW S \in SUBSET Nat, NEW n \in Nat, \A x \in S : x <= n, S # {}
  PROVE  \E x \in S : \A y \in S : y <= x
<1> DEFINE Below == {k \in Nat : k <= n /\ n - k \in S}
<1>1. Below \subseteq Nat /\ Below # {}
  <2>1. PICK x \in S : x \in Nat /\ x <= n
    OBVIOUS
  <2>2. n - x \in Below
    BY <2>1
  <2> QED
    BY <2>2
<1>2. PICK k \in Below : \A j \in Below : <<j, k>> \notin OpToRel(<, Nat)
  BY <1>1, NatLessThanWellFounded, WFMin
<1>3. ASSUME NEW y \in S PROVE y <= n - k
  <2>1. n - y \in Below /\ n - y \in Nat /\ y \in Nat /\ k \in Nat /\ n - (n - y) = y
    BY <1>1
  <2>2. ~(n - y < k)
    BY <1>2, <2>1 DEF OpToRel
  <2> QED
    BY <2>1, <2>2
<1> QED
  BY <1>2, <1>3

\* A table of which rows were rewritten.
LEMMA Rewritten ==
  ASSUME NEW S, NEW s \in Seq(S), NEW r \in [DOMAIN s -> S]
  PROVE  r \in Seq(S) /\ Len(r) = Len(s) /\ DOMAIN r = DOMAIN s
<1>1. Len(s) \in Nat /\ DOMAIN s = 1 .. Len(s)
  OBVIOUS
<1>2. r \in [1 .. Len(s) -> S]
  BY <1>1
<1> QED
  BY <1>1, <1>2

LEMMA RowIs ==
  ASSUME IInv, NEW j \in DOMAIN session
  PROVE  /\ j \in Nat /\ j \in 1 .. Len(session) /\ session[j] \in Session
         /\ session[j].movie \in Movies /\ session[j].upload \in DOMAIN upload
<1>1. session \in Seq(Session) /\ session[j].upload \in DOMAIN upload
  BY DEF IInv, Typed, MultipartTypeOK, Linked
<1>2. j \in Nat /\ j \in 1 .. Len(session) /\ session[j] \in Session
  BY <1>1
<1> QED
  BY <1>1, <1>2 DEF Session

LEMMA UploadIs ==
  ASSUME IInv, NEW i \in DOMAIN upload
  PROVE  i \in Nat /\ i \in 1 .. Len(upload) /\ upload[i] \in Upload
<1>1. upload \in Seq(Upload)
  BY DEF IInv, Typed, MultipartTypeOK
<1> QED
  BY <1>1

-----------------------------------------------------------------------------
(* What a step of one request leaves of the others *)

\* Rows and uploads stay, with their ages, and no object is taken away.
Keeps ==
    /\ \A j \in DOMAIN session : /\ j \in DOMAIN session' /\ session'[j].age = session[j].age
                                 /\ session'[j].movie = session[j].movie
    /\ \A i \in DOMAIN upload : i \in DOMAIN upload' /\ upload'[i].age = upload[i].age
    /\ \A m \in Movies : store[m] \subseteq store'[m]

LEMMA FitsStays ==
  ASSUME IInv, Keeps, NEW t \in Task, Fits(t)
  PROVE  Fits(t)'
<1>1. \A j : OldSession(j) => OldSession(j)'
  BY DEF Keeps, OldSession
<1>2. \A i : OldUpload(i) => OldUpload(i)'
  BY DEF Keeps, OldUpload
<1>3. ASSUME t.op = "assemble", t.at = "close" PROVE Large \in store'[session'[t.session].movie]
  <2>1. t.session \in DOMAIN session /\ Large \in store[session[t.session].movie]
    BY <1>3 DEF Fits
  <2>2. session[t.session].movie \in Movies
    BY <2>1, RowIs
  <2> QED
    BY <2>1, <2>2 DEF Keeps
<1>4. ASSUME t.op = "sweep", t.at = "known"
      PROVE  \A u \in t.todo : u[1] \in DOMAIN upload' /\ u[2] = upload'[u[1]].age
  BY <1>4 DEF Fits, Keeps
<1>5. ASSUME t.session \in DOMAIN session PROVE t.session \in DOMAIN session'
  BY <1>5 DEF Keeps
<1>6. ASSUME t.upload \in DOMAIN upload PROVE t.upload \in DOMAIN upload'
  BY <1>6 DEF Keeps
<1> QED
  BY <1>1, <1>2, <1>3, <1>4, <1>5, <1>6 DEF Fits

LEMMA StepKeeps ==
  ASSUME IInv, NEW p \in Workers, NEW u, Keeps, MultipartTypeOK', Linked', Stored',
         Proceed(p, u), u = None \/ (u \in Task /\ Fits(u)')
  PROVE  IInv'
<1>1. /\ task' \in [Workers -> Task \cup {None}] /\ task'[p] = u
      /\ \A q \in Workers : q # p => task'[q] = task[q]
  BY DEF Proceed, IInv, Typed
<1>2. Described'
  <2> SUFFICES ASSUME NEW q \in Workers, NEW t, t = task'[q], t # None PROVE Fits(t)'
    BY DEF Described, Fits
  <2>1. CASE q = p
    BY <1>1, <2>1
  <2>2. CASE q # p
    <3>1. t = task[q] /\ task[q] # None
      BY <1>1, <2>2
    <3>2. t \in Task /\ Fits(t)
      BY <3>1, Context
    <3> QED
      BY <3>2, FitsStays
  <2> QED
    BY <2>1, <2>2
<1> QED
  BY <1>1, <1>2 DEF IInv, Typed

\* A step that only reads.
LEMMA ReadStep ==
  ASSUME IInv, UNCHANGED <<store, upload, session>>
  PROVE  Keeps /\ MultipartTypeOK' /\ Linked' /\ Stored'
BY DEF IInv, Typed, Keeps, MultipartTypeOK, Linked, Stored

\* A row gets another status.
LEMMA StatusStep ==
  ASSUME IInv, NEW j \in DOMAIN session, NEW status \in {"COMPLETED", "FAILED"},
         session' = [session EXCEPT ![j].status = status],
         status = "COMPLETED" => Large \in store[session[j].movie],
         UNCHANGED <<store, upload>>
  PROVE  Keeps /\ MultipartTypeOK' /\ Linked' /\ Stored'
<1>1. /\ DOMAIN session' = DOMAIN session
      /\ \A i \in DOMAIN session :
            /\ session[i] \in Session /\ session'[i] \in Session
            /\ session'[i].movie = session[i].movie /\ session'[i].upload = session[i].upload
            /\ session'[i].age = session[i].age
            /\ session'[i].status = session[i].status \/ (i = j /\ session'[i].status = status)
  BY RowIs DEF Session
<1>2. session' \in Seq(Session)
  <2>1. session' \in [DOMAIN session -> Session]
    BY <1>1
  <2> QED
    BY <2>1, Rewritten DEF IInv, Typed, MultipartTypeOK
<1>3. Keeps
  BY <1>1 DEF Keeps
<1>4. MultipartTypeOK'
  BY <1>2 DEF IInv, Typed, MultipartTypeOK
<1>5. Linked'
  BY <1>1 DEF IInv, Linked
<1>6. Stored'
  BY <1>1 DEF IInv, Stored
<1> QED
  BY <1>3, <1>4, <1>5, <1>6

\* An upload gets a part or is closed, and an object may come into the store.
LEMMA UploadStep ==
  ASSUME IInv, NEW i \in DOMAIN upload, NEW r \in Upload, r.age = upload[i].age,
         upload' = [upload EXCEPT ![i] = r],
         store' \in [Movies -> SUBSET Assets], \A m \in Movies : store[m] \subseteq store'[m],
         UNCHANGED session
  PROVE  Keeps /\ MultipartTypeOK' /\ Linked' /\ Stored'
<1>1. /\ DOMAIN upload' = DOMAIN upload
      /\ \A k \in DOMAIN upload : upload[k] \in Upload /\ upload'[k] \in Upload /\ upload'[k].age = upload[k].age
  BY DEF IInv, Typed, MultipartTypeOK
<1>2. upload' \in Seq(Upload) /\ Len(upload') = Len(upload)
  <2>1. upload' \in [DOMAIN upload -> Upload]
    BY <1>1
  <2> QED
    BY <2>1, Rewritten DEF IInv, Typed, MultipartTypeOK
<1>3. Keeps
  BY <1>1 DEF Keeps
<1>4. MultipartTypeOK'
  BY <1>2 DEF IInv, Typed, MultipartTypeOK
<1>5. Linked'
  BY <1>1 DEF IInv, Linked
<1>6. Stored'
  <2>1. \A j \in DOMAIN session : session[j].movie \in Movies
    BY RowIs
  <2> QED
    BY <2>1 DEF IInv, Stored
<1> QED
  BY <1>3, <1>4, <1>5, <1>6

LEMMA ClosesUpload ==
  ASSUME IInv, NEW i \in DOMAIN upload, upload' = [upload EXCEPT ![i].open = FALSE],
         UNCHANGED <<store, session>>
  PROVE  Keeps /\ MultipartTypeOK' /\ Linked' /\ Stored'
<1>1. PICK r : r = [upload[i] EXCEPT !.open = FALSE]
  OBVIOUS
<1>2. r \in Upload /\ r.age = upload[i].age
  BY <1>1, UploadIs DEF Upload
<1>3. upload' = [upload EXCEPT ![i] = r]
  BY <1>1
<1> QED
  BY <1>2, <1>3, UploadStep DEF IInv, Typed, MultipartTypeOK

\* A file comes into the store.
LEMMA StoreStep ==
  ASSUME IInv, NEW m \in Movies, NEW a \in Assets, store' = [store EXCEPT ![m] = @ \cup {a}],
         UNCHANGED <<upload, session>>
  PROVE  Keeps /\ MultipartTypeOK' /\ Linked' /\ Stored'
<1>1. store' \in [Movies -> SUBSET Assets] /\ \A n \in Movies : store[n] \subseteq store'[n]
  BY DEF IInv, Typed, MultipartTypeOK
<1>2. \A j \in DOMAIN session : session[j].movie \in Movies
  BY RowIs
<1> QED
  BY <1>1, <1>2 DEF IInv, Typed, Keeps, MultipartTypeOK, Linked, Stored

-----------------------------------------------------------------------------
(* Every step keeps the invariant *)

\* A request that is let in.
LEMMA AskKeeps ==
  ASSUME IInv, NEW p \in Workers, NEW t, Ask(p, t), t \in Task, Fits(t)', UNCHANGED <<store, upload, session>>
  PROVE  IInv'
BY ReadStep, StepKeeps DEF Ask

\* A request that was only read for goes on or ends.
LEMMA ReadKeeps ==
  ASSUME IInv, NEW p \in Workers, NEW u, Proceed(p, u), u = None \/ (u \in Task /\ Fits(u)'),
         UNCHANGED <<store, upload, session>>
  PROVE  IInv'
BY ReadStep, StepKeeps

LEMMA AskInitKeeps ==
  ASSUME IInv, NEW p \in Workers, NEW m \in Movies, AskInit(p, m)
  PROVE  IInv'
<1> DEFINE t == [op |-> "init", at |-> "find", movie |-> m, session |-> None, todo |-> {}, upload |-> None]
<1>1. t \in InitTask
  BY DEF InitTask
<1>2. t \in Task /\ t.op = "init" /\ t.at = "find"
  BY <1>1 DEF Task
<1>3. Ask(p, t) /\ UNCHANGED <<store, upload, session>>
  BY DEF AskInit
<1> HIDE DEF t
<1>4. PICK u : u = t
  OBVIOUS
<1>5. Fits(u)'
  BY <1>2, <1>4 DEF Fits
<1> QED
  BY <1>2, <1>3, <1>4, <1>5, AskKeeps

LEMMA AskCompleteKeeps ==
  ASSUME IInv, NEW p \in Workers, NEW j \in DOMAIN session, AskComplete(p, j)
  PROVE  IInv'
<1>1. PICK t : t = [op |-> "assemble", at |-> "assemble", session |-> j]
  OBVIOUS
<1>2. t \in AssembleTask
  BY <1>1, RowIs DEF AssembleTask
<1>3. t \in Task /\ t.op = "assemble" /\ t.at = "assemble" /\ t.session = j
  BY <1>1, <1>2 DEF Task
<1>4. Ask(p, t) /\ UNCHANGED <<store, upload, session>>
  BY <1>1 DEF AskComplete
<1>5. Fits(t)'
  BY <1>3, <1>4 DEF Fits
<1> QED
  BY <1>3, <1>4, <1>5, AskKeeps

LEMMA AskAbortKeeps ==
  ASSUME IInv, NEW p \in Workers, NEW j \in DOMAIN session, AskAbort(p, j)
  PROVE  IInv'
<1>1. PICK t : t = [op |-> "abort", at |-> "abort", session |-> j]
  OBVIOUS
<1>2. t \in AbortTask
  BY <1>1, RowIs DEF AbortTask
<1>3. t \in Task /\ t.op = "abort" /\ t.at = "abort" /\ t.session = j
  BY <1>1, <1>2 DEF Task
<1>4. Ask(p, t) /\ UNCHANGED <<store, upload, session>>
  BY <1>1 DEF AskAbort
<1>5. Fits(t)'
  BY <1>3, <1>4 DEF Fits
<1> QED
  BY <1>3, <1>4, <1>5, AskKeeps

LEMMA AskPutKeeps ==
  ASSUME IInv, NEW p \in Workers, NEW m \in Movies, NEW a \in Assets, AskPut(p, m, a)
  PROVE  IInv'
<1>1. PICK t : t = [op |-> "put", at |-> "put", movie |-> m, asset |-> a]
  OBVIOUS
<1>2. t \in PutTask
  BY <1>1 DEF PutTask
<1>3. t \in Task /\ t.op = "put" /\ t.at = "put"
  BY <1>1, <1>2 DEF Task
<1>4. Ask(p, t) /\ UNCHANGED <<store, upload, session>>
  BY <1>1 DEF AskPut
<1>5. Fits(t)'
  BY <1>3, <1>4 DEF Fits
<1> QED
  BY <1>3, <1>4, <1>5, AskKeeps

LEMMA FindSessionKeeps ==
  ASSUME IInv, NEW p \in Workers, FindSession(p)
  PROVE  IInv'
<1>1. PICK t : t = task[p]
  OBVIOUS
<1> DEFINE found == {j \in DOMAIN session : InProgress(j) /\ session[j].movie = t.movie}
           newest == CHOOSE j \in found : \A i \in found : i <= j
<1>2. /\ t # None /\ t.op = "init" /\ t.at = "find" /\ UNCHANGED <<store, upload, session>>
      /\ \/ found = {} /\ Proceed(p, [t EXCEPT !.at = "stale"])
         \/ found # {} /\ Proceed(p, [t EXCEPT !.at = "list", !.session = newest])
  BY <1>1 DEF FindSession, At, Goto
<1>3. t \in InitTask
  BY <1>1, <1>2, Context, TaskByOp
<1>4. CASE found = {} /\ Proceed(p, [t EXCEPT !.at = "stale"])
  <2>1. PICK u : u = [t EXCEPT !.at = "stale"]
    OBVIOUS
  <2>2. u \in InitTask /\ u.op = "init" /\ u.at = "stale"
    BY <1>3, <2>1 DEF InitTask
  <2>3. u \in Task /\ Fits(u)'
    BY <2>2 DEF Fits, Task
  <2> QED
    BY <1>2, <1>4, <2>1, <2>2, <2>3, ReadKeeps
<1>5. CASE found # {} /\ Proceed(p, [t EXCEPT !.at = "list", !.session = newest])
  <2>1. newest \in found
    <3>1. Len(session) \in Nat /\ found \in SUBSET Nat /\ \A j \in found : j <= Len(session)
      BY RowIs DEF IInv, Typed, MultipartTypeOK
    <3>2. \E j \in found : \A i \in found : i <= j
      BY <1>5, <3>1, NewestExists
    <3> HIDE DEF found
    <3> QED
      BY <3>2
  <2>2. PICK n : n = newest
    OBVIOUS
  <2>3. n \in DOMAIN session /\ n \in Nat
    BY <2>1, <2>2, RowIs
  <2>4. PICK u : u = [t EXCEPT !.at = "list", !.session = n]
    OBVIOUS
  <2>5. u \in InitTask /\ u.at = "list" /\ u.session = n
    BY <1>3, <2>3, <2>4 DEF InitTask
  <2>6. u \in Task /\ u.op = "init"
    BY <2>5 DEF Task, InitTask
  <2>7. Fits(u)'
    BY <1>2, <2>3, <2>5, <2>6 DEF Fits
  <2> QED
    BY <1>2, <1>5, <2>2, <2>4, <2>6, <2>7, ReadKeeps
<1> QED
  BY <1>2, <1>4, <1>5

LEMMA ListPartsKeeps ==
  ASSUME IInv, NEW p \in Workers, ListParts(p)
  PROVE  IInv'
<1>1. PICK t : t = task[p]
  OBVIOUS
<1>2. /\ t # None /\ t.op = "init" /\ t.at = "list" /\ UNCHANGED <<store, upload, session>>
      /\ Proceed(p, None) \/ Proceed(p, [t EXCEPT !.at = "fail"])
  BY <1>1 DEF ListParts, At, Goto, End
<1>3. t \in InitTask /\ t.session \in DOMAIN session
  BY <1>1, <1>2, Context, TaskByOp DEF Fits
<1>4. PICK u : u = [t EXCEPT !.at = "fail"]
  OBVIOUS
<1>5. u \in InitTask /\ u.op = "init" /\ u.at = "fail" /\ u.session = t.session
  BY <1>3, <1>4 DEF InitTask
<1>6. u \in Task /\ Fits(u)'
  BY <1>2, <1>3, <1>5 DEF Fits, Task
<1> QED
  BY <1>2, <1>4, <1>5, <1>6, ReadKeeps

LEMMA FailStaleKeeps ==
  ASSUME IInv, NEW p \in Workers, FailStale(p)
  PROVE  IInv'
<1>1. PICK t : t = task[p]
  OBVIOUS
<1>2. /\ t # None /\ t.op = "init" /\ t.at = "fail" /\ UNCHANGED <<store, upload>>
      /\ session' = [session EXCEPT ![t.session].status = "FAILED"]
      /\ Proceed(p, [t EXCEPT !.at = "stale"])
  BY <1>1 DEF FailStale, At, Goto
<1>3. t \in InitTask /\ t.session \in DOMAIN session
  BY <1>1, <1>2, Context, TaskByOp DEF Fits
<1>4. Keeps /\ MultipartTypeOK' /\ Linked' /\ Stored'
  BY <1>2, <1>3, StatusStep
<1>5. PICK u : u = [t EXCEPT !.at = "stale"]
  OBVIOUS
<1>6. u \in InitTask /\ u.op = "init" /\ u.at = "stale"
  BY <1>3, <1>5 DEF InitTask
<1>7. u \in Task /\ Fits(u)'
  BY <1>6 DEF Fits, Task
<1> QED
  BY <1>2, <1>4, <1>5, <1>6, <1>7, StepKeeps

\* An upload before a new one, or the nightly sweep: they reclaim the abandoned rows
\* by the same steps.
Reclaimer(t) == t \in Task /\ t.op \in {"init", "sweep"} /\ t.at \in {"stale", "abort", "mark"}
Reclaims(at) == at \in {"abort", "mark"}
GoesOn(u, t, at, j, todo) == u = [t EXCEPT !.at = at, !.session = j, !.todo = todo]
LEMMA ReclaimerGoesOn ==
  ASSUME NEW t, Reclaimer(t), NEW at, Reclaims(at), NEW j, j \in Nat \cup {None}, NEW todo, todo \subseteq Nat,
         NEW u, GoesOn(u, t, at, j, todo)
  PROVE  Reclaimer(u) /\ u.op = t.op /\ u.at = at /\ u.session = j /\ u.todo = todo
<1>1. CASE t.op = "init"
  <2>1. t \in InitTask
    BY <1>1, TaskByOp DEF Reclaimer
  <2>2. u \in InitTask /\ u.op = "init" /\ u.at = at /\ u.session = j /\ u.todo = todo
    BY <2>1 DEF InitTask, GoesOn, Reclaims
  <2> QED
    BY <1>1, <2>2 DEF Reclaimer, Task, Reclaims
<1>2. CASE t.op = "sweep"
  <2>1. t \in SweepTask /\ t.at # "known"
    BY <1>2, TaskByOp DEF Reclaimer
  <2>2. u \in SweepTask /\ u.op = "sweep" /\ u.at = at /\ u.session = j /\ u.todo = todo
    BY <2>1 DEF SweepTask, GoesOn, Reclaims
  <2> QED
    BY <1>2, <2>2 DEF Reclaimer, Task, Reclaims
<1> QED
  BY <1>1, <1>2 DEF Reclaimer

LEMMA ReclaimerHas ==
  ASSUME NEW t, Reclaimer(t)
  PROVE  t.session \in Nat \cup {None} /\ t.todo \in SUBSET Nat
<1>1. CASE t.op = "init"
  <2>1. t \in InitTask
    BY <1>1, TaskByOp DEF Reclaimer
  <2> QED
    BY <2>1 DEF InitTask
<1>2. CASE t.op = "sweep"
  <2>1. t \in SweepTask /\ t.at # "known"
    BY <1>2, TaskByOp DEF Reclaimer
  <2> QED
    BY <2>1 DEF SweepTask
<1> QED
  BY <1>1, <1>2 DEF Reclaimer

LEMMA ReadStaleKeeps ==
  ASSUME IInv, NEW p \in Workers, ReadStale(p)
  PROVE  IInv'
<1>1. PICK t : t = task[p]
  OBVIOUS
<1>2. PICK todo : todo = Stale(IF t.op = "init" THEN {t.movie} ELSE Movies)
  OBVIOUS
<1>3. /\ t # None /\ t.op \in {"init", "sweep"} /\ t.at = "stale" /\ UNCHANGED <<store, upload, session>>
      /\ Proceed(p, [t EXCEPT !.at = "abort", !.todo = todo])
  BY <1>1, <1>2 DEF ReadStale, At
<1>4. todo \in SUBSET Nat /\ \A j \in todo : OldSession(j)
  BY <1>2, RowIs DEF Stale, OldSession
<1>5. Reclaimer(t)
  BY <1>1, <1>3, Context DEF Reclaimer
<1>6. PICK u : u = [t EXCEPT !.at = "abort", !.todo = todo]
  OBVIOUS
<1>7. u \in Task /\ u.op \in {"init", "sweep"} /\ u.at = "abort" /\ u.todo = todo
  <2>1. CASE t.op = "init"
    <3>1. t \in InitTask
      BY <1>5, <2>1, TaskByOp DEF Reclaimer
    <3>2. u \in InitTask /\ u.op = "init" /\ u.at = "abort" /\ u.todo = todo
      BY <1>4, <1>6, <3>1 DEF InitTask
    <3> QED
      BY <3>2 DEF Task
  <2>2. CASE t.op = "sweep"
    <3>1. t \in SweepTask /\ t.at # "known"
      BY <1>5, <2>2, TaskByOp DEF Reclaimer
    <3>2. u \in SweepTask /\ u.op = "sweep" /\ u.at = "abort" /\ u.todo = todo
      BY <1>4, <1>6, <3>1 DEF SweepTask
    <3> QED
      BY <3>2 DEF Task
  <2> QED
    BY <1>3, <2>1, <2>2
<1>8. \A j \in u.todo : OldSession(j)'
  BY <1>3, <1>4, <1>7 DEF OldSession
<1>9. Fits(u)'
  BY <1>7, <1>8 DEF Fits
<1> QED
  BY <1>3, <1>6, <1>7, <1>9, ReadKeeps

LEMMA AbortStaleKeeps ==
  ASSUME IInv, NEW p \in Workers, AbortStale(p)
  PROVE  IInv'
<1>1. PICK t : t = task[p]
  OBVIOUS
<1>2. /\ t # None /\ t.op \in {"init", "sweep"} /\ t.at = "abort" /\ UNCHANGED <<store, session>>
      /\ \/ /\ t.todo = {} /\ UNCHANGED upload
            /\ Proceed(p, [t EXCEPT !.at = IF t.op = "init" THEN "create" ELSE "uploads"])
         \/ \E j \in t.todo :
               /\ upload' = [upload EXCEPT ![session[j].upload].open = FALSE]
               /\ Proceed(p, [t EXCEPT !.at = "mark", !.session = j, !.todo = t.todo \ {j}])
  BY <1>1 DEF AbortStale, Goto
<1>3. Reclaimer(t) /\ t.todo \in SUBSET Nat /\ \A j \in t.todo : OldSession(j)
  <2>1. t \in Task /\ Fits(t)
    BY <1>1, <1>2, Context
  <2>2. Reclaimer(t)
    BY <1>2, <2>1 DEF Reclaimer
  <2> QED
    BY <1>2, <2>1, <2>2, ReclaimerHas DEF Fits
<1>4. ASSUME UNCHANGED upload, Proceed(p, [t EXCEPT !.at = IF t.op = "init" THEN "create" ELSE "uploads"])
      PROVE  IInv'
  <2>1. PICK u : u = [t EXCEPT !.at = IF t.op = "init" THEN "create" ELSE "uploads"]
    OBVIOUS
  <2>2. u \in Task /\ u.op \in {"init", "sweep"} /\ u.at \in {"create", "uploads"}
    <3>1. CASE t.op = "init"
      <4>1. t \in InitTask
        BY <1>3, <3>1, TaskByOp DEF Reclaimer
      <4>2. u \in InitTask /\ u.op = "init" /\ u.at = "create"
        BY <2>1, <3>1, <4>1 DEF InitTask
      <4> QED
        BY <4>2 DEF Task
    <3>2. CASE t.op = "sweep"
      <4>1. t \in SweepTask /\ t.at # "known"
        BY <1>2, <1>3, <3>2, TaskByOp DEF Reclaimer
      <4>2. u \in SweepTask /\ u.op = "sweep" /\ u.at = "uploads"
        BY <2>1, <3>2, <4>1 DEF SweepTask
      <4> QED
        BY <4>2 DEF Task
    <3> QED
      BY <1>2, <3>1, <3>2
  <2>3. Fits(u)'
    BY <2>2 DEF Fits
  <2> QED
    BY <1>2, <1>4, <2>1, <2>2, <2>3, ReadKeeps
<1>5. ASSUME NEW j \in t.todo, upload' = [upload EXCEPT ![session[j].upload].open = FALSE],
             Proceed(p, [t EXCEPT !.at = "mark", !.session = j, !.todo = t.todo \ {j}])
      PROVE  IInv'
  <2>1. j \in DOMAIN session /\ j \in Nat
    BY <1>3, <1>5 DEF OldSession
  <2>2. session[j].upload \in DOMAIN upload
    BY <2>1, RowIs
  <2>3. Keeps /\ MultipartTypeOK' /\ Linked' /\ Stored'
    BY <1>2, <1>5, <2>2, ClosesUpload
  <2>4. PICK u : u = [t EXCEPT !.at = "mark", !.session = j, !.todo = t.todo \ {j}]
    OBVIOUS
  <2>5. Reclaimer(u) /\ u.at = "mark" /\ u.session = j /\ u.todo = t.todo \ {j}
    <3>1. Reclaims("mark") /\ GoesOn(u, t, "mark", j, t.todo \ {j}) /\ t.todo \ {j} \subseteq Nat
      BY <1>3, <2>4 DEF Reclaims, GoesOn
    <3> QED
      BY <1>3, <2>1, <3>1, ReclaimerGoesOn
  <2>6. u \in Task /\ Fits(u)'
    <3>1. u \in Task /\ u.op \in {"init", "sweep"} /\ u.at = "mark"
      BY <2>5 DEF Reclaimer
    <3>2. u.session \in DOMAIN session' /\ \A i \in u.todo : OldSession(i)'
      BY <1>2, <1>3, <2>1, <2>5 DEF OldSession
    <3> QED
      BY <3>1, <3>2 DEF Fits
  <2> QED
    BY <1>5, <2>3, <2>4, <2>6, StepKeeps
<1> QED
  BY <1>2, <1>4, <1>5

LEMMA MarkAbortedKeeps ==
  ASSUME IInv, NEW p \in Workers, MarkAborted(p)
  PROVE  IInv'
<1>1. PICK t : t = task[p]
  OBVIOUS
<1>2. /\ t # None /\ t.op \in {"init", "sweep", "abort"} /\ t.at = "mark" /\ UNCHANGED <<store, upload>>
      /\ session' = [session EXCEPT ![t.session].status = "FAILED"]
      /\ IF t.op = "abort" THEN Proceed(p, None) ELSE Proceed(p, [t EXCEPT !.at = "abort"])
  BY <1>1 DEF MarkAborted, Goto, End
<1>3. t \in Task /\ Fits(t) /\ t.session \in DOMAIN session
  BY <1>1, <1>2, Context DEF Fits
<1>4. Keeps /\ MultipartTypeOK' /\ Linked' /\ Stored'
  BY <1>2, <1>3, StatusStep
<1>5. CASE t.op = "abort"
  BY <1>2, <1>4, <1>5, StepKeeps
<1>6. CASE t.op \in {"init", "sweep"}
  <2>1. Reclaimer(t)
    BY <1>2, <1>3, <1>6 DEF Reclaimer
  <2>2. PICK u : u = [t EXCEPT !.at = "abort"]
    OBVIOUS
  <2>3. t.todo \in SUBSET Nat /\ Reclaimer(u) /\ u.at = "abort" /\ u.todo = t.todo
    <3>1. CASE t.op = "init"
      <4>1. t \in InitTask
        BY <1>3, <3>1, TaskByOp
      <4>2. u \in InitTask /\ u.op = "init" /\ u.at = "abort" /\ u.todo = t.todo /\ t.todo \in SUBSET Nat
        BY <2>2, <4>1 DEF InitTask
      <4> QED
        BY <4>2 DEF Reclaimer, Task
    <3>2. CASE t.op = "sweep"
      <4>1. t \in SweepTask /\ t.at # "known"
        BY <1>2, <1>3, <3>2, TaskByOp
      <4>2. u \in SweepTask /\ u.op = "sweep" /\ u.at = "abort" /\ u.todo = t.todo /\ t.todo \in SUBSET Nat
        BY <2>2, <4>1 DEF SweepTask
      <4> QED
        BY <4>2 DEF Reclaimer, Task
    <3> QED
      BY <1>6, <3>1, <3>2
  <2>4. u \in Task /\ Fits(u)'
    <3>1. u \in Task /\ u.op \in {"init", "sweep"} /\ u.at = "abort"
      BY <2>3 DEF Reclaimer
    <3>2. \A i \in t.todo : OldSession(i)
      BY <1>2, <1>3, <1>6 DEF Fits
    <3>3. \A i \in u.todo : OldSession(i)'
      BY <1>4, <2>3, <3>2 DEF OldSession, Keeps
    <3> QED
      BY <3>1, <3>3 DEF Fits
  <2> QED
    BY <1>2, <1>4, <1>6, <2>2, <2>4, StepKeeps
<1> QED
  BY <1>2, <1>5, <1>6

LEMMA CreateUploadKeeps ==
  ASSUME IInv, NEW p \in Workers, CreateUpload(p)
  PROVE  IInv'
<1>1. PICK t : t = task[p]
  OBVIOUS
<1>2. PICK r : r = [movie |-> t.movie, parts |-> {}, open |-> TRUE, age |-> 0]
  OBVIOUS
<1>3. /\ t # None /\ t.op = "init" /\ t.at = "create" /\ UNCHANGED <<store, session>>
      /\ Len(upload) < MaxUploads /\ upload' = Append(upload, r)
      /\ Proceed(p, [t EXCEPT !.at = "insert", !.upload = Len(upload')])
  BY <1>1, <1>2 DEF CreateUpload, At
<1>4. t \in InitTask
  BY <1>1, <1>3, Context, TaskByOp
<1>5. r \in Upload
  <2>1. t.movie \in Movies
    BY <1>4 DEF InitTask
  <2> QED
    BY <1>2, <2>1 DEF Upload, Abandoned
<1>6. /\ upload' \in Seq(Upload) /\ Len(upload') = Len(upload) + 1 /\ Len(upload') \in Nat
      /\ Len(upload') <= MaxUploads /\ Len(upload') \in DOMAIN upload'
      /\ \A i \in DOMAIN upload : i \in DOMAIN upload' /\ upload'[i] = upload[i]
  BY <1>3, <1>5, BoundIsNatural DEF IInv, Typed, MultipartTypeOK
<1>7. Keeps /\ MultipartTypeOK' /\ Linked' /\ Stored'
  BY <1>3, <1>6 DEF IInv, Typed, MultipartTypeOK, Keeps, Linked, Stored
<1>8. PICK n : n = Len(upload')
  OBVIOUS
<1>9. PICK u : u = [t EXCEPT !.at = "insert", !.upload = n]
  OBVIOUS
<1>10. u \in InitTask /\ u.op = "init" /\ u.at = "insert" /\ u.upload = n
  BY <1>4, <1>6, <1>8, <1>9 DEF InitTask
<1>11. u \in Task /\ Fits(u)'
  BY <1>6, <1>8, <1>10 DEF Fits, Task
<1> QED
  BY <1>3, <1>7, <1>8, <1>9, <1>11, StepKeeps

LEMMA InsertSessionKeeps ==
  ASSUME IInv, NEW p \in Workers, InsertSession(p)
  PROVE  IInv'
<1>1. PICK t : t = task[p]
  OBVIOUS
<1>2. PICK r : r = [movie |-> t.movie, upload |-> t.upload, age |-> 0, status |-> "IN_PROGRESS"]
  OBVIOUS
<1>3. /\ t # None /\ t.op = "init" /\ t.at = "insert" /\ UNCHANGED <<store, upload>>
      /\ session' = Append(session, r) /\ Proceed(p, None)
  BY <1>1, <1>2 DEF InsertSession, At, End
<1>4. t \in InitTask /\ t.upload \in DOMAIN upload
  BY <1>1, <1>3, Context, TaskByOp DEF Fits
<1>5. r \in Session /\ r.upload \in DOMAIN upload /\ r.age = 0 /\ r.status = "IN_PROGRESS"
  <2>1. t.movie \in Movies
    BY <1>4 DEF InitTask
  <2>2. t.upload \in 1 .. MaxUploads
    BY <1>4, UploadIs, BoundIsNatural DEF IInv, Typed, MultipartTypeOK
  <2> QED
    BY <1>2, <1>4, <2>1, <2>2 DEF Session, Abandoned
<1>6. /\ session' \in Seq(Session)
      /\ \A j \in DOMAIN session : j \in DOMAIN session' /\ session'[j] = session[j]
      /\ \A j \in DOMAIN session' : j \in DOMAIN session \/ session'[j] = r
  BY <1>3, <1>5 DEF IInv, Typed, MultipartTypeOK
<1>7. Keeps /\ MultipartTypeOK'
  BY <1>3, <1>6 DEF IInv, Typed, MultipartTypeOK, Keeps
<1>8. Linked'
  <2>1. upload[r.upload].age >= 0
    BY <1>5, UploadIs DEF Upload
  <2> QED
    BY <1>3, <1>5, <1>6, <2>1 DEF IInv, Linked
<1>9. Stored'
  BY <1>3, <1>5, <1>6 DEF IInv, Stored
<1> QED
  BY <1>3, <1>7, <1>8, <1>9, StepKeeps

LEMMA AssembleKeeps ==
  ASSUME IInv, NEW p \in Workers, Assemble(p)
  PROVE  IInv'
<1>1. PICK t : t = task[p]
  OBVIOUS
<1>2. PICK j : j = t.session
  OBVIOUS
<1>3. /\ t # None /\ t.op = "assemble" /\ t.at = "assemble" /\ UNCHANGED session
      /\ \/ /\ store' = [store EXCEPT ![session[j].movie] = @ \cup {Large}]
            /\ upload' = [upload EXCEPT ![session[j].upload].open = FALSE]
            /\ Proceed(p, [t EXCEPT !.at = "close"])
         \/ Proceed(p, None) /\ UNCHANGED <<store, upload>>
  BY <1>1, <1>2 DEF Assemble, At, End, Goto
<1>4. t \in AssembleTask /\ j \in DOMAIN session
  BY <1>1, <1>2, <1>3, Context, TaskByOp DEF Fits
<1>5. session[j].movie \in Movies /\ session[j].upload \in DOMAIN upload
  BY <1>4, RowIs
<1>6. ASSUME store' = [store EXCEPT ![session[j].movie] = @ \cup {Large}],
             upload' = [upload EXCEPT ![session[j].upload].open = FALSE],
             Proceed(p, [t EXCEPT !.at = "close"])
      PROVE  IInv'
  <2>1. PICK i : i = session[j].upload
    OBVIOUS
  <2>2. PICK r : r = [upload[i] EXCEPT !.open = FALSE]
    OBVIOUS
  <2>3. i \in DOMAIN upload /\ r \in Upload /\ r.age = upload[i].age
    BY <1>5, <2>1, <2>2, UploadIs DEF Upload
  <2>4. upload' = [upload EXCEPT ![i] = r]
    BY <1>6, <2>1, <2>2
  <2>5. /\ store' \in [Movies -> SUBSET Assets] /\ \A m \in Movies : store[m] \subseteq store'[m]
        /\ Large \in store'[session[j].movie]
    BY <1>5, <1>6, LargeIsAsset DEF IInv, Typed, MultipartTypeOK
  <2>6. Keeps /\ MultipartTypeOK' /\ Linked' /\ Stored'
    BY <1>3, <2>3, <2>4, <2>5, UploadStep
  <2>7. PICK u : u = [t EXCEPT !.at = "close"]
    OBVIOUS
  <2>8. u \in AssembleTask /\ u.op = "assemble" /\ u.at = "close" /\ u.session = j
    BY <1>2, <1>4, <2>7 DEF AssembleTask
  <2>9. u \in Task /\ Fits(u)'
    BY <1>3, <1>4, <2>5, <2>8 DEF Fits, Task
  <2> QED
    BY <1>6, <2>6, <2>7, <2>9, StepKeeps
<1> QED
  BY <1>3, <1>6, ReadKeeps

LEMMA CloseSessionKeeps ==
  ASSUME IInv, NEW p \in Workers, CloseSession(p)
  PROVE  IInv'
<1>1. PICK t : t = task[p]
  OBVIOUS
<1>2. /\ t # None /\ t.op = "assemble" /\ t.at = "close" /\ UNCHANGED <<store, upload>>
      /\ session' = [session EXCEPT ![t.session].status = "COMPLETED"] /\ Proceed(p, None)
  BY <1>1 DEF CloseSession, At, End
<1>3. t.session \in DOMAIN session /\ Large \in store[session[t.session].movie]
  BY <1>1, <1>2, Context DEF Fits
<1> QED
  BY <1>2, <1>3, StatusStep, StepKeeps

LEMMA AbortUploadKeeps ==
  ASSUME IInv, NEW p \in Workers, AbortUpload(p)
  PROVE  IInv'
<1>1. PICK t : t = task[p]
  OBVIOUS
<1>2. /\ t # None /\ t.op = "abort" /\ t.at = "abort" /\ UNCHANGED <<store, session>>
      /\ upload' = [upload EXCEPT ![session[t.session].upload].open = FALSE]
      /\ Proceed(p, [t EXCEPT !.at = "mark"])
  BY <1>1 DEF AbortUpload, At, Goto
<1>3. t \in AbortTask /\ t.session \in DOMAIN session
  BY <1>1, <1>2, Context, TaskByOp DEF Fits
<1>4. Keeps /\ MultipartTypeOK' /\ Linked' /\ Stored'
  <2>1. session[t.session].upload \in DOMAIN upload
    BY <1>3, RowIs
  <2> QED
    BY <1>2, <2>1, ClosesUpload
<1>5. PICK u : u = [t EXCEPT !.at = "mark"]
  OBVIOUS
<1>6. u \in AbortTask /\ u.op = "abort" /\ u.at = "mark" /\ u.session = t.session
  BY <1>3, <1>5 DEF AbortTask
<1>7. u \in Task /\ Fits(u)'
  BY <1>2, <1>3, <1>6 DEF Fits, Task
<1> QED
  BY <1>2, <1>4, <1>5, <1>7, StepKeeps

LEMMA PutAssetKeeps ==
  ASSUME IInv, NEW p \in Workers, PutAsset(p)
  PROVE  IInv'
<1>1. PICK t : t = task[p]
  OBVIOUS
<1>2. /\ t # None /\ t.op = "put" /\ UNCHANGED <<upload, session>> /\ Proceed(p, None)
      /\ store' = [store EXCEPT ![t.movie] = @ \cup {t.asset}]
  BY <1>1 DEF PutAsset, At, End
<1>3. t \in PutTask
  BY <1>1, <1>2, Context, TaskByOp
<1>4. t.movie \in Movies /\ t.asset \in Assets
  BY <1>3 DEF PutTask
<1>5. Keeps /\ MultipartTypeOK' /\ Linked' /\ Stored'
  BY <1>2, <1>4, StoreStep
<1> QED
  BY <1>2, <1>5, StepKeeps

\* The sweep is Cron's alone.
LEMMA StartSweepKeeps ==
  ASSUME IInv, StartSweep
  PROVE  IInv'
<1>1. PICK u : u = [op |-> "sweep", at |-> "stale", session |-> None, todo |-> {}]
  OBVIOUS
<1>2. u \in SweepTask /\ u.op = "sweep" /\ u.at = "stale"
  BY <1>1 DEF SweepTask
<1>3. u \in Task /\ Fits(u)'
  BY <1>2 DEF Fits, Task
<1>4. Cron \in Workers /\ Proceed(Cron, u) /\ UNCHANGED <<store, upload, session>>
  BY <1>1 DEF StartSweep, Workers
<1> QED
  BY <1>3, <1>4, ReadKeeps

LEMMA ListUploadsKeeps ==
  ASSUME IInv, ListUploads
  PROVE  IInv'
<1>1. PICK t : t = task[Cron]
  OBVIOUS
<1>2. PICK todo : todo = {<<i, upload[i].age>> : i \in {i \in DOMAIN upload : upload[i].open}}
  OBVIOUS
<1>3. /\ Cron \in Workers /\ t # None /\ t.op = "sweep" /\ t.at = "uploads" /\ UNCHANGED <<store, upload, session>>
      /\ Proceed(Cron, [t EXCEPT !.at = "known", !.todo = todo])
  BY <1>1, <1>2 DEF ListUploads, At, Workers
<1>4. t \in SweepTask
  BY <1>1, <1>3, Context, TaskByOp
<1>5. \A u \in todo : u \in Nat \X Nat /\ u[1] \in DOMAIN upload /\ u[2] = upload[u[1]].age
  <2>1. \A i \in DOMAIN upload : i \in Nat /\ upload[i].age \in Nat
    BY UploadIs DEF Upload, Abandoned
  <2> QED
    BY <1>2, <2>1
<1>6. PICK u : u = [t EXCEPT !.at = "known", !.todo = todo]
  OBVIOUS
<1>7. u \in SweepTask /\ u.op = "sweep" /\ u.at = "known" /\ u.todo = todo
  BY <1>3, <1>4, <1>5, <1>6 DEF SweepTask
<1>8. u \in Task /\ Fits(u)'
  BY <1>3, <1>5, <1>7 DEF Fits, Task
<1> QED
  BY <1>3, <1>6, <1>8, ReadKeeps

LEMMA ReadKnownKeeps ==
  ASSUME IInv, ReadKnown
  PROVE  IInv'
<1>1. PICK t : t = task[Cron]
  OBVIOUS
<1> DEFINE known == {session[j].upload : j \in DOMAIN session}
<1>2. PICK todo : todo = {u[1] : u \in {u \in t.todo : u[1] \notin known /\ u[2] = Abandoned}}
  OBVIOUS
<1>3. /\ Cron \in Workers /\ t # None /\ t.op = "sweep" /\ t.at = "known" /\ UNCHANGED <<store, upload, session>>
      /\ Proceed(Cron, [t EXCEPT !.at = "reap", !.todo = todo])
  BY <1>1, <1>2 DEF ReadKnown, At, Workers
<1>4. t \in SweepTask /\ \A u \in t.todo : u[1] \in DOMAIN upload /\ u[2] = upload[u[1]].age
  BY <1>1, <1>3, Context, TaskByOp DEF Fits
<1>5. \A i \in todo : i \in Nat /\ OldUpload(i)
  <2>1. \A i \in todo : i \in DOMAIN upload /\ upload[i].age = Abandoned
    BY <1>2, <1>4
  <2> QED
    BY <2>1, UploadIs DEF OldUpload
<1>6. PICK u : u = [t EXCEPT !.at = "reap", !.todo = todo]
  OBVIOUS
<1>7. u \in SweepTask /\ u.op = "sweep" /\ u.at = "reap" /\ u.todo = todo
  BY <1>3, <1>4, <1>5, <1>6 DEF SweepTask
<1>8. \A i \in todo : OldUpload(i)'
  BY <1>3, <1>5 DEF OldUpload
<1>9. u \in Task /\ Fits(u)'
  BY <1>7, <1>8 DEF Fits, Task
<1> QED
  BY <1>3, <1>6, <1>9, ReadKeeps

LEMMA ReapKeeps ==
  ASSUME IInv, Reap
  PROVE  IInv'
<1>1. PICK t : t = task[Cron]
  OBVIOUS
<1>2. /\ Cron \in Workers /\ t # None /\ t.op = "sweep" /\ t.at = "reap" /\ UNCHANGED <<store, session>>
      /\ \/ Proceed(Cron, None) /\ UNCHANGED upload
         \/ \E i \in t.todo : /\ upload' = [upload EXCEPT ![i].open = FALSE]
                              /\ Proceed(Cron, [t EXCEPT !.todo = t.todo \ {i}])
  BY <1>1 DEF Reap, At, End, Workers
<1>3. t \in SweepTask /\ \A i \in t.todo : OldUpload(i)
  BY <1>1, <1>2, Context, TaskByOp DEF Fits
<1>4. ASSUME NEW i \in t.todo, upload' = [upload EXCEPT ![i].open = FALSE],
             Proceed(Cron, [t EXCEPT !.todo = t.todo \ {i}])
      PROVE  IInv'
  <2>1. Keeps /\ MultipartTypeOK' /\ Linked' /\ Stored'
    BY <1>2, <1>3, <1>4, ClosesUpload DEF OldUpload
  <2>2. PICK u : u = [t EXCEPT !.todo = t.todo \ {i}]
    OBVIOUS
  <2>3. u \in SweepTask /\ u.op = "sweep" /\ u.at = "reap" /\ u.todo = t.todo \ {i}
    BY <1>2, <1>3, <2>2 DEF SweepTask
  <2>4. \A k \in t.todo : OldUpload(k)'
    BY <1>3, <2>1 DEF OldUpload, Keeps
  <2>5. u \in Task /\ Fits(u)'
    BY <2>3, <2>4 DEF Fits, Task
  <2> QED
    BY <1>2, <1>4, <2>1, <2>2, <2>5, StepKeeps
<1> QED
  BY <1>2, <1>4, ReadKeeps

\* What happens without a request.
LEMMA PutPartKeeps ==
  ASSUME IInv, NEW j \in DOMAIN session, NEW n \in Parts, PutPart(j, n)
  PROVE  IInv'
<1>1. PICK i : i = session[j].upload
  OBVIOUS
<1>2. PICK r : r = [upload[i] EXCEPT !.parts = @ \cup {n}]
  OBVIOUS
<1>3. i \in DOMAIN upload /\ r \in Upload /\ r.age = upload[i].age
  BY <1>1, <1>2, RowIs, UploadIs DEF Upload
<1>4. upload' = [upload EXCEPT ![i] = r] /\ UNCHANGED <<store, session, task>>
  BY <1>1, <1>2 DEF PutPart
<1>5. Keeps /\ MultipartTypeOK' /\ Linked' /\ Stored'
  BY <1>3, <1>4, UploadStep DEF IInv, Typed, MultipartTypeOK
<1>6. Described'
  <2> SUFFICES ASSUME NEW q \in Workers, NEW t, t = task'[q], t # None PROVE Fits(t)'
    BY DEF Described, Fits
  <2> QED
    BY <1>4, <1>5, Context, FitsStays
<1> QED
  BY <1>4, <1>5, <1>6 DEF IInv, Typed

LEMMA DayPassesKeeps ==
  ASSUME IInv, DayPasses
  PROVE  IInv'
<1>1. /\ \A p \in Workers : task[p] = None
      /\ upload' = Older(upload) /\ session' = Older(session) /\ UNCHANGED <<store, task>>
  BY DEF DayPasses
<1>2. /\ DOMAIN upload' = DOMAIN upload
      /\ \A i \in DOMAIN upload :
            /\ upload'[i] \in Upload
            /\ upload'[i].age = IF upload[i].age < Abandoned THEN upload[i].age + 1 ELSE upload[i].age
  <2>1. DOMAIN upload' = DOMAIN upload
    BY <1>1 DEF Older
  <2>2. ASSUME NEW i \in DOMAIN upload
        PROVE  /\ upload'[i] \in Upload
               /\ upload'[i].age = IF upload[i].age < Abandoned THEN upload[i].age + 1 ELSE upload[i].age
    <3>1. PICK r : r = upload[i]
      OBVIOUS
    <3>2. r \in Upload
      BY <3>1, UploadIs
    <3>3. upload'[i] = [r EXCEPT !.age = IF r.age < Abandoned THEN r.age + 1 ELSE r.age]
      BY <1>1, <3>1 DEF Older
    <3> QED
      BY <3>1, <3>2, <3>3 DEF Upload, Abandoned
  <2> QED
    BY <2>1, <2>2
<1>3. /\ DOMAIN session' = DOMAIN session
      /\ \A j \in DOMAIN session :
            /\ session'[j] \in Session
            /\ session'[j].age = IF session[j].age < Abandoned THEN session[j].age + 1 ELSE session[j].age
            /\ session'[j].movie = session[j].movie /\ session'[j].upload = session[j].upload
            /\ session'[j].status = session[j].status
  <2>1. DOMAIN session' = DOMAIN session
    BY <1>1 DEF Older
  <2>2. ASSUME NEW j \in DOMAIN session
        PROVE  /\ session'[j] \in Session
               /\ session'[j].age = IF session[j].age < Abandoned THEN session[j].age + 1 ELSE session[j].age
               /\ session'[j].movie = session[j].movie /\ session'[j].upload = session[j].upload
               /\ session'[j].status = session[j].status
    <3>1. PICK r : r = session[j]
      OBVIOUS
    <3>2. r \in Session
      BY <3>1, RowIs
    <3>3. session'[j] = [r EXCEPT !.age = IF r.age < Abandoned THEN r.age + 1 ELSE r.age]
      BY <1>1, <3>1 DEF Older
    <3> QED
      BY <3>1, <3>2, <3>3 DEF Session, Abandoned
  <2> QED
    BY <2>1, <2>2
<1>4. MultipartTypeOK'
  <2>1. upload' \in Seq(Upload) /\ Len(upload') = Len(upload)
    <3>1. upload' \in [DOMAIN upload -> Upload]
      BY <1>1, <1>2 DEF Older
    <3> QED
      BY <3>1, Rewritten DEF IInv, Typed, MultipartTypeOK
  <2>2. session' \in Seq(Session)
    <3>1. session' \in [DOMAIN session -> Session]
      BY <1>1, <1>3 DEF Older
    <3> QED
      BY <3>1, Rewritten DEF IInv, Typed, MultipartTypeOK
  <2> QED
    BY <1>1, <2>1, <2>2 DEF IInv, Typed, MultipartTypeOK
<1>5. Linked'
  <2> SUFFICES ASSUME NEW j \in DOMAIN session, NEW i, i = session[j].upload
               PROVE  i \in DOMAIN upload' /\ session'[j].age <= upload'[i].age
    BY <1>3 DEF Linked
  <2>1. i \in DOMAIN upload /\ session[j].age <= upload[i].age /\ session[j] \in Session /\ upload[i] \in Upload
    BY RowIs, UploadIs DEF IInv, Linked
  <2>2. session[j].age \in 0 .. 2 /\ upload[i].age \in 0 .. 2
    BY <2>1 DEF Session, Upload, Abandoned
  <2> QED
    BY <1>2, <1>3, <2>1, <2>2 DEF Abandoned
<1>6. Stored'
  BY <1>1, <1>3 DEF IInv, Stored
<1>7. Described'
  BY <1>1 DEF Described
<1> QED
  BY <1>1, <1>4, <1>5, <1>6, <1>7 DEF IInv, Typed

LEMMA RestartKeeps ==
  ASSUME IInv, Restart
  PROVE  IInv'
<1>1. task' = [p \in Workers |-> None] /\ UNCHANGED <<store, upload, session>>
  BY DEF Restart
<1>2. Described'
  BY <1>1 DEF Described
<1> QED
  BY <1>1, <1>2, ReadStep DEF IInv, Typed

LEMMA StepIsSound == IInv /\ [MultipartNext]_multipartVars => IInv'
<1> SUFFICES ASSUME IInv, [MultipartNext]_multipartVars PROVE IInv'
  OBVIOUS
<1>1. Cron \in Workers /\ Procs \subseteq Workers
  BY DEF Workers
<1>2. ASSUME NEW p \in Workers, ReadStale(p) \/ AbortStale(p) \/ MarkAborted(p) PROVE IInv'
  BY <1>2, ReadStaleKeeps, AbortStaleKeeps, MarkAbortedKeeps
<1>3. ASSUME NEW p \in Procs, Receive(p) PROVE IInv'
  BY <1>1, <1>3, AskInitKeeps, AskPutKeeps, AskCompleteKeeps, AskAbortKeeps DEF Receive, AskPut
<1>4. ASSUME NEW p \in Procs, Handle(p) PROVE IInv'
  BY <1>1, <1>2, <1>4, FindSessionKeeps, ListPartsKeeps, FailStaleKeeps, CreateUploadKeeps, InsertSessionKeeps,
     AssembleKeeps, CloseSessionKeeps, AbortUploadKeeps, PutAssetKeeps DEF Handle, InitMultipart
<1>5. ASSUME SweepStep PROVE IInv'
  BY <1>1, <1>2, <1>5, ListUploadsKeeps, ReadKnownKeeps, ReapKeeps DEF SweepStep
<1>6. CASE UNCHANGED multipartVars
  <2>1. UNCHANGED <<store, upload, session, task>>
    BY <1>6 DEF multipartVars
  <2>2. Described'
    <3>1. \A j : OldSession(j)' <=> OldSession(j)
      BY <2>1 DEF OldSession
    <3>2. \A i : OldUpload(i)' <=> OldUpload(i)
      BY <2>1 DEF OldUpload
    <3> QED
      BY <2>1, <3>1, <3>2 DEF IInv, Described, Fits
  <2> QED
    BY <2>1, <2>2, ReadStep DEF IInv, Typed
<1> QED
  BY <1>3, <1>4, <1>5, <1>6, StartSweepKeeps, PutPartKeeps, DayPassesKeeps, RestartKeeps DEF MultipartNext

LEMMA InitIsSound == MultipartInit => IInv
<1> SUFFICES ASSUME MultipartInit PROVE IInv
  OBVIOUS
<1>1. MultipartTypeOK
  BY BoundIsNatural DEF MultipartInit, MultipartTypeOK
<1>2. task \in [Workers -> Task \cup {None}] /\ Described
  BY DEF MultipartInit, Described
<1>3. Linked /\ Stored
  BY DEF MultipartInit, Linked, Stored
<1> QED
  BY <1>1, <1>2, <1>3 DEF IInv, Typed

\* Of every request and of the sweep, wherever they stand, what they read is still so.
THEOREM MultipartInvariance == MultipartSpec => []IInv
BY InitIsSound, StepIsSound, PTL DEF MultipartSpec

-----------------------------------------------------------------------------
(* What the clients rely on *)

\* A session the client was told is COMPLETED has its object in the store, whatever
\* aborts, sweeps, crashes and other requests do between the two writes.
THEOREM SessionsTrue == MultipartSpec => []SessionsAreTrue
<1>1. IInv => SessionsAreTrue
  BY DEF IInv, Typed, Stored, SessionsAreTrue, CompletedIsStored
<1> QED
  BY <1>1, MultipartInvariance, PTL

\* An upload is only closed by the client's own request, or when it is two days old.
Spares ==
    \A i \in DOMAIN upload :
       upload[i].open /\ ~upload'[i].open /\ upload[i].age < Abandoned
          => \E p \in Procs : \/ At(p, "assemble", "assemble") /\ session[task[p].session].upload = i
                              \/ At(p, "abort", "abort") /\ session[task[p].session].upload = i

LEMMA ReclaimSpares ==
  ASSUME IInv, NEW p \in Workers, AbortStale(p)
  PROVE  Spares
<1>1. \/ UNCHANGED upload
      \/ \E j \in task[p].todo : upload' = [upload EXCEPT ![session[j].upload].open = FALSE]
  BY DEF AbortStale
<1>2. \A j \in task[p].todo : j \in DOMAIN session /\ session[j].age = Abandoned
  BY Context DEF AbortStale, Fits, OldSession
<1>3. ASSUME NEW j \in task[p].todo, upload' = [upload EXCEPT ![session[j].upload].open = FALSE] PROVE Spares
  <2>1. PICK i : i = session[j].upload
    OBVIOUS
  <2>2. /\ i \in DOMAIN upload /\ Abandoned <= upload[i].age /\ upload[i] \in Upload
    BY <1>2, <2>1, RowIs, UploadIs DEF IInv, Linked
  <2>3. ~(upload[i].age < Abandoned)
    BY <2>2 DEF Upload, Abandoned
  <2>4. \A k \in DOMAIN upload : k # i => upload'[k] = upload[k]
    BY <1>3, <2>1
  <2> QED
    BY <2>3, <2>4 DEF Spares
<1> QED
  BY <1>1, <1>3 DEF Spares

LEMMA ReapSpares ==
  ASSUME IInv, Reap
  PROVE  Spares
<1>1. \/ UNCHANGED upload
      \/ \E i \in task[Cron].todo : upload' = [upload EXCEPT ![i].open = FALSE]
  BY DEF Reap
<1>2. \A i \in task[Cron].todo : i \in DOMAIN upload /\ upload[i].age = Abandoned
  BY Context DEF Reap, At, Fits, OldUpload, Workers
<1>3. ASSUME NEW i \in task[Cron].todo, upload' = [upload EXCEPT ![i].open = FALSE] PROVE Spares
  <2>1. ~(upload[i].age < Abandoned)
    BY <1>2 DEF Abandoned
  <2>2. \A k \in DOMAIN upload : k # i => upload'[k] = upload[k]
    BY <1>3
  <2> QED
    BY <2>1, <2>2 DEF Spares
<1> QED
  BY <1>1, <1>3 DEF Spares

LEMMA HandleSpares ==
  ASSUME IInv, NEW p \in Procs, Assemble(p) \/ AbortUpload(p)
  PROVE  Spares
<1>1. PICK k : k = session[task[p].session].upload
  OBVIOUS
<1>2. At(p, "assemble", "assemble") \/ At(p, "abort", "abort")
  BY DEF Assemble, AbortUpload
<1>3. upload' = upload \/ upload' = [upload EXCEPT ![k].open = FALSE]
  BY <1>1 DEF Assemble, AbortUpload
<1>4. \A i \in DOMAIN upload : i # k => upload'[i] = upload[i]
  BY <1>3
<1> QED
  BY <1>1, <1>2, <1>4 DEF Spares

LEMMA StepSpares ==
  ASSUME IInv, [MultipartNext]_multipartVars
  PROVE  Spares
<1>1. ASSUME UNCHANGED upload PROVE Spares
  BY <1>1 DEF Spares
<1>2. ASSUME NEW p \in Workers, ReadStale(p) \/ AbortStale(p) \/ MarkAborted(p) PROVE Spares
  BY <1>1, <1>2, ReclaimSpares DEF ReadStale, MarkAborted
<1>3. ASSUME NEW p \in Procs, Receive(p) PROVE Spares
  BY <1>1, <1>3 DEF Receive, AskInit, AskPut, AskComplete, AskAbort
<1>4. ASSUME NEW p \in Procs, CreateUpload(p) PROVE Spares
  <2>1. \A i \in DOMAIN upload : upload'[i] = upload[i]
    BY <1>4 DEF CreateUpload, IInv, Typed, MultipartTypeOK
  <2> QED
    BY <2>1 DEF Spares
<1>5. ASSUME NEW p \in Procs, Handle(p) PROVE Spares
  <2>1. FindSession(p) \/ ListParts(p) \/ FailStale(p) \/ InsertSession(p) \/ CloseSession(p) \/ PutAsset(p)
           => UNCHANGED upload
    BY DEF FindSession, ListParts, FailStale, InsertSession, CloseSession, PutAsset
  <2> QED
    BY <1>1, <1>2, <1>4, <1>5, <2>1, HandleSpares DEF Handle, InitMultipart, Workers
<1>6. ASSUME SweepStep PROVE Spares
  <2>1. ListUploads \/ ReadKnown => UNCHANGED upload
    BY DEF ListUploads, ReadKnown
  <2> QED
    BY <1>1, <1>2, <1>6, <2>1, ReapSpares DEF SweepStep, Workers
<1>7. ASSUME NEW j \in DOMAIN session, NEW n \in Parts, PutPart(j, n) PROVE Spares
  <2>1. PICK i : i = session[j].upload
    OBVIOUS
  <2>2. i \in DOMAIN upload /\ upload[i] \in Upload
    BY <2>1, RowIs, UploadIs
  <2>3. upload' = [upload EXCEPT ![i].parts = @ \cup {n}]
    BY <1>7, <2>1 DEF PutPart
  <2>4. \A k \in DOMAIN upload : upload'[k].open = upload[k].open
    <3> SUFFICES ASSUME NEW k \in DOMAIN upload PROVE upload'[k].open = upload[k].open
      OBVIOUS
    <3>1. upload[k] \in Upload
      BY UploadIs
    <3> QED
      BY <2>2, <2>3, <3>1 DEF Upload
  <2> QED
    BY <2>4 DEF Spares
<1>8. ASSUME DayPasses PROVE Spares
  <2>1. ASSUME NEW i \in DOMAIN upload PROVE upload'[i].open = upload[i].open
    <3>1. PICK r : r = upload[i]
      OBVIOUS
    <3>2. r \in Upload
      BY <3>1, UploadIs
    <3>3. upload'[i] = [r EXCEPT !.age = IF r.age < Abandoned THEN r.age + 1 ELSE r.age]
      BY <1>8, <3>1 DEF DayPasses, Older
    <3> QED
      BY <3>1, <3>2, <3>3 DEF Upload
  <2> QED
    BY <2>1 DEF Spares
<1>9. StartSweep \/ Restart \/ UNCHANGED multipartVars => UNCHANGED upload
  BY DEF StartSweep, Restart, multipartVars
<1> QED
  BY <1>1, <1>3, <1>5, <1>6, <1>7, <1>8, <1>9 DEF MultipartNext

\* The sweep of one night, whatever it read when, takes away no upload that is younger
\* than two days, the one whose row is not inserted yet included.
THEOREM YoungSpared == MultipartSpec => SweepSparesYoung
<1>1. IInv /\ [MultipartNext]_multipartVars => [Spares]_multipartVars
  BY StepSpares
<1> QED
  BY <1>1, MultipartInvariance, PTL DEF MultipartSpec, SweepSparesYoung, Spares

=============================================================================
