--------------------------- MODULE Uploads_proofs ---------------------------
(***************************************************************************)
(* Uploads for any number of titles, files, renditions, requests and       *)
(* restarts: claims are kept, an upload that can be resumed keeps its      *)
(* chunks, and the services implement TitleLifecycle.                      *)
(*                                                                         *)
(* The invariant says of every request what it may rely on between two of  *)
(* its steps: the place it has reached and what that means for its rows    *)
(* (Shape, Fits), and the files it has seen or written (Promised), which   *)
(* only the deletion of the title takes away.                              *)
(***************************************************************************)
EXTENDS Uploads, WellFoundedInduction, TLAPS

-----------------------------------------------------------------------------
(* The invariant *)

\* Where a request can stand, and what it carries there.
FileShape(t) ==
    /\ t.op = "init" =>
          /\ t.at \in {"find", "resume", "insert", "dir"}
          /\ t.at \in {"resume", "dir"} => t.session # None
    /\ t.op = "complete" =>
          /\ t.at \in {"check", "merge", "put", "create", "close", "clean", "start"}
          /\ t.session # None
    /\ t.op = "delete" => t.at = "wipe"
    /\ t.op \in {"init", "delete"} \/ t.at = "check" => t.video = None
    /\ t.op # "complete" \/ t.at # "check" => t.movie \in Movies
    /\ t.op = "init" \/ (t.op = "complete" /\ t.at # "check") =>
          \E f \in Files :
             /\ t.todo = {f} /\ f.movie = t.movie
             /\ t.at = "put" => f.asset # None
             /\ t.at \in {"create", "start"} => f.asset = None
             /\ t.video # None <=> t.at \in {"close", "clean", "start"} /\ f.asset = None
RunAt(at, todo) ==
    /\ at \in {"mark", "archive", "path", "tier", "encode", "push", "master", "tidy", "ready", "publish",
               "failed", "draft", "discard"}
    /\ at \in {"mark", "archive"} => todo = Tiers
    /\ at \in {"encode", "push"} => todo # {}
    /\ at \in {"master", "tidy", "ready"} => todo = {}
RunShape(t) ==
    /\ t.movie \in Movies
    /\ t.op = "reprocess" => t.at \in {"claim", "fetch"} /\ (t.video # None <=> t.at = "fetch")
    /\ t.op = "run" => t.video # None /\ RunAt(t.at, t.todo)
FinalizeShape(t) ==
    /\ t.movie \in Movies
    /\ t.at # "load" => t.seen \in FinalizableMovieStatuses
    /\ t.video # None <=> t.at \in {"ready", "flip"}
Shape(t) ==
    \/ t \in FileTask /\ FileShape(t)
    \/ t \in RunTask /\ RunShape(t)
    \/ t \in FinalizeTask /\ FinalizeShape(t)

\* The status a row has that a request works on.
Fits(t, status) ==
    /\ t.op = "complete" => status = "UPLOADING"
    /\ t.op = "reprocess" => status \in {"PROCESSING", "FAILED"}
    /\ t.op = "run" /\ t.at = "mark" => status # "READY"
    /\ t.op = "run" /\ t.at = "publish" => status = "READY"
    /\ t.op = "run" /\ t.at \in {"failed", "discard"} => status # "UPLOADING"
    /\ t.op = "run" /\ t.at \notin {"mark", "publish", "failed", "discard"} => status \in {"PROCESSING", "FAILED"}
    /\ t.op = "finalize" /\ t.at = "ready" => status = "UPLOADING"
    /\ t.op = "finalize" /\ t.at = "flip" => status = "READY"

\* The objects a request has seen in the store or put there.
Promised(t) ==
    (IF t.op = "run" /\ t.at \in {"path", "tier", "encode", "push", "master", "tidy", "ready"}
     THEN {Original} \cup {Index(u) : u \in Tiers \ t.todo} ELSE {})
    \cup (IF t.op = "run" /\ t.at \in {"tidy", "ready"} THEN {Master} ELSE {})
    \cup (IF t.op = "finalize" /\ t.at \in {"create", "ready"}
          THEN {Original, Master} \cup {Index(u) : u \in t.todo} ELSE {})

HoldsSession(t) ==
    /\ t.session # None => t.session \in DOMAIN session
    /\ t.op = "complete" /\ t.at # "check" =>
          /\ session[t.session] = None => movie[t.movie] = None
          /\ session[t.session] # None => session[t.session].file.movie = t.movie
HoldsVideo(t) ==
    t.video # None =>
       /\ t.video \in DOMAIN video
       /\ ~Row(t.video) => movie[t.movie] = None
       /\ Row(t.video) => video[t.video].movie = t.movie /\ Fits(t, video[t.video].status)
HoldsFiles(t) ==
    t.movie \in Movies =>
       /\ movie[t.movie] # None => Promised(t) \subseteq store[t.movie]
       /\ t.op = "delete" => movie[t.movie] = None
Holds(t) == HoldsSession(t) /\ HoldsVideo(t) /\ HoldsFiles(t)

Described == \A p \in Procs : task[p] # None => Shape(task[p]) /\ Holds(task[p])
\* No two requests work on one row.
Exclusive ==
    \A p, q \in Procs :
       p # q /\ task[p] # None /\ task[q] # None /\ task[p].video # None => task[p].video # task[q].video
\* The foreign key.
RowsHaveTitles == \A v \in DOMAIN video : Row(v) => movie[video[v].movie] # None

\* What nothing was added to for a day was there before the sweep began, so the
\* sweep asked its owner.
Young(i) == InProgress(i) /\ session[i].age < 2
Swept ==
    /\ \A i : Dir(i) \in cold => i \in DOMAIN chunks
    /\ task[Cron] # None =>
          \A i \in DOMAIN session : Young(i) /\ Dir(i) \in cold =>
                (Dir(i) \in task[Cron].todo <=> task[Cron].at = "list")

\* Everything but the requests, and the requests.
Typed ==
    /\ movie \in [Movies -> MovieStatus \cup {None}]
    /\ video \in Seq(Video \cup {None}) /\ Len(video) <= MaxVideos
    /\ session \in Seq(Session \cup {None})
    /\ chunks \in Seq({None} \cup SUBSET Chunks) /\ Len(chunks) = Len(session)
    /\ store \in [Movies -> SUBSET Assets]
    /\ scratch \in [Movies -> SUBSET {"input", "tier"}]
    /\ task \in [Workers -> Request \cup SweepTask \cup {None}]
    /\ task[Cron] \in SweepTask \cup {None}
    /\ stranded \subseteq DOMAIN video
IInv ==
    /\ Typed /\ Described /\ Exclusive /\ RowsHaveTitles /\ Swept
    /\ ClaimIsHeld /\ UploadingIsWorkedOn

-----------------------------------------------------------------------------
(* Requests *)

ClaimsOf(t) == IF t # None /\ (t.op = "run" \/ (t.op = "reprocess" /\ t.at = "fetch")) THEN {t.video} ELSE {}

LEMMA ClaimsOfTask == ASSUME NEW p PROVE Claims(p) = ClaimsOf(task[p])
<1>1. task[p] # None /\ (task[p].op = "run" \/ At(p, "reprocess", "fetch"))
        <=> task[p] # None /\ (task[p].op = "run" \/ (task[p].op = "reprocess" /\ task[p].at = "fetch"))
  BY DEF At
<1> QED
  BY <1>1 DEF Claims, ClaimsOf

\* The kinds of request differ in what they are asked for.
LEMMA ShapeByOp ==
  ASSUME NEW t, Shape(t)
  PROVE  /\ t \in Request /\ t # None
         /\ t.op \in {"init", "complete", "delete"} => t \in FileTask /\ FileShape(t)
         /\ t.op \in {"run", "reprocess"} => t \in RunTask /\ RunShape(t)
         /\ t.op = "finalize" => t \in FinalizeTask /\ FinalizeShape(t)
         /\ t.op \in {"init", "complete", "delete", "run", "reprocess", "finalize"}
         /\ t.movie \in Movies \/ (t.op = "complete" /\ t.at = "check")
         /\ t.video \in Nat \cup {None} /\ t.session \in Nat \cup {None}
<1>1. CASE t \in FileTask /\ FileShape(t)
  <2>1. /\ t.op \in {"init", "complete", "delete"} /\ t \in Request
        /\ t.video \in Nat \cup {None} /\ t.session \in Nat \cup {None}
    BY <1>1 DEF Request, FileTask, TaskOver
  <2>2. t.movie \in Movies \/ (t.op = "complete" /\ t.at = "check")
    BY <1>1 DEF FileShape
  <2> QED
    BY <1>1, <2>1, <2>2, NoneIsNoValue
<1>2. CASE t \in RunTask /\ RunShape(t)
  <2>1. /\ t.op \in {"run", "reprocess"} /\ t \in Request
        /\ t.video \in Nat \cup {None} /\ t.session \in Nat \cup {None}
    BY <1>2 DEF Request, RunTask, TaskOver
  <2>2. t.movie \in Movies
    BY <1>2 DEF RunShape
  <2> QED
    BY <1>2, <2>1, <2>2, NoneIsNoValue
<1>3. CASE t \in FinalizeTask /\ FinalizeShape(t)
  <2>1. /\ t.op = "finalize" /\ t \in Request
        /\ t.video \in Nat \cup {None} /\ t.session \in Nat \cup {None}
    BY <1>3 DEF Request, FinalizeTask, TaskOver
  <2>2. t.movie \in Movies
    BY <1>3 DEF FinalizeShape
  <2> QED
    BY <1>3, <2>1, <2>2, NoneIsNoValue
<1> QED
  BY <1>1, <1>2, <1>3 DEF Shape

LEMMA Context ==
  ASSUME IInv, NEW p \in Procs, task[p] # None
  PROVE  Shape(task[p]) /\ Holds(task[p])
BY DEF IInv, Described

\* Of the rows of one kind the newest exists.
LEMMA NewestExists ==
  ASSUME NEW S \in SUBSET Nat, NEW n \in Nat, \A x \in S : x <= n, S # {}
  PROVE  \E x \in S : \A y \in S : y <= x
<1> DEFINE T == {k \in Nat : k <= n /\ n - k \in S}
<1>1. T \subseteq Nat /\ T # {}
  <2>1. PICK x \in S : x \in Nat /\ x <= n
    OBVIOUS
  <2>2. n - x \in T
    BY <2>1
  <2> QED
    BY <2>2
<1>2. PICK k \in T : \A j \in T : ~(<<j, k>> \in OpToRel(<, Nat))
  BY <1>1, NatLessThanWellFounded, WFMin
<1>3. ASSUME NEW y \in S PROVE y <= n - k
  <2>1. n - y \in T /\ n - y \in Nat /\ y \in Nat /\ k \in Nat /\ n - (n - y) = y
    BY <1>1
  <2>2. <<n - y, k>> \notin OpToRel(<, Nat)
    BY <1>2, <2>1
  <2>3. ~(n - y < k)
    BY <2>1, <2>2 DEF OpToRel
  <2> QED
    BY <2>1, <2>3
<1> QED
  BY <1>2, <1>3

\* A table of which rows were rewritten.
LEMMA Rewritten ==
  ASSUME NEW S, NEW s \in Seq(S), NEW r \in [DOMAIN s -> S]
  PROVE  r \in Seq(S) /\ Len(r) = Len(s) /\ DOMAIN r = DOMAIN s
<1>1. Len(s) \in Nat /\ DOMAIN s = 1 .. Len(s)
  OBVIOUS
<1>2. r \in [1 .. Len(s) -> S]
  BY <1>1
<1> QED
  BY <1>1, <1>2

-----------------------------------------------------------------------------
(* What a step of one request leaves of the others *)

\* A step never brings a title, a row or an upload back, takes objects only of a
\* title that is gone, and changes the status of no row but v.
World(v) ==
    /\ \A m \in Movies : movie[m] = None => movie'[m] = None
    /\ \A m \in Movies : movie'[m] # None => store[m] \subseteq store'[m]
    /\ \A w \in DOMAIN video :
          /\ w \in DOMAIN video'
          /\ video[w] = None => video'[w] = None
          /\ video[w] # None /\ video'[w] = None => movie'[video[w].movie] = None
          /\ video'[w] # None => video'[w].movie = video[w].movie /\ (w # v => video'[w].status = video[w].status)
    /\ \A i \in DOMAIN session :
          /\ i \in DOMAIN session'
          /\ session[i] = None => session'[i] = None
          /\ session[i] # None /\ session'[i] = None => movie'[session[i].file.movie] = None
          /\ session'[i] # None => session'[i].file = session[i].file
          /\ Young(i)' => Young(i)

LEMMA HoldsStays ==
  ASSUME NEW v, World(v), NEW t, Shape(t), Holds(t), t.video # v \/ t.video = None
  PROVE  Holds(t)'
<1>1. t.movie \in Movies \/ (t.op = "complete" /\ t.at = "check" /\ t.video = None)
  BY ShapeByOp DEF FileShape
<1>2. HoldsSession(t)'
  <2>1. t.session # None => t.session \in DOMAIN session /\ t.session \in DOMAIN session'
    BY DEF Holds, HoldsSession, World
  <2>2. ASSUME t.op = "complete", t.at # "check"
        PROVE  /\ session'[t.session] = None => movie'[t.movie] = None
               /\ session'[t.session] # None => session'[t.session].file.movie = t.movie
    <3>1. t.session # None /\ t.movie \in Movies
      BY <1>1, <2>2, ShapeByOp DEF FileShape
    <3>2. CASE session[t.session] = None
      BY <2>1, <2>2, <3>1, <3>2 DEF Holds, HoldsSession, World
    <3>3. CASE session[t.session] # None
      BY <2>1, <2>2, <3>1, <3>3 DEF Holds, HoldsSession, World
    <3> QED
      BY <3>2, <3>3
  <2> QED
    BY <2>1, <2>2 DEF HoldsSession
<1>3. HoldsVideo(t)'
  <2> SUFFICES ASSUME t.video # None
               PROVE  /\ t.video \in DOMAIN video'
                      /\ video'[t.video] = None => movie'[t.movie] = None
                      /\ video'[t.video] # None => video'[t.video].movie = t.movie /\ Fits(t, video'[t.video].status)
    BY DEF HoldsVideo, Row
  <2>1. t.movie \in Movies /\ t.video # v /\ t.video \in DOMAIN video
    BY <1>1 DEF Holds, HoldsVideo
  <2>2. CASE video[t.video] = None
    BY <2>1, <2>2 DEF Holds, HoldsVideo, World, Row
  <2>3. CASE video[t.video] # None
    BY <2>1, <2>3 DEF Holds, HoldsVideo, World, Row
  <2> QED
    BY <2>2, <2>3
<1>4. HoldsFiles(t)'
  BY DEF Holds, HoldsFiles, World
<1> QED
  BY <1>2, <1>3, <1>4 DEF Holds

\* The sweep's list stays right while others work: what they add is not a day old.
LEMMA SweptStays ==
  ASSUME IInv, NEW v, World(v), cold' \subseteq cold, DOMAIN chunks \subseteq DOMAIN chunks', task'[Cron] = task[Cron]
  PROVE  Swept'
<1>1. \A i : Dir(i) \in cold' => i \in DOMAIN chunks'
  BY DEF IInv, Swept
<1>2. ASSUME task'[Cron] # None
      PROVE  \A i \in DOMAIN session' : Young(i)' /\ Dir(i) \in cold' =>
                   (Dir(i) \in task'[Cron].todo <=> task'[Cron].at = "list")
  <2>1. ASSUME NEW i \in DOMAIN session', Young(i)', Dir(i) \in cold' PROVE i \in DOMAIN session /\ Young(i)
    <3>1. i \in DOMAIN chunks
      BY <2>1 DEF IInv, Swept
    <3>2. i \in DOMAIN session
      BY <3>1 DEF IInv, Typed
    <3> QED
      BY <2>1, <3>2 DEF World
  <2> QED
    BY <1>2, <2>1 DEF IInv, Swept
<1> QED
  BY <1>1, <1>2 DEF Swept, Dir

\* The row p works on from now on is nobody else's, and a row that is UPLOADING
\* was and is in somebody's hands, or its request broke off.
Free(p, u) == u # None /\ u.video # None => \A q \in Procs \ {p} : task[q] # None => task[q].video # u.video
StillWorkedOn(p, u) ==
    \A w \in DOMAIN video' : video'[w] # None /\ video'[w].status = "UPLOADING" =>
       \/ w \in stranded' \/ (u # None /\ u.video = w)
       \/ /\ w \in DOMAIN video /\ video[w] # None /\ video[w].status = "UPLOADING"
          /\ task[p] # None => task[p].video # w

LEMMA StepKeeps ==
  ASSUME IInv, NEW p \in Procs, NEW u, NEW v,
         v = None \/ (task[p] # None /\ v = task[p].video), World(v),
         Typed', RowsHaveTitles', cold' \subseteq cold, DOMAIN chunks \subseteq DOMAIN chunks',
         task' = [task EXCEPT ![p] = u],
         u = None \/ (Shape(u) /\ Holds(u)'),
         active' = (active \ ClaimsOf(task[p])) \cup ClaimsOf(u),
         Free(p, u),
         StillWorkedOn(p, u),
         stranded \subseteq stranded'
  PROVE  IInv'
<1>1. /\ p \in DOMAIN task /\ task'[p] = u /\ Cron # p /\ task'[Cron] = task[Cron]
      /\ \A q \in Procs \ {p} : task'[q] = task[q]
  BY CronIsNoRequest DEF IInv, Typed, Workers
<1>2. \A q \in Procs \ {p} : task[q] # None => task[q].video # v \/ task[q].video = None
  BY DEF IInv, Exclusive
<1>3. Described'
  <2> SUFFICES ASSUME NEW q \in Procs, NEW t, t = task'[q], t # None PROVE Shape(t) /\ Holds(t)'
    BY DEF Described, Holds, HoldsSession, HoldsVideo, HoldsFiles
  <2>1. CASE q = p
    BY <1>1, <2>1
  <2>2. CASE q # p
    <3>1. task[q] = t /\ Shape(task[q]) /\ Holds(task[q])
      BY <1>1, <2>2, Context
    <3>2. Shape(t) /\ Holds(t) /\ (t.video # v \/ t.video = None)
      BY <1>2, <2>2, <3>1
    <3> QED
      BY <3>2, HoldsStays
  <2> QED
    BY <2>1, <2>2
<1>4. Exclusive'
  <2> SUFFICES ASSUME NEW q \in Procs, NEW r \in Procs, q # r, task'[q] # None, task'[r] # None, task'[q].video # None
               PROVE  task'[q].video # task'[r].video
    BY DEF Exclusive
  <2>1. CASE q = p
    BY <1>1, <2>1 DEF Free
  <2>2. CASE r = p
    BY <1>1, <2>2 DEF Free
  <2>3. CASE q # p /\ r # p
    BY <1>1, <2>3 DEF IInv, Exclusive
  <2> QED
    BY <2>1, <2>2, <2>3
<1>5. ClaimIsHeld'
  <2>1. \A q \in Procs : Claims(q)' = ClaimsOf(task'[q])
    <3> TAKE q \in Procs
    <3>1. task'[q] # None /\ (task'[q].op = "run" \/ At(q, "reprocess", "fetch")')
            <=> task'[q] # None /\ (task'[q].op = "run" \/ (task'[q].op = "reprocess" /\ task'[q].at = "fetch"))
      BY DEF At
    <3> QED
      BY <3>1 DEF Claims, ClaimsOf
  <2>2. active = UNION {ClaimsOf(task[q]) : q \in Procs}
    BY ClaimsOfTask DEF IInv, ClaimIsHeld
  <2>3. \A q \in Procs \ {p} : ClaimsOf(task[q]) \cap ClaimsOf(task[p]) = {}
    <3> SUFFICES ASSUME NEW q \in Procs \ {p}, NEW w, w \in ClaimsOf(task[q]), w \in ClaimsOf(task[p]) PROVE FALSE
      OBVIOUS
    <3>1. task[q] # None /\ task[p] # None /\ w = task[q].video /\ w = task[p].video
      BY DEF ClaimsOf
    <3>2. task[q].op \in {"run", "reprocess"} /\ (task[q].op = "reprocess" => task[q].at = "fetch") /\ Shape(task[q])
      BY <3>1, Context DEF ClaimsOf
    <3>3. task[q].video # None
      BY <3>2, ShapeByOp DEF RunShape
    <3> QED
      BY <3>1, <3>3 DEF IInv, Exclusive
  <2>4. active' = UNION {ClaimsOf(task'[q]) : q \in Procs}
    <3>1. ASSUME NEW w \in active' PROVE \E q \in Procs : w \in ClaimsOf(task'[q])
      BY <1>1, <2>2
    <3>2. ASSUME NEW q \in Procs, NEW w \in ClaimsOf(task'[q]) PROVE w \in active'
      <4>1. CASE q = p
        BY <1>1, <3>2, <4>1
      <4>2. CASE q # p
        BY <1>1, <2>2, <2>3, <3>2, <4>2
      <4> QED
        BY <4>1, <4>2
    <3> QED
      BY <3>1, <3>2
  <2> QED
    BY <2>1, <2>4 DEF ClaimIsHeld
<1>6. UploadingIsWorkedOn'
  <2> SUFFICES ASSUME NEW w \in DOMAIN video', video'[w] # None, video'[w].status = "UPLOADING", w \notin stranded'
               PROVE  \E q \in Procs : task'[q] # None /\ task'[q].video = w
    BY DEF UploadingIsWorkedOn, Row
  <2> w \notin stranded
    OBVIOUS
  <2>1. CASE u # None /\ u.video = w
    BY <1>1, <2>1
  <2>2. CASE /\ w \in DOMAIN video /\ video[w] # None /\ video[w].status = "UPLOADING"
             /\ task[p] # None => task[p].video # w
    <3>1. PICK q \in Procs : task[q] # None /\ task[q].video = w
      BY <2>2 DEF IInv, UploadingIsWorkedOn, Row
    <3> QED
      BY <1>1, <2>2, <3>1
  <2> QED
    BY <2>1, <2>2 DEF StillWorkedOn
<1>7. Swept'
  BY <1>1, SweptStays
<1> QED
  BY <1>3, <1>4, <1>5, <1>6, <1>7 DEF IInv

LEMMA HoldsSame ==
  ASSUME NEW t, Holds(t), UNCHANGED <<tables, store>>
  PROVE  Holds(t)'
BY DEF Holds, HoldsSession, HoldsVideo, HoldsFiles, Row, tables

\* A step that changes no row: it may add objects, and remove those of a title
\* that is gone.
LEMMA DiskStep ==
  ASSUME IInv, NEW p \in Procs, NEW u,
         UNCHANGED tables, stranded' = stranded, cold' \subseteq cold,
         store' \in [Movies -> SUBSET Assets],
         \A m \in Movies : movie[m] # None => store[m] \subseteq store'[m],
         chunks' \in Seq({None} \cup SUBSET Chunks), Len(chunks') = Len(chunks),
         scratch' \in [Movies -> SUBSET {"input", "tier"}],
         task' = [task EXCEPT ![p] = u],
         u = None \/ (Shape(u) /\ Holds(u)'),
         active' = (active \ ClaimsOf(task[p])) \cup ClaimsOf(u),
         u # None /\ u.video # None =>
            \/ task[p] # None /\ u.video = task[p].video
            \/ \A q \in Procs \ {p} : task[q] # None => task[q].video # u.video,
         task[p] # None /\ task[p].video # None /\ video[task[p].video] # None /\ video[task[p].video].status = "UPLOADING"
            => u # None /\ u.video = task[p].video
  PROVE  IInv'
<1>1. UNCHANGED <<movie, video, session>>
  BY DEF tables
<1>2. World(None)
  BY <1>1 DEF World, Young, InProgress, IInv, RowsHaveTitles
<1>3. Typed'
  <2>1. u \in Request \cup {None}
    BY ShapeByOp
  <2>2. task' \in [Workers -> Request \cup SweepTask \cup {None}] /\ task'[Cron] \in SweepTask \cup {None}
    BY <2>1, CronIsNoRequest DEF IInv, Typed, Workers
  <2> QED
    BY <1>1, <2>2 DEF IInv, Typed
<1>4. RowsHaveTitles'
  BY <1>1 DEF IInv, RowsHaveTitles, Row
<1>5. DOMAIN chunks \subseteq DOMAIN chunks'
  BY DEF IInv, Typed
<1>6. Free(p, u)
  BY DEF IInv, Exclusive, Free
<1>7. StillWorkedOn(p, u)
  <2> SUFFICES ASSUME NEW w \in DOMAIN video, video[w] # None, video[w].status = "UPLOADING",
                      task[p] # None, task[p].video = w
               PROVE  u # None /\ u.video = w
    BY <1>1 DEF StillWorkedOn
  <2>1. w # None
    BY NoneIsNoValue DEF IInv, Typed
  <2> QED
    BY <2>1
<1> QED
  BY <1>2, <1>3, <1>4, <1>5, <1>6, <1>7, StepKeeps

\* The request goes on, or ends, and nothing else happens.
LEMMA QuietStep ==
  ASSUME IInv, NEW p \in Procs, NEW u,
         UNCHANGED <<tables, store, disk, stranded>>,
         task' = [task EXCEPT ![p] = u],
         u = None \/ (Shape(u) /\ Holds(u)),
         active' = (active \ ClaimsOf(task[p])) \cup ClaimsOf(u),
         u # None /\ u.video # None =>
            \/ task[p] # None /\ u.video = task[p].video
            \/ \A q \in Procs \ {p} : task[q] # None => task[q].video # u.video,
         task[p] # None /\ task[p].video # None /\ video[task[p].video] # None /\ video[task[p].video].status = "UPLOADING"
            => u # None /\ u.video = task[p].video
  PROVE  IInv'
<1>1. u = None \/ (Shape(u) /\ Holds(u)')
  BY HoldsSame
<1>2. UNCHANGED tables /\ stranded' = stranded /\ store' = store /\ chunks' = chunks /\ scratch' = scratch /\ cold' = cold
  BY DEF disk
<1>3. /\ store' \in [Movies -> SUBSET Assets] /\ \A m \in Movies : movie[m] # None => store[m] \subseteq store'[m]
      /\ chunks' \in Seq({None} \cup SUBSET Chunks) /\ Len(chunks') = Len(chunks)
      /\ scratch' \in [Movies -> SUBSET {"input", "tier"}]
  BY <1>2 DEF IInv, Typed
<1> QED
  BY <1>1, <1>2, <1>3, DiskStep

\* A request is let in.
LEMMA AskKeeps ==
  ASSUME IInv, NEW p \in Procs, NEW op, NEW at, NEW m, NEW i, NEW todo, Ask(p, op, at, m, i, todo),
         Shape([op |-> op, at |-> at, movie |-> m, session |-> i, todo |-> todo, video |-> None, seen |-> None]),
         Holds([op |-> op, at |-> at, movie |-> m, session |-> i, todo |-> todo, video |-> None, seen |-> None]),
         ~(op = "run"), ~(op = "reprocess" /\ at = "fetch")
  PROVE  IInv'
<1> DEFINE u == [op |-> op, at |-> at, movie |-> m, session |-> i, todo |-> todo, video |-> None, seen |-> None]
<1>1. task[p] = None /\ task' = [task EXCEPT ![p] = u] /\ UNCHANGED <<tables, store, disk, stranded>> /\ active' = active
  BY DEF Ask, Proceed
<1>2. Shape(u) /\ Holds(u) /\ u.video = None /\ ClaimsOf(u) = {}
  BY DEF ClaimsOf
<1>3. ClaimsOf(task[p]) = {}
  BY <1>1 DEF ClaimsOf
<1> HIDE DEF u
<1> QED
  BY <1>1, <1>2, <1>3, QuietStep

\* The request goes on with the row it has, ...
LEMMA GoesOn ==
  ASSUME IInv, NEW p \in Procs, NEW u, task[p] # None,
         UNCHANGED <<tables, store, disk, active, stranded>>, task' = [task EXCEPT ![p] = u],
         Shape(u), Holds(u), u.video = task[p].video, ClaimsOf(u) = ClaimsOf(task[p])
  PROVE  IInv'
<1>1. ClaimsOf(task[p]) \subseteq active
  BY ClaimsOfTask DEF IInv, ClaimIsHeld
<1>2. u # None
  BY ShapeByOp
<1> QED
  BY <1>1, <1>2, QuietStep

\* ... or ends, giving back its claim.
LEMMA Ends ==
  ASSUME IInv, NEW p \in Procs, task[p] # None,
         UNCHANGED <<tables, store, disk, stranded>>, End(p),
         active' = active \ ClaimsOf(task[p]),
         task[p].video # None => video[task[p].video] = None \/ video[task[p].video].status # "UPLOADING"
  PROVE  IInv'
<1>1. task' = [task EXCEPT ![p] = None] /\ ClaimsOf(None) = {}
  BY DEF End, Proceed, ClaimsOf
<1> QED
  BY <1>1, QuietStep

\* A step no request takes.
LEMMA OutsideStep ==
  ASSUME IInv, World(None), Typed', RowsHaveTitles', cold' \subseteq cold, DOMAIN chunks \subseteq DOMAIN chunks',
         UNCHANGED <<task, active, stranded>>,
         \A w \in DOMAIN video' : video'[w] # None /\ video'[w].status = "UPLOADING" =>
            w \in DOMAIN video /\ video[w] # None /\ video[w].status = "UPLOADING"
  PROVE  IInv'
<1>1. CASE Procs = {}
  <2>1. Described' /\ Exclusive' /\ ClaimIsHeld'
    BY <1>1 DEF Described, Exclusive, IInv, ClaimIsHeld
  <2>2. UploadingIsWorkedOn'
    BY <1>1 DEF IInv, UploadingIsWorkedOn, Row
  <2>3. Swept'
    BY SweptStays
  <2> QED
    BY <2>1, <2>2, <2>3 DEF IInv
<1>2. ASSUME NEW p \in Procs PROVE IInv'
  <2> PICK u : u = task[p]
    OBVIOUS
  <2>1. task' = [task EXCEPT ![p] = u]
    BY DEF IInv, Typed
  <2>2. u = None \/ (Shape(u) /\ Holds(u)')
    <3> SUFFICES ASSUME u # None PROVE Shape(u) /\ Holds(u)'
      OBVIOUS
    <3>1. Shape(u) /\ Holds(u)
      BY Context
    <3>2. u.video # None => u.video \in DOMAIN video /\ u.video # None
      BY <3>1 DEF Holds, HoldsVideo
    <3>3. World(None)
      OBVIOUS
    <3> QED
      BY <3>1, <3>2, <3>3, HoldsStays
  <2>3. active' = (active \ ClaimsOf(task[p])) \cup ClaimsOf(u)
    <3>1. ClaimsOf(task[p]) \subseteq active
      BY ClaimsOfTask DEF IInv, ClaimIsHeld
    <3> QED
      BY <3>1
  <2>4. Free(p, u)
    BY DEF IInv, Exclusive, Free
  <2>5. StillWorkedOn(p, u)
    BY DEF StillWorkedOn
  <2> QED
    BY <2>1, <2>2, <2>3, <2>4, <2>5, StepKeeps
<1> QED
  BY <1>1, <1>2

-----------------------------------------------------------------------------
(* Chunked uploads *)

LEMMA FileOfIs == ASSUME NEW p, NEW f, task[p].todo = {f} PROVE FileOf(p) = f
BY DEF FileOf

LEMMA OneFile ==
  ASSUME IInv, NEW p \in Procs, task[p] # None, task[p].op = "init" \/ (task[p].op = "complete" /\ task[p].at # "check")
  PROVE  LET f == FileOf(p)
         IN  /\ f \in Files /\ f.movie = task[p].movie /\ f.asset \in Assets \cup {None}
             /\ task[p].todo = {f}
             /\ task[p].at = "put" => f.asset # None
             /\ task[p].at \in {"create", "start"} => f.asset = None
             /\ task[p].video # None <=> task[p].at \in {"close", "clean", "start"} /\ f.asset = None
<1>1. FileShape(task[p])
  BY Context, ShapeByOp
<1>2. PICK f \in Files :
             /\ task[p].todo = {f} /\ f.movie = task[p].movie
             /\ task[p].at = "put" => f.asset # None
             /\ task[p].at \in {"create", "start"} => f.asset = None
             /\ task[p].video # None <=> task[p].at \in {"close", "clean", "start"} /\ f.asset = None
  BY <1>1 DEF FileShape
<1>3. FileOf(p) = f
  BY <1>2, FileOfIs
<1>4. f.asset \in Assets \cup {None}
  BY FilesKnown
<1> QED
  BY <1>2, <1>3, <1>4

LEMMA AskInitKeeps ==
  ASSUME IInv, NEW p \in Procs, NEW f \in Files, AskInit(p, f)
  PROVE  IInv'
<1> DEFINE u == [op |-> "init", at |-> "find", movie |-> f.movie, session |-> None, todo |-> {f}, video |-> None, seen |-> None]
<1>1. f.movie \in Movies
  BY FilesKnown
<1>2. Shape(u)
  <2>1. u \in FileTask
    BY <1>1 DEF FileTask, TaskOver
  <2>2. FileShape(u)
    BY <1>1 DEF FileShape
  <2> QED
    BY <2>1, <2>2 DEF Shape
<1>3. Holds(u)
  BY DEF Holds, HoldsSession, HoldsVideo, HoldsFiles, Promised
<1> QED
  BY <1>2, <1>3, AskKeeps DEF AskInit

LEMMA FindSessionKeeps ==
  ASSUME IInv, NEW p \in Procs, FindSession(p)
  PROVE  IInv'
<1> DEFINE t == task[p]
           found == {i \in DOMAIN session : InProgress(i) /\ session[i].file = FileOf(p)}
           s == CHOOSE i \in found : \A j \in found : j <= i
<1>1. /\ t # None /\ t.op = "init" /\ t.at = "find" /\ Shape(t) /\ Holds(t) /\ t \in FileTask /\ FileShape(t)
      /\ UNCHANGED <<tables, store, disk, active, stranded>>
  BY Context, ShapeByOp DEF FindSession, At, Past
<1>2. CASE found = {}
  <2> DEFINE u == [t EXCEPT !.at = "insert"]
  <2>1. task' = [task EXCEPT ![p] = u]
    BY <1>2 DEF FindSession, Goto, Proceed
  <2>2. Shape(u) /\ u.video = t.video /\ ClaimsOf(u) = ClaimsOf(t)
    BY <1>1 DEF Shape, FileShape, FileTask, TaskOver, ClaimsOf
  <2>3. Holds(u)
    BY <1>1 DEF Holds, HoldsSession, HoldsVideo, HoldsFiles, Promised, Fits, FileTask, TaskOver
  <2> HIDE DEF u
  <2> QED
    BY <1>1, <2>1, <2>2, <2>3, GoesOn
<1>3. CASE found # {}
  <2> DEFINE u == [t EXCEPT !.at = "resume", !.session = s]
  <2>1. task' = [task EXCEPT ![p] = u]
    BY <1>3 DEF FindSession, Proceed
  <2>2. s \in DOMAIN session /\ s \in Nat
    <3>1. found \subseteq Nat /\ Len(session) \in Nat /\ \A x \in found : x <= Len(session)
      BY DEF IInv, Typed
    <3>2. \E x \in found : \A y \in found : y <= x
      BY <1>3, <3>1, NewestExists
    <3> QED
      BY <3>1, <3>2
  <2> HIDE DEF s
  <2>3. Shape(u) /\ u.video = t.video /\ ClaimsOf(u) = ClaimsOf(t)
    BY <1>1, <2>2, NoneIsNoValue DEF Shape, FileShape, FileTask, TaskOver, ClaimsOf
  <2>4. Holds(u)
    BY <1>1, <2>2 DEF Holds, HoldsSession, HoldsVideo, HoldsFiles, Promised, Fits, FileTask, TaskOver
  <2> HIDE DEF u
  <2> QED
    BY <1>1, <2>1, <2>3, <2>4, GoesOn
<1> QED
  BY <1>2, <1>3

LEMMA ResumeKeeps ==
  ASSUME IInv, NEW p \in Procs, Resume(p)
  PROVE  IInv'
<1>1. /\ task[p] # None /\ task[p].video = None /\ ClaimsOf(task[p]) = {}
      /\ End(p) /\ UNCHANGED <<tables, store, disk, active, stranded>>
  BY Context, ShapeByOp DEF Resume, At, Past, FileShape, ClaimsOf
<1> QED
  BY <1>1, Ends

LEMMA InsertSessionKeeps ==
  ASSUME IInv, NEW p \in Procs, InsertSession(p)
  PROVE  IInv'
<1> DEFINE t == task[p]
           row == [file |-> FileOf(p), status |-> "IN_PROGRESS", age |-> 0]
<1>1. /\ t # None /\ t.op = "init" /\ t.at = "insert" /\ Shape(t) /\ Holds(t) /\ t \in FileTask /\ FileShape(t)
      /\ t.movie \in Movies /\ t.video = None /\ ClaimsOf(t) = {}
      /\ UNCHANGED <<movie, video, store, scratch, cold, active, stranded>>
  BY Context, ShapeByOp DEF InsertSession, At, Past, FileShape, ClaimsOf
<1>2. CASE movie[t.movie] = None
  <2>1. End(p) /\ UNCHANGED <<tables, store, disk, stranded>> /\ active' = active
    BY <1>1, <1>2 DEF InsertSession, tables, disk
  <2> QED
    BY <1>1, <2>1, Ends
<1>3. CASE movie[t.movie] # None
  <2>1. /\ session' = Append(session, row) /\ chunks' = Append(chunks, None)
        /\ task' = [task EXCEPT ![p] = [t EXCEPT !.at = "dir", !.session = Len(session')]]
    BY <1>3 DEF InsertSession, Proceed
  <2>2. row \in Session
    BY <1>1, OneFile DEF Session
  <2> HIDE DEF row
  <2>3. /\ Len(session) \in Nat /\ Len(session') = Len(session) + 1 /\ session' \in Seq(Session \cup {None})
        /\ \A i \in DOMAIN session : i \in DOMAIN session' /\ session'[i] = session[i]
        /\ Len(chunks') = Len(session') /\ chunks' \in Seq({None} \cup SUBSET Chunks) /\ DOMAIN chunks \subseteq DOMAIN chunks'
        /\ Len(session') \in DOMAIN session'
    BY <2>1, <2>2 DEF IInv, Typed
  <2> PICK n \in Nat : n = Len(session')
    BY <2>3
  <2> PICK u : u = [t EXCEPT !.at = "dir", !.session = n]
    OBVIOUS
  <2>4. World(None)
    BY <1>1, <2>3 DEF World, Young, InProgress
  <2>5. Shape(u)
    BY <1>1, NoneIsNoValue DEF Shape, FileShape, FileTask, TaskOver
  <2>6. u.session = n /\ u.op = "init" /\ u.movie = t.movie /\ u.video = None /\ ClaimsOf(u) = {}
    BY <1>1 DEF FileTask, TaskOver, ClaimsOf
  <2>7. Holds(u)'
    BY <2>3, <2>5, <2>6 DEF Holds, HoldsSession, HoldsVideo, HoldsFiles, Promised
  <2>8. Typed'
    <3>1. u \in Request
      BY <2>5, ShapeByOp
    <3>2. task' \in [Workers -> Request \cup SweepTask \cup {None}] /\ task'[Cron] \in SweepTask \cup {None}
      BY <2>1, <3>1, CronIsNoRequest DEF IInv, Typed, Workers
    <3> QED
      BY <1>1, <2>3, <3>2 DEF IInv, Typed
  <2>9. RowsHaveTitles' /\ Free(p, u) /\ StillWorkedOn(p, u)
    BY <1>1, <2>6, NoneIsNoValue DEF IInv, Typed, RowsHaveTitles, Row, Free, StillWorkedOn
  <2> QED
    BY <1>1, <2>1, <2>3, <2>4, <2>5, <2>6, <2>7, <2>8, <2>9, StepKeeps
<1> QED
  BY <1>2, <1>3

LEMMA MakeDirKeeps ==
  ASSUME IInv, NEW p \in Procs, MakeDir(p)
  PROVE  IInv'
<1> DEFINE t == task[p]
<1>1. /\ t # None /\ t.video = None /\ ClaimsOf(t) = {} /\ ClaimsOf(None) = {} /\ t.session \in DOMAIN session
      /\ UNCHANGED <<tables, store, scratch, cold, active, stranded>>
      /\ task' = [task EXCEPT ![p] = None] /\ chunks' = [chunks EXCEPT ![t.session] = {}]
  BY Context, ShapeByOp DEF MakeDir, At, Past, FileShape, ClaimsOf, Holds, HoldsSession, End, Proceed
<1>2. chunks' \in Seq({None} \cup SUBSET Chunks) /\ Len(chunks') = Len(chunks)
  BY <1>1 DEF IInv, Typed
<1>3. store' \in [Movies -> SUBSET Assets] /\ scratch' \in [Movies -> SUBSET {"input", "tier"}]
  BY <1>1 DEF IInv, Typed
<1> QED
  BY <1>1, <1>2, <1>3, DiskStep

LEMMA SaveChunkKeeps ==
  ASSUME IInv, NEW i \in DOMAIN session, NEW c \in Chunks, SaveChunk(i, c)
  PROVE  IInv'
<1>1. /\ UNCHANGED <<movie, video, session, store, scratch, task, active, stranded>> /\ cold' \subseteq cold
      /\ chunks[i] # None /\ chunks' = [chunks EXCEPT ![i] = chunks[i] \cup {c}]
  BY DEF SaveChunk, tables, Past
<1>2. /\ i \in DOMAIN chunks /\ chunks[i] \cup {c} \in SUBSET Chunks
      /\ chunks' \in Seq({None} \cup SUBSET Chunks) /\ Len(chunks') = Len(chunks) /\ DOMAIN chunks' = DOMAIN chunks
  BY <1>1 DEF IInv, Typed
<1>3. Typed' /\ RowsHaveTitles'
  BY <1>1, <1>2 DEF IInv, Typed, RowsHaveTitles, Row
<1>4. World(None)
  BY <1>1 DEF World, Young, InProgress, IInv, RowsHaveTitles
<1> QED
  BY <1>1, <1>2, <1>3, <1>4, OutsideStep

LEMMA AskCompleteKeeps ==
  ASSUME IInv, NEW p \in Procs, NEW i \in DOMAIN session, AskComplete(p, i)
  PROVE  IInv'
<1> DEFINE u == [op |-> "complete", at |-> "check", movie |-> None, session |-> i, todo |-> {}, video |-> None, seen |-> None]
<1>1. Shape(u)
  <2>1. i \in Nat /\ i # None
    BY NoneIsNoValue DEF IInv, Typed
  <2>2. u \in FileTask
    BY <2>1 DEF FileTask, TaskOver
  <2>3. FileShape(u)
    BY <2>1 DEF FileShape
  <2> QED
    BY <2>2, <2>3 DEF Shape
<1>2. Holds(u)
  BY DEF Holds, HoldsSession, HoldsVideo, HoldsFiles, Promised
<1> QED
  BY <1>1, <1>2, AskKeeps DEF AskComplete

LEMMA CheckChunksKeeps ==
  ASSUME IInv, NEW p \in Procs, CheckChunks(p)
  PROVE  IInv'
<1> DEFINE t == task[p]
           i == t.session
<1>1. /\ t # None /\ t.op = "complete" /\ t.at = "check" /\ Shape(t) /\ Holds(t) /\ t \in FileTask /\ FileShape(t)
      /\ t.video = None /\ ClaimsOf(t) = {} /\ t.session # None
      /\ UNCHANGED <<tables, store, disk, active, stranded>>
  BY Context, ShapeByOp DEF CheckChunks, At, Past, FileShape, ClaimsOf
<1>2. CASE ~(InProgress(i) /\ chunks[i] = Chunks)
  <2>1. End(p)
    BY <1>2 DEF CheckChunks
  <2> QED
    BY <1>1, <2>1, Ends
<1>3. CASE InProgress(i) /\ chunks[i] = Chunks
  <2> DEFINE f == session[i].file
             u == [t EXCEPT !.at = "merge", !.movie = f.movie, !.todo = {f}]
  <2>1. task' = [task EXCEPT ![p] = u]
    BY <1>3 DEF CheckChunks, Proceed
  <2>2. i \in DOMAIN session /\ session[i] # None /\ f \in Files /\ f.movie \in Movies
    <3>1. i \in DOMAIN session /\ session[i] # None
      BY <1>1, <1>3 DEF InProgress, Holds, HoldsSession
    <3>2. session[i] \in Session
      BY <3>1 DEF IInv, Typed
    <3> QED
      BY <3>1, <3>2, FilesKnown DEF Session
  <2>3. /\ u.op = "complete" /\ u.at = "merge" /\ u.movie = f.movie /\ u.session = i /\ u.todo = {f} /\ u.video = None
        /\ u \in FileTask
    BY <1>1, <2>2 DEF FileTask, TaskOver
  <2> HIDE DEF u
  <2>4. FileShape(u)
    BY <1>1, <2>2, <2>3 DEF FileShape
  <2>5. Holds(u)
    BY <2>2, <2>3 DEF Holds, HoldsSession, HoldsVideo, HoldsFiles, Promised
  <2>6. ClaimsOf(u) = {}
    BY <2>3 DEF ClaimsOf
  <2> QED
    BY <1>1, <2>1, <2>3, <2>4, <2>5, <2>6, GoesOn DEF Shape
<1> QED
  BY <1>2, <1>3

\* An upload that is being completed goes on to its next step.
LEMMA CompleteGoesOn ==
  ASSUME IInv, NEW p \in Procs, NEW at,
         task[p] # None, task[p].op = "complete", task[p].at # "check",
         at \in {"put", "create", "close", "clean", "start"},
         at = "put" => FileOf(p).asset # None,
         at \in {"create", "start"} => FileOf(p).asset = None,
         task[p].video # None <=> at \in {"close", "clean", "start"} /\ FileOf(p).asset = None
  PROVE  LET u == [task[p] EXCEPT !.at = at]
         IN  /\ Shape(u) /\ Holds(u) /\ u.video = task[p].video /\ u.movie = task[p].movie /\ u.session = task[p].session
             /\ u.op = "complete" /\ u.at = at /\ ClaimsOf(u) = {} /\ ClaimsOf(task[p]) = {}
<1> DEFINE t == task[p]
           u == [t EXCEPT !.at = at]
<1>1. /\ Shape(t) /\ Holds(t) /\ t \in FileTask /\ FileShape(t) /\ t.movie \in Movies
  BY Context, ShapeByOp DEF FileShape
<1>2. /\ u.op = "complete" /\ u.at = at /\ u.movie = t.movie /\ u.session = t.session /\ u.todo = t.todo /\ u.video = t.video
      /\ u \in FileTask
  BY <1>1 DEF FileTask, TaskOver
<1>3. FileOf(p) \in Files /\ FileOf(p).movie = t.movie /\ t.todo = {FileOf(p)}
  BY OneFile
<1> HIDE DEF u
<1>4. FileShape(u)
  BY <1>1, <1>2, <1>3 DEF FileShape
<1>5. Holds(u)
  BY <1>1, <1>2 DEF Holds, HoldsSession, HoldsVideo, HoldsFiles, Promised, Fits
<1>6. ClaimsOf(u) = {} /\ ClaimsOf(t) = {}
  BY <1>2 DEF ClaimsOf
<1> QED
  BY <1>2, <1>4, <1>5, <1>6 DEF Shape, u

LEMMA MergeKeeps ==
  ASSUME IInv, NEW p \in Procs, Merge(p)
  PROVE  IInv'
<1> DEFINE t == task[p]
           f == FileOf(p)
<1>1. /\ t # None /\ t.op = "complete" /\ t.at = "merge" /\ t.movie \in Movies
      /\ UNCHANGED <<tables, store, chunks, active, stranded>>
  BY Context, ShapeByOp DEF Merge, At, Past, FileShape
<1>2. t.video = None /\ ClaimsOf(t) = {}
  BY <1>1, OneFile DEF ClaimsOf
<1>3. CASE chunks[t.session] # Chunks
  <2>1. End(p) /\ UNCHANGED disk
    BY <1>1, <1>3 DEF Merge, disk
  <2> QED
    BY <1>1, <1>2, <2>1, Ends
<1>4. CASE chunks[t.session] = Chunks /\ f.asset # None
  <2> DEFINE u == [t EXCEPT !.at = "put"]
  <2>1. task' = [task EXCEPT ![p] = u] /\ UNCHANGED disk
    BY <1>1, <1>4 DEF Merge, Goto, Proceed, disk
  <2>2. Shape(u) /\ Holds(u) /\ u.video = t.video /\ ClaimsOf(u) = ClaimsOf(t)
    BY <1>1, <1>2, <1>4, CompleteGoesOn
  <2> QED
    BY <1>1, <2>1, <2>2, GoesOn
<1>5. CASE chunks[t.session] = Chunks /\ f.asset = None
  <2> PICK u : u = [t EXCEPT !.at = "create"]
    OBVIOUS
  <2>1. /\ task' = [task EXCEPT ![p] = u] /\ scratch' = [scratch EXCEPT ![t.movie] = scratch[t.movie] \cup {"input"}]
        /\ cold' \subseteq cold
    BY <1>5 DEF Merge, Goto, Proceed
  <2>2. Shape(u) /\ Holds(u) /\ u.video = None /\ ClaimsOf(u) = {}
    BY <1>1, <1>2, <1>5, CompleteGoesOn
  <2>3. Holds(u)'
    BY <1>1, <2>2, HoldsSame
  <2>4. /\ scratch' \in [Movies -> SUBSET {"input", "tier"}] /\ store' \in [Movies -> SUBSET Assets]
        /\ chunks' \in Seq({None} \cup SUBSET Chunks)
    BY <1>1, <2>1 DEF IInv, Typed
  <2> QED
    BY <1>1, <1>2, <2>1, <2>2, <2>3, <2>4, DiskStep
<1> QED
  BY <1>3, <1>4, <1>5

LEMMA PutMergedKeeps ==
  ASSUME IInv, NEW p \in Procs, PutMerged(p)
  PROVE  IInv'
<1> DEFINE t == task[p]
           f == FileOf(p)
<1>1. /\ t # None /\ t.op = "complete" /\ t.at = "put" /\ t.movie \in Movies
      /\ UNCHANGED <<tables, chunks, scratch, cold, active, stranded>>
      /\ store' = [store EXCEPT ![t.movie] = store[t.movie] \cup {f.asset}]
  BY Context, ShapeByOp DEF PutMerged, Land, At, FileShape, disk
<1>2. t.video = None /\ ClaimsOf(t) = {} /\ f.asset \in Assets
  BY <1>1, OneFile DEF ClaimsOf
<1> PICK u : u = [t EXCEPT !.at = "close"]
  OBVIOUS
<1>3. task' = [task EXCEPT ![p] = u]
  BY DEF PutMerged, Goto, Proceed
<1>4. f.asset # None
  BY <1>1, OneFile
<1>5. Shape(u) /\ Holds(u) /\ u.video = None /\ ClaimsOf(u) = {} /\ u.op = "complete"
  BY <1>1, <1>2, <1>4, CompleteGoesOn
<1>6. store' \in [Movies -> SUBSET Assets] /\ \A m \in Movies : store[m] \subseteq store'[m]
  BY <1>1, <1>2 DEF IInv, Typed
<1>7. Holds(u)'
  BY <1>1, <1>5, <1>6 DEF Holds, HoldsSession, HoldsVideo, HoldsFiles, Promised, tables
<1>8. /\ chunks' \in Seq({None} \cup SUBSET Chunks) /\ scratch' \in [Movies -> SUBSET {"input", "tier"}]
  BY <1>1 DEF IInv, Typed
<1> QED
  BY <1>1, <1>2, <1>3, <1>5, <1>6, <1>7, <1>8, DiskStep

\* The new row is the request's alone.
LEMMA CreateVideoKeeps ==
  ASSUME IInv, NEW p \in Procs, CreateVideo(p)
  PROVE  IInv'
<1> DEFINE t == task[p]
           m == t.movie
           row == [movie |-> m, status |-> "UPLOADING", renditions |-> {}, archived |-> t.op = "finalize"]
<1>1. /\ t # None /\ t.op \in {"complete", "finalize"} /\ t.at = "create" /\ Shape(t) /\ Holds(t) /\ m \in Movies
      /\ UNCHANGED <<movie, session, store, chunks, scratch, cold, active, stranded>>
  BY Context, ShapeByOp DEF CreateVideo, At, Past, disk
<1>2. t.video = None /\ ClaimsOf(t) = {}
  <2>1. CASE t.op = "complete"
    BY <1>1, <2>1, OneFile DEF ClaimsOf
  <2>2. CASE t.op = "finalize"
    BY <1>1, <2>2, ShapeByOp DEF ClaimsOf, FinalizeShape
  <2> QED
    BY <1>1, <2>1, <2>2
<1>3. CASE movie[m] = None
  <2>1. End(p) /\ UNCHANGED <<tables, store, disk, stranded>> /\ active' = active
    BY <1>1, <1>3 DEF CreateVideo, tables, disk
  <2> QED
    BY <1>1, <1>2, <2>1, Ends
<1>4. CASE movie[m] # None
  <2>1. /\ Len(video) < MaxVideos /\ video' = Append(video, row)
        /\ task' = [task EXCEPT ![p] = [t EXCEPT !.video = Len(video'), !.at = IF t.op = "finalize" THEN "ready" ELSE "close"]]
    BY <1>4 DEF CreateVideo, Proceed
  <2>2. row \in Video /\ row.movie = m /\ row.status = "UPLOADING"
    BY <1>1 DEF Video, VideoStatus
  <2> HIDE DEF row
  <2>3. /\ Len(video) \in Nat /\ Len(video') = Len(video) + 1 /\ video' \in Seq(Video \cup {None})
        /\ \A w \in DOMAIN video : w \in DOMAIN video' /\ video'[w] = video[w]
        /\ Len(video') \in DOMAIN video' /\ Len(video') \notin DOMAIN video /\ video'[Len(video')] = row
        /\ \A w \in DOMAIN video' : w \in DOMAIN video \/ w = Len(video')
    BY <2>1, <2>2 DEF IInv, Typed
  <2> PICK n \in Nat : n = Len(video')
    BY <2>3
  <2> PICK u : u = [t EXCEPT !.video = n, !.at = IF t.op = "finalize" THEN "ready" ELSE "close"]
    OBVIOUS
  <2>4. /\ task' = [task EXCEPT ![p] = u]
        /\ u.op = t.op /\ u.at = (IF t.op = "finalize" THEN "ready" ELSE "close") /\ u.movie = m /\ u.session = t.session
        /\ u.todo = t.todo /\ u.video = n /\ u.seen = t.seen
        /\ t.op = "complete" => u \in FileTask
        /\ t.op = "finalize" => u \in FinalizeTask
    <3>1. CASE t.op = "complete"
      <4>1. t \in FileTask
        BY <1>1, <3>1, ShapeByOp
      <4> QED
        BY <2>1, <3>1, <4>1 DEF FileTask, TaskOver
    <3>2. CASE t.op = "finalize"
      <4>1. t \in FinalizeTask
        BY <1>1, <3>2, ShapeByOp
      <4> QED
        BY <2>1, <3>2, <4>1 DEF FinalizeTask, TaskOver
    <3> QED
      BY <1>1, <3>1, <3>2
  <2>5. n # None /\ row # None
    BY <2>2, NoneIsNoValue
  <2>6. Shape(u)
    <3>1. CASE t.op = "complete"
      <4>1. /\ FileShape(t) /\ FileOf(p) \in Files /\ FileOf(p).movie = m /\ t.todo = {FileOf(p)} /\ FileOf(p).asset = None
        BY <1>1, <3>1, OneFile, ShapeByOp
      <4>2. FileShape(u)
        BY <1>1, <2>4, <2>5, <3>1, <4>1 DEF FileShape
      <4> QED
        BY <2>4, <3>1, <4>2 DEF Shape
    <3>2. CASE t.op = "finalize"
      BY <1>1, <2>4, <2>5, <3>2, ShapeByOp DEF Shape, FinalizeShape
    <3> QED
      BY <1>1, <3>1, <3>2
  <2>7. Holds(u)'
    <3>1. HoldsSession(u)'
      BY <1>1, <2>4 DEF Holds, HoldsSession
    <3>2. HoldsVideo(u)'
      BY <1>1, <2>2, <2>3, <2>4, <2>5 DEF HoldsVideo, Fits, Row
    <3>3. Promised(u) \subseteq Promised(t)
      BY <1>1, <2>4 DEF Promised
    <3>4. HoldsFiles(u)'
      BY <1>1, <2>4, <3>3 DEF Holds, HoldsFiles
    <3> QED
      BY <3>1, <3>2, <3>4 DEF Holds
  <2>8. World(None)
    BY <1>1, <2>3 DEF World, Young, InProgress, IInv, RowsHaveTitles
  <2>9. Typed'
    <3>1. u \in Request
      BY <2>6, ShapeByOp
    <3>2. task' \in [Workers -> Request \cup SweepTask \cup {None}] /\ task'[Cron] \in SweepTask \cup {None}
      BY <2>4, <3>1, CronIsNoRequest DEF IInv, Typed, Workers
    <3> QED
      BY <1>1, <2>1, <2>3, <3>2, BoundIsNatural DEF IInv, Typed
  <2>10. RowsHaveTitles'
    BY <1>1, <1>4, <2>2, <2>3 DEF IInv, RowsHaveTitles, Row
  <2>11. Free(p, u)
    <3> SUFFICES ASSUME NEW q \in Procs \ {p}, task[q] # None PROVE task[q].video # n
      BY <2>4 DEF Free
    <3>1. task[q].video # None => task[q].video \in DOMAIN video
      BY Context DEF Holds, HoldsVideo
    <3> QED
      BY <2>3, <2>5, <3>1
  <2>12. StillWorkedOn(p, u)
    <3> SUFFICES ASSUME NEW w \in DOMAIN video', video'[w] # None, video'[w].status = "UPLOADING", w # n
                 PROVE  /\ w \in DOMAIN video /\ video[w] # None /\ video[w].status = "UPLOADING"
                        /\ task[p].video # w
      BY <1>1, <2>4, ShapeByOp, <2>6 DEF StillWorkedOn
    <3>1. w \in DOMAIN video /\ video[w] = video'[w]
      BY <2>3
    <3>2. w # None
      BY <3>1, NoneIsNoValue DEF IInv, Typed
    <3> QED
      BY <1>2, <3>1, <3>2
  <2>13. ClaimsOf(u) = {}
    BY <1>1, <2>4 DEF ClaimsOf
  <2> QED
    BY <1>1, <1>2, <2>4, <2>6, <2>7, <2>8, <2>9, <2>10, <2>11, <2>12, <2>13, StepKeeps
<1> QED
  BY <1>3, <1>4

\* A row is gone with its title.
LEMMA RowOrTitle ==
  ASSUME IInv, NEW t, Shape(t), Holds(t), t.video # None
  PROVE  /\ t.movie \in Movies /\ t.video \in DOMAIN video
         /\ movie[t.movie] = None <=> video[t.video] = None
         /\ video[t.video] # None => /\ video[t.video] \in Video /\ video[t.video].movie = t.movie
                                     /\ Fits(t, video[t.video].status)
<1>1. t.movie \in Movies
  BY ShapeByOp DEF FileShape
<1> QED
  BY <1>1 DEF Holds, HoldsVideo, IInv, Typed, RowsHaveTitles, Row

LEMMA CloseSessionKeeps ==
  ASSUME IInv, NEW p \in Procs, CloseSession(p)
  PROVE  IInv'
<1> DEFINE t == task[p]
           i == t.session
<1>1. /\ t # None /\ t.op = "complete" /\ t.at = "close" /\ Shape(t) /\ Holds(t) /\ t.movie \in Movies
      /\ UNCHANGED <<movie, video, store, chunks, scratch, cold, active, stranded>>
  BY Context, ShapeByOp DEF CloseSession, At, Past, FileShape, disk
<1>2. ClaimsOf(t) = {} /\ i \in DOMAIN session
  BY <1>1, ShapeByOp DEF ClaimsOf, Holds, HoldsSession, FileShape
<1>3. CASE session[i] = None
  <2>1. End(p) /\ UNCHANGED <<tables, store, disk, stranded>> /\ active' = active
    BY <1>1, <1>3 DEF CloseSession, tables, disk
  <2>2. movie[t.movie] = None
    BY <1>1, <1>3 DEF Holds, HoldsSession
  <2>3. t.video # None => video[t.video] = None
    BY <1>1, <2>2, RowOrTitle
  <2> QED
    BY <1>1, <1>2, <2>1, <2>3, Ends
<1>4. CASE session[i] # None
  <2>1. /\ session' = [session EXCEPT ![i].status = "COMPLETED"]
        /\ task' = [task EXCEPT ![p] = [t EXCEPT !.at = "clean"]]
    BY <1>4 DEF CloseSession, Goto, Proceed
  <2> PICK u : u = [t EXCEPT !.at = "clean"]
    OBVIOUS
  <2>2. t.video # None <=> FileOf(p).asset = None
    BY <1>1, OneFile
  <2>3. /\ Shape(u) /\ Holds(u) /\ u.video = t.video /\ u.movie = t.movie /\ u.session = i /\ u.op = "complete" /\ u.at = "clean"
        /\ ClaimsOf(u) = {}
    BY <1>1, <2>2, CompleteGoesOn
  <2>4. session[i] \in Session /\ [session[i] EXCEPT !.status = "COMPLETED"] \in Session
    <3>1. session \in Seq(Session \cup {None})
      BY DEF IInv, Typed
    <3>2. session[i] \in Session
      BY <1>2, <1>4, <3>1
    <3> QED
      BY <3>2 DEF Session
  <2>5. /\ session' \in Seq(Session \cup {None}) /\ Len(session') = Len(session) /\ DOMAIN session' = DOMAIN session
        /\ \A j \in DOMAIN session : j # i => session'[j] = session[j]
        /\ session'[i] = [session[i] EXCEPT !.status = "COMPLETED"]
    BY <1>2, <2>1, <2>4 DEF IInv, Typed
  <2>6. session'[i].file = session[i].file /\ session'[i].status = "COMPLETED" /\ session'[i] # None
    BY <2>4, <2>5, NoneIsNoValue DEF Session
  <2>7. World(None)
    BY <1>1, <1>4, <2>5, <2>6 DEF World, Young, InProgress, IInv, RowsHaveTitles
  <2>8. Holds(u)'
    <3>1. t.video = u.video /\ (u.video # None => u.video \in DOMAIN video /\ u.video # None)
      BY <2>3 DEF Holds, HoldsVideo
    <3> QED
      BY <2>3, <2>7, <3>1, HoldsStays
  <2>9. Typed'
    <3>1. u \in Request
      BY <2>3, ShapeByOp
    <3>2. task' \in [Workers -> Request \cup SweepTask \cup {None}] /\ task'[Cron] \in SweepTask \cup {None}
      BY <2>1, <3>1, CronIsNoRequest DEF IInv, Typed, Workers
    <3> QED
      BY <1>1, <2>5, <3>2 DEF IInv, Typed
  <2>10. RowsHaveTitles' /\ Free(p, u)
    BY <1>1, <2>3 DEF IInv, RowsHaveTitles, Row, Exclusive, Free
  <2>11. StillWorkedOn(p, u)
    BY <1>1, <2>3, ShapeByOp DEF StillWorkedOn
  <2> QED
    BY <1>1, <1>2, <2>1, <2>3, <2>7, <2>8, <2>9, <2>10, <2>11, StepKeeps
<1> QED
  BY <1>3, <1>4

LEMMA CleanChunksKeeps ==
  ASSUME IInv, NEW p \in Procs, CleanChunks(p)
  PROVE  IInv'
<1> DEFINE t == task[p]
           f == FileOf(p)
<1>1. /\ t # None /\ t.op = "complete" /\ t.at = "clean" /\ Shape(t) /\ Holds(t)
      /\ UNCHANGED <<tables, store, scratch, cold, active, stranded>>
      /\ chunks' = [chunks EXCEPT ![t.session] = None]
  BY Context DEF CleanChunks, At, Past
<1>2. ClaimsOf(t) = {} /\ t.session \in DOMAIN session
  BY <1>1, ShapeByOp DEF ClaimsOf, Holds, HoldsSession, FileShape
<1>3. /\ chunks' \in Seq({None} \cup SUBSET Chunks) /\ Len(chunks') = Len(chunks)
      /\ store' \in [Movies -> SUBSET Assets] /\ scratch' \in [Movies -> SUBSET {"input", "tier"}]
      /\ \A m \in Movies : movie[m] # None => store[m] \subseteq store'[m]
  BY <1>1, <1>2 DEF IInv, Typed
<1>4. t.video # None <=> f.asset = None
  BY <1>1, OneFile
<1>5. CASE f.asset # None
  <2>1. task' = [task EXCEPT ![p] = None] /\ ClaimsOf(None) = {}
    BY <1>5 DEF CleanChunks, End, Proceed, ClaimsOf
  <2> QED
    BY <1>1, <1>2, <1>3, <1>4, <1>5, <2>1, DiskStep
<1>6. CASE f.asset = None
  <2> PICK u : u = [t EXCEPT !.at = "start"]
    OBVIOUS
  <2>1. task' = [task EXCEPT ![p] = u]
    BY <1>6 DEF CleanChunks, Goto, Proceed
  <2>2. Shape(u) /\ Holds(u) /\ u.video = t.video /\ ClaimsOf(u) = {}
    BY <1>1, <1>4, <1>6, CompleteGoesOn
  <2>3. Holds(u)'
    BY <1>1, <2>2, HoldsSame
  <2>4. u # None
    BY <2>2, ShapeByOp
  <2> QED
    BY <1>1, <1>2, <1>3, <2>1, <2>2, <2>3, <2>4, DiskStep
<1> QED
  BY <1>5, <1>6

LEMMA StartRunKeeps ==
  ASSUME IInv, NEW p \in Procs, StartRun(p)
  PROVE  IInv'
<1> DEFINE t == task[p]
           u == [t EXCEPT !.op = "run", !.at = "mark", !.session = None, !.todo = Tiers]
<1>1. /\ t # None /\ t.op = "complete" /\ t.at = "start" /\ Shape(t) /\ Holds(t) /\ t \in FileTask /\ t.movie \in Movies
      /\ UNCHANGED <<tables, store, disk, stranded>>
      /\ active' = active \cup {t.video} /\ task' = [task EXCEPT ![p] = u]
  BY Context, ShapeByOp DEF StartRun, Run, Proceed, At, Past, FileShape
<1>2. t.video # None /\ t.video \in Nat /\ ClaimsOf(t) = {}
  BY <1>1, OneFile DEF ClaimsOf, FileTask, TaskOver
<1>3. /\ u.op = "run" /\ u.at = "mark" /\ u.movie = t.movie /\ u.session = None /\ u.todo = Tiers /\ u.video = t.video
      /\ u \in RunTask
  BY <1>1 DEF FileTask, RunTask, TaskOver
<1> HIDE DEF u
<1>4. Shape(u)
  BY <1>1, <1>2, <1>3 DEF Shape, RunShape, RunAt
<1>5. Holds(u)
  <2>1. HoldsVideo(u)
    BY <1>1, <1>2, <1>3, RowOrTitle DEF HoldsVideo, Row, Fits
  <2> QED
    BY <1>3, <2>1 DEF Holds, HoldsSession, HoldsFiles, Promised
<1>6. ClaimsOf(u) = {t.video} /\ u # None
  BY <1>3, <1>4, ShapeByOp DEF ClaimsOf
<1>7. active' = (active \ ClaimsOf(t)) \cup ClaimsOf(u)
  BY <1>1, <1>2, <1>6
<1> QED
  BY <1>1, <1>3, <1>4, <1>5, <1>6, <1>7, QuietStep

-----------------------------------------------------------------------------
(* The pipeline *)

\* A run that stays a run keeps its title, its row and its claim.
LEMMA RunGoesOn ==
  ASSUME IInv, NEW p \in Procs, task[p] # None, task[p].op = "run", NEW at, RunAt(at, task[p].todo)
  PROVE  LET u == [task[p] EXCEPT !.at = at]
         IN  /\ Shape(u) /\ HoldsSession(u) /\ u # None
             /\ u.op = "run" /\ u.at = at /\ u.movie = task[p].movie /\ u.todo = task[p].todo /\ u.video = task[p].video
             /\ u.video # None /\ ClaimsOf(u) = {task[p].video} /\ ClaimsOf(task[p]) = {task[p].video}
<1> DEFINE t == task[p]
           u == [t EXCEPT !.at = at]
<1>1. Shape(t) /\ Holds(t) /\ t \in RunTask /\ RunShape(t)
  BY Context, ShapeByOp
<1>2. /\ u.op = "run" /\ u.at = at /\ u.movie = t.movie /\ u.session = t.session /\ u.todo = t.todo /\ u.video = t.video
      /\ u \in RunTask
  BY <1>1 DEF RunTask, TaskOver, RunAt
<1> HIDE DEF u
<1>3. Shape(u) /\ u.video # None
  BY <1>1, <1>2 DEF Shape, RunShape
<1>4. ClaimsOf(u) = {t.video} /\ ClaimsOf(t) = {t.video} /\ u # None
  BY <1>2, <1>3, ShapeByOp DEF ClaimsOf
<1>5. HoldsSession(u)
  BY <1>1, <1>2 DEF Holds, HoldsSession
<1> QED
  BY <1>2, <1>3, <1>4, <1>5 DEF u

\* What is known of a run's title and row.
LEMMA RunContext ==
  ASSUME IInv, NEW p \in Procs, task[p] # None, task[p].op = "run"
  PROVE  LET t == task[p]
         IN  /\ Shape(t) /\ Holds(t) /\ RunShape(t) /\ t.movie \in Movies /\ t.video # None /\ t.video \in DOMAIN video
             /\ t.todo \in SUBSET Tiers /\ ClaimsOf(t) = {t.video}
             /\ movie[t.movie] = None <=> video[t.video] = None
             /\ video[t.video] # None => /\ video[t.video] \in Video /\ video[t.video].movie = t.movie
                                         /\ Fits(t, video[t.video].status)
             /\ movie[t.movie] # None => Promised(t) \subseteq store[t.movie]
<1>1. Shape(task[p]) /\ Holds(task[p]) /\ task[p] \in RunTask /\ RunShape(task[p]) /\ ClaimsOf(task[p]) = {task[p].video}
  BY Context, ShapeByOp DEF ClaimsOf
<1>2. task[p].movie \in Movies /\ task[p].video # None /\ task[p].todo \in SUBSET Tiers
  BY <1>1 DEF RunShape, RunTask, TaskOver
<1>3. movie[task[p].movie] # None => Promised(task[p]) \subseteq store[task[p].movie]
  BY <1>1, <1>2 DEF Holds, HoldsFiles
<1> QED
  BY <1>1, <1>2, <1>3, RowOrTitle

LEMMA FailKeeps ==
  ASSUME IInv, NEW p \in Procs, task[p] # None, task[p].op = "run", task[p].at # "mark",
         Fail(p), UNCHANGED <<active, stranded>>
  PROVE  IInv'
<1> DEFINE t == task[p]
           u == [t EXCEPT !.at = "failed"]
<1>1. task' = [task EXCEPT ![p] = u] /\ UNCHANGED <<tables, store, disk>>
  BY DEF Fail, Goto, Proceed
<1>2. /\ Shape(u) /\ HoldsSession(u) /\ u # None
      /\ u.op = "run" /\ u.at = "failed" /\ u.movie = t.movie /\ u.video = t.video /\ ClaimsOf(u) = ClaimsOf(t)
  <2>1. RunAt("failed", t.todo)
    BY DEF RunAt
  <2> QED
    BY <2>1, RunGoesOn
<1> HIDE DEF u
<1>3. HoldsVideo(u)
  BY <1>2, RunContext DEF HoldsVideo, Row, Fits
<1>4. HoldsFiles(u)
  BY <1>2 DEF HoldsFiles, Promised
<1> QED
  BY <1>1, <1>2, <1>3, <1>4, GoesOn DEF Holds

\* The process stops: the rows stay, and nobody works on them.
LEMMA ForgetKeeps ==
  ASSUME IInv, UNCHANGED <<tables, store, disk>>, Forget
  PROVE  IInv'
<1>1. /\ task' = [p \in Workers |-> None] /\ active' = {} /\ Strand(Procs)
      /\ \A p \in Procs : task'[p] = None
      /\ task'[Cron] = None
  BY DEF Forget, Workers
<1>2. Typed'
  <2>1. stranded' \subseteq DOMAIN video
    BY <1>1 DEF Strand, IInv, Typed
  <2> QED
    BY <1>1, <2>1 DEF IInv, Typed, tables, disk
<1>3. Described' /\ Exclusive' /\ RowsHaveTitles'
  BY <1>1 DEF IInv, Described, Exclusive, RowsHaveTitles, Row, tables
<1>4. ClaimIsHeld'
  <2>1. \A p \in Procs : Claims(p)' = {}
    BY <1>1 DEF Claims
  <2> QED
    BY <1>1, <2>1 DEF ClaimIsHeld
<1>5. UploadingIsWorkedOn'
  <2> SUFFICES ASSUME NEW v \in DOMAIN video, Row(v), video[v].status = "UPLOADING" PROVE v \in stranded'
    BY DEF UploadingIsWorkedOn, Row, tables
  <2> QED
    BY <1>1 DEF Strand, IInv, UploadingIsWorkedOn
<1>6. Swept'
  BY <1>1 DEF IInv, Swept, disk, Dir
<1> QED
  BY <1>2, <1>3, <1>4, <1>5, <1>6 DEF IInv

\* A request writes its row.
LEMMA VideoStep ==
  ASSUME IInv, NEW p \in Procs, NEW u, NEW v, NEW r \in Video,
         task[p] # None, v = task[p].video, v # None, v \in DOMAIN video, video[v] # None,
         r.movie = video[v].movie, r.status # "UPLOADING", video' = [video EXCEPT ![v] = r],
         UNCHANGED <<movie, session, store, disk, active, stranded>>,
         task' = [task EXCEPT ![p] = u],
         Shape(u), Holds(u)', u.video = v, ClaimsOf(u) = ClaimsOf(task[p])
  PROVE  IInv'
<1>1. /\ video' \in Seq(Video \cup {None}) /\ Len(video') = Len(video) /\ DOMAIN video' = DOMAIN video
      /\ \A w \in DOMAIN video : w # v => video'[w] = video[w]
      /\ video'[v] = r /\ r # None
  BY NoneIsNoValue DEF IInv, Typed
<1>2. World(v)
  BY <1>1 DEF World, Young, InProgress, IInv, RowsHaveTitles
<1>3. Typed'
  <2>1. u \in Request
    BY ShapeByOp
  <2>2. task' \in [Workers -> Request \cup SweepTask \cup {None}] /\ task'[Cron] \in SweepTask \cup {None}
    BY <2>1, CronIsNoRequest DEF IInv, Typed, Workers
  <2> QED
    BY <1>1, <2>2 DEF IInv, Typed, disk
<1>4. RowsHaveTitles'
  BY <1>1 DEF IInv, RowsHaveTitles, Row
<1>5. Free(p, u)
  BY DEF IInv, Exclusive, Free
<1>6. StillWorkedOn(p, u)
  BY <1>1 DEF StillWorkedOn
<1>7. ClaimsOf(task[p]) \subseteq active
  BY ClaimsOfTask DEF IInv, ClaimIsHeld
<1>8. cold' \subseteq cold /\ DOMAIN chunks \subseteq DOMAIN chunks' /\ active' = (active \ ClaimsOf(task[p])) \cup ClaimsOf(u)
  BY <1>7 DEF disk
<1> QED
  BY <1>2, <1>3, <1>4, <1>5, <1>6, <1>8, StepKeeps

LEMMA MarkProcessingKeeps ==
  ASSUME IInv, NEW p \in Procs, MarkProcessing(p)
  PROVE  IInv'
<1> DEFINE t == task[p]
           v == t.video
<1>1. t # None /\ t.op = "run" /\ t.at = "mark" /\ UNCHANGED <<movie, session, store, disk>>
  BY DEF MarkProcessing, At
<1>2. CASE Forget /\ UNCHANGED video
  <2>1. UNCHANGED <<tables, store, disk>>
    BY <1>1, <1>2 DEF tables
  <2> QED
    BY <1>2, <2>1, ForgetKeeps
<1>3. CASE ~(Forget /\ UNCHANGED video)
  <2> DEFINE r == [video[v] EXCEPT !.status = "PROCESSING"]
  <2>1. /\ video' = [video EXCEPT ![v].status = "PROCESSING"] /\ task' = [task EXCEPT ![p] = [t EXCEPT !.at = "archive"]]
        /\ UNCHANGED <<active, stranded>> /\ video[v] # None
    BY <1>3 DEF MarkProcessing, Row, Goto, Proceed
  <2>2. video[v] \in Video /\ v # None /\ v \in DOMAIN video /\ video[v].movie = t.movie /\ t.todo = Tiers /\ t.movie \in Movies
    BY <1>1, <2>1, RunContext DEF RunShape, RunAt
  <2>3. r \in Video /\ r.movie = video[v].movie /\ r.status = "PROCESSING" /\ video' = [video EXCEPT ![v] = r]
    BY <2>1, <2>2 DEF Video, VideoStatus
  <2> HIDE DEF r
  <2> PICK u : u = [t EXCEPT !.at = "archive"]
    OBVIOUS
  <2>4. /\ Shape(u) /\ HoldsSession(u) /\ u # None
        /\ u.op = "run" /\ u.at = "archive" /\ u.movie = t.movie /\ u.video = v /\ ClaimsOf(u) = ClaimsOf(t)
    <3>1. RunAt("archive", t.todo)
      BY <2>2 DEF RunAt
    <3> QED
      BY <1>1, <3>1, RunGoesOn
  <2>5. Holds(u)'
    <3>1. HoldsSession(u)'
      BY <1>1, <2>4 DEF HoldsSession
    <3>2. video'[v] = r /\ r # None /\ v \in DOMAIN video'
      BY <2>2, <2>3, NoneIsNoValue DEF IInv, Typed
    <3>3. HoldsVideo(u)'
      BY <2>2, <2>3, <2>4, <3>2 DEF HoldsVideo, Row, Fits
    <3>4. HoldsFiles(u)'
      BY <2>4 DEF HoldsFiles, Promised
    <3> QED
      BY <3>1, <3>3, <3>4 DEF Holds
  <2> QED
    BY <1>1, <1>3, <2>1, <2>2, <2>3, <2>4, <2>5, VideoStep
<1> QED
  BY <1>2, <1>3

LEMMA RunKeepsRow ==
  ASSUME IInv, NEW p \in Procs, task[p] # None, task[p].op = "run", task[p].at \notin {"mark", "publish"},
         NEW u, u.op = "run", u.at \notin {"mark", "publish"}, u.movie = task[p].movie, u.video = task[p].video,
         task[p].at \in {"failed", "discard"} => u.at = "discard"
  PROVE  HoldsVideo(u)
BY RunContext DEF HoldsVideo, Row, Fits

\* A run whose files are where they were.
LEMMA RunMovesOn ==
  ASSUME IInv, NEW p \in Procs, task[p] # None, task[p].op = "run", task[p].at \notin {"mark", "publish"},
         NEW at, RunAt(at, task[p].todo), at \notin {"mark", "publish"}, task[p].at \in {"failed", "discard"} => at = "discard",
         Promised([task[p] EXCEPT !.at = at]) \subseteq Promised(task[p]),
         Goto(p, at), UNCHANGED <<tables, store, disk, active, stranded>>
  PROVE  IInv'
<1> DEFINE t == task[p]
           u == [t EXCEPT !.at = at]
<1>1. task' = [task EXCEPT ![p] = u]
  BY DEF Goto, Proceed
<1>2. /\ Shape(u) /\ HoldsSession(u) /\ u # None
      /\ u.op = "run" /\ u.at = at /\ u.movie = t.movie /\ u.video = t.video /\ ClaimsOf(u) = ClaimsOf(t)
  BY RunGoesOn
<1>3. Promised(u) \subseteq Promised(t)
  OBVIOUS
<1> HIDE DEF u
<1>4. HoldsVideo(u)
  BY <1>2, RunKeepsRow
<1>5. HoldsFiles(u)
  BY <1>2, <1>3, RunContext DEF HoldsFiles
<1> QED
  BY <1>1, <1>2, <1>4, <1>5, GoesOn DEF Holds

\* A run puts an object into the store.
LEMMA RunStores ==
  ASSUME IInv, NEW p \in Procs, task[p] # None, task[p].op = "run", task[p].at \notin {"mark", "publish", "failed", "discard"},
         NEW o \in Assets, store' = [store EXCEPT ![task[p].movie] = store[task[p].movie] \cup {o}],
         UNCHANGED <<tables, disk, active, stranded>>,
         NEW u, task' = [task EXCEPT ![p] = u], Shape(u), HoldsSession(u),
         u.op = "run", u.at \notin {"mark", "publish"}, u.movie = task[p].movie, u.video = task[p].video,
         ClaimsOf(u) = ClaimsOf(task[p]),
         movie[task[p].movie] # None => Promised(u) \subseteq Promised(task[p]) \cup store'[task[p].movie]
  PROVE  IInv'
<1> DEFINE t == task[p]
<1>1. t.movie \in Movies /\ (movie[t.movie] # None => Promised(t) \subseteq store[t.movie])
  BY RunContext
<1>2. /\ store' \in [Movies -> SUBSET Assets] /\ \A m \in Movies : store[m] \subseteq store'[m]
      /\ chunks' \in Seq({None} \cup SUBSET Chunks) /\ Len(chunks') = Len(chunks)
      /\ scratch' \in [Movies -> SUBSET {"input", "tier"}] /\ cold' \subseteq cold
  BY <1>1 DEF IInv, Typed, disk
<1>3. HoldsVideo(u)'
  <2>1. HoldsVideo(u)
    BY RunKeepsRow
  <2> QED
    BY <2>1 DEF HoldsVideo, Row, tables
<1>4. HoldsSession(u)'
  BY DEF HoldsSession, tables
<1>5. HoldsFiles(u)'
  <2>1. movie'[t.movie] # None => Promised(u) \subseteq store'[t.movie]
    BY <1>1, <1>2 DEF tables
  <2> QED
    BY <2>1 DEF HoldsFiles
<1>6. Holds(u)'
  BY <1>3, <1>4, <1>5 DEF Holds
<1>7. active' = (active \ ClaimsOf(t)) \cup ClaimsOf(u) /\ u # None
  BY ClaimsOfTask, ShapeByOp DEF IInv, ClaimIsHeld
<1> QED
  BY <1>2, <1>6, <1>7, DiskStep

LEMMA ArchiveKeeps ==
  ASSUME IInv, NEW p \in Procs, Archive(p)
  PROVE  IInv'
<1> DEFINE t == task[p]
<1>1. t # None /\ t.op = "run" /\ t.at = "archive" /\ UNCHANGED <<active, stranded>>
  BY DEF Archive, At, Past
<1>2. CASE Fail(p)
  BY <1>1, <1>2, FailKeeps
<1>3. CASE ~Fail(p)
  <2> DEFINE u == [t EXCEPT !.at = "path"]
  <2>1. /\ store' = [store EXCEPT ![t.movie] = store[t.movie] \cup {Original}]
        /\ task' = [task EXCEPT ![p] = u] /\ UNCHANGED <<tables, disk>>
    BY <1>3 DEF Archive, Goto, Proceed
  <2>2. t.todo = Tiers /\ RunAt("path", t.todo) /\ t.movie \in Movies
    BY <1>1, RunContext DEF RunShape, RunAt
  <2>3. /\ Shape(u) /\ HoldsSession(u)
        /\ u.op = "run" /\ u.at = "path" /\ u.movie = t.movie /\ u.video = t.video /\ u.todo = t.todo /\ ClaimsOf(u) = ClaimsOf(t)
    BY <1>1, <2>2, RunGoesOn
  <2> HIDE DEF u
  <2>4. Promised(u) \subseteq store'[t.movie]
    BY <2>1, <2>2, <2>3 DEF Promised, IInv, Typed
  <2>5. Original \in Assets
    BY DEF Assets
  <2> QED
    BY <1>1, <2>1, <2>3, <2>4, <2>5, RunStores
<1> QED
  BY <1>2, <1>3

LEMMA RecordPathKeeps ==
  ASSUME IInv, NEW p \in Procs, RecordPath(p)
  PROVE  IInv'
<1> DEFINE t == task[p]
           v == t.video
<1>1. t # None /\ t.op = "run" /\ t.at = "path" /\ UNCHANGED <<active, stranded>>
  BY DEF RecordPath, At, Past
<1>2. CASE Fail(p)
  BY <1>1, <1>2, FailKeeps
<1>3. CASE ~Fail(p)
  <2> DEFINE r == [video[v] EXCEPT !.archived = TRUE]
  <2>1. /\ video' = [video EXCEPT ![v].archived = TRUE] /\ task' = [task EXCEPT ![p] = [t EXCEPT !.at = "tier"]]
        /\ UNCHANGED <<movie, session, store, disk>> /\ video[v] # None
    BY <1>3 DEF RecordPath, Row, Goto, Proceed
  <2>2. /\ video[v] \in Video /\ v # None /\ v \in DOMAIN video /\ video[v].movie = t.movie /\ t.movie \in Movies
        /\ video[v].status \in {"PROCESSING", "FAILED"} /\ (movie[t.movie] # None => Promised(t) \subseteq store[t.movie])
    BY <1>1, <2>1, RunContext DEF Fits
  <2>3. r \in Video /\ r.movie = video[v].movie /\ r.status = video[v].status /\ video' = [video EXCEPT ![v] = r]
    BY <2>1, <2>2 DEF Video
  <2> HIDE DEF r
  <2> PICK u : u = [t EXCEPT !.at = "tier"]
    OBVIOUS
  <2>4. /\ Shape(u) /\ HoldsSession(u) /\ u # None
        /\ u.op = "run" /\ u.at = "tier" /\ u.movie = t.movie /\ u.video = v /\ u.todo = t.todo /\ ClaimsOf(u) = ClaimsOf(t)
    <3>1. RunAt("tier", t.todo)
      BY DEF RunAt
    <3> QED
      BY <1>1, <3>1, RunGoesOn
  <2>5. Holds(u)'
    <3>1. HoldsSession(u)'
      BY <2>1, <2>4 DEF HoldsSession
    <3>2. video'[v] = r /\ r # None /\ v \in DOMAIN video'
      BY <2>2, <2>3, NoneIsNoValue DEF IInv, Typed
    <3>3. HoldsVideo(u)'
      BY <2>2, <2>3, <2>4, <3>2 DEF HoldsVideo, Row, Fits
    <3>4. HoldsFiles(u)'
      BY <1>1, <2>1, <2>2, <2>4 DEF HoldsFiles, Promised
    <3> QED
      BY <3>1, <3>3, <3>4 DEF Holds
  <2>6. r.status # "UPLOADING" /\ v # None /\ v \in DOMAIN video
    BY <2>2, <2>3
  <2>7. task' = [task EXCEPT ![p] = u] /\ UNCHANGED <<movie, session, store, disk>>
    BY <2>1
  <2> QED
    <3>1. /\ task[p] # None /\ v = task[p].video /\ video[v] # None /\ ClaimsOf(u) = ClaimsOf(task[p]) /\ u.video = v
          /\ UNCHANGED <<movie, session, store, disk, active, stranded>>
      BY <1>1, <2>1, <2>4, <2>7
    <3> QED
      BY <2>3, <2>4, <2>5, <2>6, <2>7, <3>1, VideoStep
<1> QED
  BY <1>2, <1>3

\* The rendition a run is at.
LEMMA TallestLeft ==
  ASSUME NEW todo \in SUBSET Tiers, todo # {}
  PROVE  (CHOOSE t \in todo : \A u \in todo : u <= t) \in todo
BY TiersNumbered

LEMMA TierIsLeft ==
  ASSUME NEW p, task[p].todo \in SUBSET Tiers, task[p].todo # {}
  PROVE  Tier(p) \in task[p].todo
BY TallestLeft DEF Tier

\* A run is done with a rendition whose playlist is in the store.
LEMMA RunTicksOff ==
  ASSUME IInv, NEW p \in Procs, task[p] # None, task[p].op = "run", NEW x \in task[p].todo
  PROVE  LET u == [task[p] EXCEPT !.at = "tier", !.todo = task[p].todo \ {x}]
         IN  /\ Shape(u) /\ HoldsSession(u) /\ u # None
             /\ u.op = "run" /\ u.at = "tier" /\ u.movie = task[p].movie /\ u.video = task[p].video
             /\ ClaimsOf(u) = ClaimsOf(task[p])
             /\ task[p].at \in {"tier", "push"} => Promised(u) \subseteq Promised(task[p]) \cup {Index(x)}
<1> DEFINE t == task[p]
           u == [t EXCEPT !.at = "tier", !.todo = t.todo \ {x}]
<1>1. Shape(t) /\ Holds(t) /\ t \in RunTask /\ RunShape(t)
  BY Context, ShapeByOp
<1>2. /\ u.op = "run" /\ u.at = "tier" /\ u.movie = t.movie /\ u.session = t.session /\ u.todo = t.todo \ {x} /\ u.video = t.video
      /\ u \in RunTask
  BY <1>1 DEF RunTask, TaskOver
<1> HIDE DEF u
<1>3. Shape(u)
  BY <1>1, <1>2 DEF Shape, RunShape, RunAt
<1>4. ClaimsOf(u) = ClaimsOf(t) /\ u # None
  BY <1>2, <1>3, ShapeByOp DEF ClaimsOf
<1>5. HoldsSession(u)
  BY <1>1, <1>2 DEF Holds, HoldsSession
<1>6. t.at \in {"tier", "push"} => Promised(u) \subseteq Promised(t) \cup {Index(x)}
  BY <1>2 DEF Promised
<1> QED
  BY <1>2, <1>3, <1>4, <1>5, <1>6 DEF u

LEMMA NextTierKeeps ==
  ASSUME IInv, NEW p \in Procs, NextTier(p)
  PROVE  IInv'
<1> DEFINE t == task[p]
           x == Tier(p)
<1>1. t # None /\ t.op = "run" /\ t.at = "tier" /\ UNCHANGED <<tables, store, disk, active, stranded>>
  BY DEF NextTier, At, Past, Fail
<1> SUFFICES ASSUME ~Fail(p) PROVE IInv'
  BY <1>1, FailKeeps
<1>2. t.movie \in Movies /\ t.todo \in SUBSET Tiers /\ Shape(t) /\ t \in RunTask
  BY <1>1, RunContext, ShapeByOp
<1>3. CASE t.todo = {}
  <2>1. Goto(p, "master") /\ RunAt("master", t.todo)
    BY <1>3 DEF NextTier, RunAt
  <2>2. Promised([t EXCEPT !.at = "master"]) \subseteq Promised(t)
    BY <1>1, <1>2 DEF Promised, RunTask, TaskOver
  <2> QED
    BY <1>1, <2>1, <2>2, RunMovesOn
<1>4. CASE t.todo # {} /\ Index(x) \notin store[t.movie]
  <2>1. Goto(p, "encode") /\ RunAt("encode", t.todo)
    BY <1>4 DEF NextTier, RunAt
  <2>2. Promised([t EXCEPT !.at = "encode"]) \subseteq Promised(t)
    BY <1>1, <1>2 DEF Promised, RunTask, TaskOver
  <2> QED
    BY <1>1, <2>1, <2>2, RunMovesOn
<1>5. CASE t.todo # {} /\ Index(x) \in store[t.movie]
  <2>1. x \in t.todo
    BY <1>2, <1>5, TierIsLeft
  <2>2. task' = [task EXCEPT ![p] = [t EXCEPT !.todo = t.todo \ {x}]]
    BY <1>5 DEF NextTier, Proceed
  <2>3. Index(x) \in store[t.movie]
    BY <1>5
  <2> HIDE DEF x
  <2> DEFINE u == [t EXCEPT !.at = "tier", !.todo = t.todo \ {x}]
  <2>4. task' = [task EXCEPT ![p] = u]
    BY <1>1, <1>2, <2>2 DEF RunTask, TaskOver
  <2>5. /\ Shape(u) /\ HoldsSession(u) /\ u # None
        /\ u.op = "run" /\ u.at = "tier" /\ u.movie = t.movie /\ u.video = t.video
        /\ ClaimsOf(u) = ClaimsOf(t) /\ Promised(u) \subseteq Promised(t) \cup {Index(x)}
    BY <1>1, <2>1, RunTicksOff
  <2> HIDE DEF u
  <2>6. HoldsVideo(u)
    BY <1>1, <2>5, RunKeepsRow
  <2>7. HoldsFiles(u)
    BY <1>1, <2>3, <2>5, RunContext DEF HoldsFiles
  <2> QED
    BY <1>1, <2>4, <2>5, <2>6, <2>7, GoesOn DEF Holds
<1> QED
  BY <1>3, <1>4, <1>5

LEMMA EncodeKeeps ==
  ASSUME IInv, NEW p \in Procs, Encode(p)
  PROVE  IInv'
<1> DEFINE t == task[p]
<1>1. t # None /\ t.op = "run" /\ t.at = "encode" /\ UNCHANGED <<active, stranded>>
  BY DEF Encode, At, Past
<1>2. CASE Fail(p)
  BY <1>1, <1>2, FailKeeps
<1>3. CASE ~Fail(p)
  <2> PICK u : u = [t EXCEPT !.at = "push"]
    OBVIOUS
  <2>1. /\ scratch' = [scratch EXCEPT ![t.movie] = scratch[t.movie] \cup {"tier"}]
        /\ task' = [task EXCEPT ![p] = u] /\ UNCHANGED <<tables, store, chunks, cold>>
    BY <1>3 DEF Encode, Goto, Proceed
  <2>2. RunAt("push", t.todo) /\ t.movie \in Movies /\ t \in RunTask /\ (movie[t.movie] # None => Promised(t) \subseteq store[t.movie])
    BY <1>1, RunContext, ShapeByOp DEF RunShape, RunAt
  <2>3. /\ Shape(u) /\ HoldsSession(u) /\ u # None
        /\ u.op = "run" /\ u.at = "push" /\ u.movie = t.movie /\ u.video = t.video /\ u.todo = t.todo /\ ClaimsOf(u) = ClaimsOf(t)
    BY <1>1, <2>2, RunGoesOn
  <2>4. HoldsVideo(u)
    BY <1>1, <2>3, RunKeepsRow
  <2>5. HoldsFiles(u)
    BY <1>1, <2>2, <2>3 DEF HoldsFiles, Promised
  <2>6. Holds(u)'
    BY <2>1, <2>3, <2>4, <2>5, HoldsSame DEF Holds
  <2>7. /\ scratch' \in [Movies -> SUBSET {"input", "tier"}] /\ store' \in [Movies -> SUBSET Assets]
        /\ chunks' \in Seq({None} \cup SUBSET Chunks) /\ Len(chunks') = Len(chunks) /\ cold' \subseteq cold
        /\ \A m \in Movies : movie[m] # None => store[m] \subseteq store'[m]
    BY <2>1, <2>2 DEF IInv, Typed
  <2>8. active' = (active \ ClaimsOf(t)) \cup ClaimsOf(u)
    BY <1>1, <2>3, ClaimsOfTask DEF IInv, ClaimIsHeld
  <2> QED
    BY <1>1, <2>1, <2>3, <2>6, <2>7, <2>8, DiskStep
<1> QED
  BY <1>2, <1>3

LEMMA PushKeeps ==
  ASSUME IInv, NEW p \in Procs, Push(p)
  PROVE  IInv'
<1> DEFINE t == task[p]
           x == Tier(p)
<1>1. t # None /\ t.op = "run" /\ t.at = "push" /\ UNCHANGED <<active, stranded>>
  BY DEF Push, At, Past
<1>2. CASE Fail(p)
  BY <1>1, <1>2, FailKeeps
<1>3. CASE ~Fail(p)
  <2>1. PICK o \in {Index(x), Segments(x)} :
          /\ store' = [store EXCEPT ![t.movie] = store[t.movie] \cup {o}]
          /\ IF {Index(x), Segments(x)} \subseteq store'[t.movie]
             THEN task' = [task EXCEPT ![p] = [t EXCEPT !.at = "tier", !.todo = t.todo \ {x}]]
             ELSE task' = task
          /\ UNCHANGED <<tables, disk>>
    BY <1>3 DEF Push, Proceed
  <2>2. /\ t.movie \in Movies /\ t.todo \in SUBSET Tiers /\ t.todo # {} /\ Shape(t) /\ HoldsSession(t)
        /\ x \in t.todo
    BY <1>1, RunContext, TierIsLeft DEF RunShape, RunAt, Holds
  <2> HIDE DEF x
  <2>3. o \in Assets
    BY <2>1, <2>2 DEF Assets
  <2>4. CASE {Index(x), Segments(x)} \subseteq store'[t.movie]
    <3> DEFINE u == [t EXCEPT !.at = "tier", !.todo = t.todo \ {x}]
    <3>1. task' = [task EXCEPT ![p] = u] /\ Index(x) \in store'[t.movie]
      BY <2>1, <2>4
    <3>2. /\ Shape(u) /\ HoldsSession(u) /\ u # None
          /\ u.op = "run" /\ u.at = "tier" /\ u.movie = t.movie /\ u.video = t.video
          /\ ClaimsOf(u) = ClaimsOf(t) /\ Promised(u) \subseteq Promised(t) \cup {Index(x)}
      BY <1>1, <2>2, RunTicksOff
    <3> HIDE DEF u
    <3>3. Promised(u) \subseteq Promised(t) \cup store'[t.movie]
      BY <3>1, <3>2
    <3> QED
      BY <1>1, <2>1, <2>3, <3>1, <3>2, <3>3, RunStores
  <2>5. CASE ~({Index(x), Segments(x)} \subseteq store'[t.movie])
    <3> PICK u : u = t
      OBVIOUS
    <3>1. task' = [task EXCEPT ![p] = u]
      BY <2>1, <2>5 DEF IInv, Typed
    <3>2. Promised(u) \subseteq Promised(t) \cup store'[t.movie]
      OBVIOUS
    <3> QED
      BY <1>1, <2>1, <2>2, <2>3, <3>1, <3>2, RunStores
  <2> QED
    BY <2>4, <2>5
<1> QED
  BY <1>2, <1>3

LEMMA PutMasterKeeps ==
  ASSUME IInv, NEW p \in Procs, PutMaster(p)
  PROVE  IInv'
<1> DEFINE t == task[p]
<1>1. t # None /\ t.op = "run" /\ t.at = "master" /\ UNCHANGED <<active, stranded>>
  BY DEF PutMaster, At, Past
<1>2. CASE Fail(p)
  BY <1>1, <1>2, FailKeeps
<1>3. CASE ~Fail(p)
  <2> DEFINE u == [t EXCEPT !.at = "tidy"]
  <2>1. /\ store' = [store EXCEPT ![t.movie] = store[t.movie] \cup {Master}]
        /\ task' = [task EXCEPT ![p] = u] /\ UNCHANGED <<tables, disk>>
    BY <1>3 DEF PutMaster, Goto, Proceed
  <2>2. RunAt("tidy", t.todo) /\ t.movie \in Movies
    BY <1>1, RunContext DEF RunShape, RunAt
  <2>3. /\ Shape(u) /\ HoldsSession(u)
        /\ u.op = "run" /\ u.at = "tidy" /\ u.movie = t.movie /\ u.video = t.video /\ u.todo = t.todo /\ ClaimsOf(u) = ClaimsOf(t)
    BY <1>1, <2>2, RunGoesOn
  <2> HIDE DEF u
  <2>4. Promised(u) \subseteq Promised(t) \cup store'[t.movie]
    BY <1>1, <2>1, <2>2, <2>3 DEF Promised, IInv, Typed
  <2>5. Master \in Assets
    BY DEF Assets
  <2> QED
    BY <1>1, <2>1, <2>3, <2>4, <2>5, RunStores
<1> QED
  BY <1>2, <1>3

LEMMA CleanScratchKeeps ==
  ASSUME IInv, NEW p \in Procs, CleanScratch(p)
  PROVE  IInv'
<1> DEFINE t == task[p]
<1>1. /\ t # None /\ t.op = "run" /\ t.at \in {"tidy", "discard"} /\ UNCHANGED <<tables, store, chunks, cold, stranded>>
      /\ \E left : scratch' = [scratch EXCEPT ![t.movie] = scratch[t.movie] \cap left]
  BY DEF CleanScratch, At, Past
<1>2. /\ t.movie \in Movies /\ RunShape(t) /\ (movie[t.movie] # None => Promised(t) \subseteq store[t.movie])
      /\ video[t.video] # None => video[t.video].status # "UPLOADING"
  BY <1>1, RunContext DEF Fits
<1>3. /\ scratch' \in [Movies -> SUBSET {"input", "tier"}] /\ store' \in [Movies -> SUBSET Assets]
      /\ chunks' \in Seq({None} \cup SUBSET Chunks) /\ Len(chunks') = Len(chunks) /\ cold' \subseteq cold
      /\ \A m \in Movies : movie[m] # None => store[m] \subseteq store'[m]
  BY <1>1, <1>2 DEF IInv, Typed
<1>4. CASE t.at = "tidy"
  <2> PICK u : u = [t EXCEPT !.at = "ready"]
    OBVIOUS
  <2>1. task' = [task EXCEPT ![p] = u] /\ active' = active
    BY <1>4 DEF CleanScratch, Goto, Proceed
  <2>2. RunAt("ready", t.todo)
    BY <1>1, <1>2, <1>4 DEF RunShape, RunAt
  <2>3. /\ Shape(u) /\ HoldsSession(u) /\ u # None
        /\ u.op = "run" /\ u.at = "ready" /\ u.movie = t.movie /\ u.video = t.video /\ u.todo = t.todo /\ ClaimsOf(u) = ClaimsOf(t)
    BY <1>1, <2>2, RunGoesOn
  <2>4. HoldsVideo(u)
    BY <1>1, <1>4, <2>3, RunKeepsRow
  <2>5. HoldsFiles(u)
    BY <1>1, <1>2, <1>4, <2>3 DEF HoldsFiles, Promised
  <2>6. Holds(u)'
    BY <1>1, <2>3, <2>4, <2>5, HoldsSame DEF Holds
  <2>7. active' = (active \ ClaimsOf(t)) \cup ClaimsOf(u)
    BY <2>1, <2>3, ClaimsOfTask DEF IInv, ClaimIsHeld
  <2> QED
    BY <1>1, <1>3, <2>1, <2>3, <2>6, <2>7, DiskStep
<1>5. CASE t.at = "discard"
  <2>1. task' = [task EXCEPT ![p] = None] /\ active' = active \ {t.video} /\ ClaimsOf(None) = {} /\ ClaimsOf(t) = {t.video}
    BY <1>1, <1>5 DEF CleanScratch, End, Proceed, ClaimsOf
  <2> QED
    BY <1>1, <1>2, <1>3, <2>1, DiskStep
<1> QED
  BY <1>1, <1>4, <1>5

\* The row of a finished run, or of a bundle found complete.
LEMMA MarkReadyKeeps ==
  ASSUME IInv, NEW p \in Procs, MarkReady(p)
  PROVE  IInv'
<1> DEFINE t == task[p]
           v == t.video
<1>1. t # None /\ t.op \in {"run", "finalize"} /\ t.at = "ready" /\ UNCHANGED <<active, stranded>>
  BY DEF MarkReady, At, Past
<1>2. /\ Shape(t) /\ Holds(t) /\ t.movie \in Movies /\ v # None /\ v \in DOMAIN video
      /\ t.op = "finalize" => t \in FinalizeTask /\ FinalizeShape(t) /\ t.todo \in SUBSET Tiers /\ ClaimsOf(t) = {}
  <2>1. Shape(t) /\ Holds(t)
    BY <1>1, Context
  <2>2. CASE t.op = "run"
    BY <1>1, <2>1, <2>2, RunContext
  <2>3. CASE t.op = "finalize"
    BY <1>1, <2>1, <2>3, ShapeByOp DEF FinalizeShape, FinalizeTask, TaskOver, ClaimsOf, Holds, HoldsVideo
  <2> QED
    BY <1>1, <2>2, <2>3
<1>3. CASE t.op = "run" /\ Fail(p)
  BY <1>1, <1>3, FailKeeps
<1>4. ASSUME ~(t.op = "run" /\ Fail(p)) PROVE video[v] # None
  BY <1>4 DEF MarkReady, Row
<1>5. CASE ~(t.op = "run" /\ Fail(p))
  <2> PICK R : R = (IF t.op = "run" THEN Tiers ELSE t.todo)
    OBVIOUS
  <2> PICK at : at = (IF t.op = "run" THEN "publish" ELSE "flip")
    OBVIOUS
  <2> DEFINE r == [video[v] EXCEPT !.status = "READY", !.renditions = R]
  <2>1. /\ video' = [video EXCEPT ![v].status = "READY", ![v].renditions = R]
        /\ task' = [task EXCEPT ![p] = [t EXCEPT !.at = at]] /\ UNCHANGED <<movie, session, store, disk>>
    BY <1>1, <1>4, <1>5 DEF MarkReady, Row, Goto, Proceed
  <2>2. video[v] \in Video /\ video[v].movie = t.movie /\ R \in SUBSET Tiers
    BY <1>1, <1>2, <1>4, <1>5, RowOrTitle
  <2>3. r \in Video /\ r.movie = video[v].movie /\ r.status = "READY" /\ video' = [video EXCEPT ![v] = r]
    BY <1>2, <2>1, <2>2 DEF Video, VideoStatus, IInv, Typed
  <2> HIDE DEF r
  <2> PICK u : u = [t EXCEPT !.at = at]
    OBVIOUS
  <2>4. /\ Shape(u) /\ HoldsSession(u) /\ u # None /\ u.op = t.op /\ u.at = at
        /\ u.movie = t.movie /\ u.video = v /\ ClaimsOf(u) = ClaimsOf(t)
    <3>1. CASE t.op = "run"
      <4>1. RunAt("publish", t.todo) /\ at = "publish"
        BY <3>1 DEF RunAt
      <4> QED
        BY <1>1, <3>1, <4>1, RunGoesOn
    <3>2. CASE t.op = "finalize"
      <4>1. /\ u.op = "finalize" /\ u.at = "flip" /\ u.movie = t.movie /\ u.video = v /\ u.seen = t.seen /\ u.session = t.session
            /\ u \in FinalizeTask
        BY <1>2, <3>2 DEF FinalizeTask, TaskOver
      <4>2. FinalizeShape(u)
        BY <1>1, <1>2, <3>2, <4>1 DEF FinalizeShape
      <4>3. HoldsSession(u)
        BY <1>2, <4>1 DEF Holds, HoldsSession
      <4> QED
        BY <1>2, <3>2, <4>1, <4>2, <4>3, ShapeByOp DEF Shape, ClaimsOf
    <3> QED
      BY <1>1, <3>1, <3>2
  <2>5. Holds(u)'
    <3>1. HoldsSession(u)'
      BY <2>1, <2>4 DEF HoldsSession
    <3>2. video'[v] = r /\ r # None /\ v \in DOMAIN video'
      BY <1>2, <2>2, <2>3, NoneIsNoValue DEF IInv, Typed
    <3>3. Fits(u, "READY") /\ Promised(u) = {} /\ u.op # "delete"
      BY <1>1, <2>4 DEF Fits, Promised
    <3>4. HoldsVideo(u)'
      BY <2>2, <2>3, <2>4, <3>2, <3>3 DEF HoldsVideo, Row
    <3>5. HoldsFiles(u)'
      BY <3>3 DEF HoldsFiles
    <3> QED
      BY <3>1, <3>4, <3>5 DEF Holds
  <2>6. r.status # "UPLOADING" /\ task' = [task EXCEPT ![p] = u] /\ UNCHANGED <<movie, session, store, disk>>
    BY <2>1, <2>3
  <2> QED
    BY <1>1, <1>2, <1>4, <1>5, <2>3, <2>4, <2>5, <2>6, VideoStep
<1> QED
  BY <1>3, <1>5

\* A request gives a title another status.
LEMMA MovieStep ==
  ASSUME IInv, NEW p \in Procs, task[p] # None, NEW u,
         movie' \in [Movies -> MovieStatus \cup {None}], \A m \in Movies : movie'[m] = None <=> movie[m] = None,
         UNCHANGED <<video, session, store, disk, stranded>>,
         task' = [task EXCEPT ![p] = u],
         u = None \/ (Shape(u) /\ Holds(u) /\ u.video = task[p].video /\ u.movie \in Movies),
         active' = (active \ ClaimsOf(task[p])) \cup ClaimsOf(u),
         task[p].video # None => video[task[p].video] = None \/ video[task[p].video].status # "UPLOADING"
  PROVE  IInv'
<1>1. World(None)
  BY DEF World, Young, InProgress, IInv, RowsHaveTitles, Typed
<1>2. Typed'
  <2>1. u \in Request \cup {None}
    BY ShapeByOp
  <2>2. task' \in [Workers -> Request \cup SweepTask \cup {None}] /\ task'[Cron] \in SweepTask \cup {None}
    BY <2>1, CronIsNoRequest DEF IInv, Typed, Workers
  <2> QED
    BY <2>2 DEF IInv, Typed, disk
<1>3. \A w \in DOMAIN video : video[w] # None => video[w].movie \in Movies /\ w # None
  BY NoneIsNoValue DEF IInv, Typed, Video
<1>4. RowsHaveTitles'
  BY <1>3 DEF IInv, RowsHaveTitles, Row
<1>5. u = None \/ (Shape(u) /\ Holds(u)')
  <2> SUFFICES ASSUME u # None PROVE Holds(u)'
    OBVIOUS
  <2>1. HoldsSession(u)' /\ HoldsFiles(u)'
    BY DEF Holds, HoldsSession, HoldsFiles
  <2>2. HoldsVideo(u)'
    BY DEF Holds, HoldsVideo, Row
  <2> QED
    BY <2>1, <2>2 DEF Holds
<1>6. Free(p, u)
  BY DEF IInv, Exclusive, Free
<1>7. StillWorkedOn(p, u)
  BY <1>3 DEF StillWorkedOn
<1>8. cold' \subseteq cold /\ DOMAIN chunks \subseteq DOMAIN chunks'
  BY DEF disk
<1> QED
  BY <1>1, <1>2, <1>4, <1>5, <1>6, <1>7, <1>8, StepKeeps

\* A status is not the absence of one.
LEMMA StatusIsNotNone == None \notin MovieStatus /\ AdminStatuses \subseteq MovieStatus
BY LifecycleStatuses DEF Lifecycle!StatusesKnown

LEMMA PublishKeeps ==
  ASSUME IInv, NEW p \in Procs, Publish(p)
  PROVE  IInv'
<1> DEFINE t == task[p]
           m == t.movie
<1>1. t # None /\ t.op = "run" /\ t.at = "publish" /\ UNCHANGED stranded
  BY DEF Publish, At, Past
<1>2. CASE Fail(p) /\ UNCHANGED active
  BY <1>1, <1>2, FailKeeps
<1>3. CASE ~(Fail(p) /\ UNCHANGED active)
  <2>1. /\ movie[m] # None /\ movie' = [movie EXCEPT ![m] = "PUBLISHED"] /\ task' = [task EXCEPT ![p] = None] /\ active' = active \ {t.video}
        /\ UNCHANGED <<video, session, store, disk>>
    BY <1>3 DEF Publish, End, Proceed
  <2>2. /\ m \in Movies /\ ClaimsOf(t) = {t.video} /\ ClaimsOf(None) = {}
        /\ video[t.video] # None => video[t.video].status # "UPLOADING"
    BY <1>1, RunContext DEF ClaimsOf, Fits
  <2>3. movie' \in [Movies -> MovieStatus \cup {None}] /\ \A n \in Movies : movie'[n] = None <=> movie[n] = None
    <3>1. "PUBLISHED" \in MovieStatus
      BY DEF MovieStatus
    <3> QED
      BY <2>1, <2>2, <3>1, StatusIsNotNone DEF IInv, Typed
  <2> QED
    BY <1>1, <2>1, <2>2, <2>3, MovieStep
<1> QED
  BY <1>2, <1>3

LEMMA MarkFailedKeeps ==
  ASSUME IInv, NEW p \in Procs, MarkFailed(p)
  PROVE  IInv'
<1> DEFINE t == task[p]
           v == t.video
<1>1. t # None /\ t.op = "run" /\ t.at = "failed" /\ UNCHANGED <<movie, session, store, disk, active, stranded>>
  BY DEF MarkFailed, At, Past
<1>2. CASE Goto(p, "discard") /\ UNCHANGED video
  <2>1. Goto(p, "discard") /\ UNCHANGED <<tables, store, disk, active, stranded>>
    BY <1>1, <1>2 DEF tables
  <2>2. RunAt("discard", t.todo)
    BY DEF RunAt
  <2>3. Promised([t EXCEPT !.at = "discard"]) \subseteq Promised(t)
    <3>1. t \in RunTask
      BY <1>1, Context, ShapeByOp
    <3> QED
      BY <1>1, <3>1 DEF Promised, RunTask, TaskOver
  <2> QED
    BY <1>1, <2>1, <2>2, <2>3, RunMovesOn
<1>3. CASE Row(v) /\ video' = [video EXCEPT ![v].status = "FAILED"] /\ Goto(p, "draft")
  <2> DEFINE r == [video[v] EXCEPT !.status = "FAILED"]
  <2>1. /\ video' = [video EXCEPT ![v].status = "FAILED"] /\ task' = [task EXCEPT ![p] = [t EXCEPT !.at = "draft"]]
    BY <1>3 DEF Goto, Proceed
  <2>2. video[v] \in Video /\ v # None /\ v \in DOMAIN video /\ video[v].movie = t.movie /\ t.movie \in Movies
    BY <1>1, <1>3, RunContext DEF Row
  <2>3. r \in Video /\ r.movie = video[v].movie /\ r.status = "FAILED" /\ video' = [video EXCEPT ![v] = r]
    BY <2>1, <2>2 DEF Video, VideoStatus
  <2> HIDE DEF r
  <2> PICK u : u = [t EXCEPT !.at = "draft"]
    OBVIOUS
  <2>4. /\ Shape(u) /\ HoldsSession(u) /\ u # None
        /\ u.op = "run" /\ u.at = "draft" /\ u.movie = t.movie /\ u.video = v /\ ClaimsOf(u) = ClaimsOf(t)
    <3>1. RunAt("draft", t.todo)
      BY DEF RunAt
    <3> QED
      BY <1>1, <3>1, RunGoesOn
  <2>5. Holds(u)'
    <3>1. HoldsSession(u)'
      BY <1>1, <2>4 DEF HoldsSession
    <3>2. video'[v] = r /\ r # None /\ v \in DOMAIN video'
      BY <2>2, <2>3, NoneIsNoValue DEF IInv, Typed
    <3>3. HoldsVideo(u)'
      BY <2>2, <2>3, <2>4, <3>2 DEF HoldsVideo, Row, Fits
    <3>4. HoldsFiles(u)'
      BY <2>4 DEF HoldsFiles, Promised
    <3> QED
      BY <3>1, <3>3, <3>4 DEF Holds
  <2>6. r.status # "UPLOADING" /\ task' = [task EXCEPT ![p] = u]
    BY <2>1, <2>3
  <2> QED
    BY <1>1, <1>3, <2>2, <2>3, <2>4, <2>5, <2>6, VideoStep DEF Row
<1> QED
  BY <1>2, <1>3 DEF MarkFailed

LEMMA BackToDraftKeeps ==
  ASSUME IInv, NEW p \in Procs, BackToDraft(p)
  PROVE  IInv'
<1> DEFINE t == task[p]
           m == t.movie
           u == [t EXCEPT !.at = "discard"]
<1>1. /\ t # None /\ t.op = "run" /\ t.at = "draft" /\ UNCHANGED <<video, session, store, disk, active, stranded>>
      /\ movie' \in {movie, [movie EXCEPT ![m] = IF movie[m] = None THEN None ELSE "DRAFT"]} /\ task' = [task EXCEPT ![p] = u]
  BY DEF BackToDraft, At, Past, Goto, Proceed
<1>2. /\ m \in Movies
      /\ video[t.video] # None => video[t.video].status # "UPLOADING"
  BY <1>1, RunContext DEF Fits
<1>3. movie' \in [Movies -> MovieStatus \cup {None}] /\ \A n \in Movies : movie'[n] = None <=> movie[n] = None
  <2>1. "DRAFT" \in MovieStatus
    BY DEF MovieStatus
  <2> QED
    BY <1>1, <1>2, <2>1, StatusIsNotNone DEF IInv, Typed
<1>4. /\ Shape(u) /\ HoldsSession(u) /\ u # None
      /\ u.op = "run" /\ u.at = "discard" /\ u.movie = m /\ u.video = t.video /\ ClaimsOf(u) = ClaimsOf(t)
  <2>1. RunAt("discard", t.todo)
    BY DEF RunAt
  <2> QED
    BY <1>1, <2>1, RunGoesOn
<1> HIDE DEF u
<1>5. HoldsVideo(u)
  BY <1>1, <1>4, RunKeepsRow
<1>6. HoldsFiles(u)
  BY <1>4 DEF HoldsFiles, Promised
<1>7. active' = (active \ ClaimsOf(t)) \cup ClaimsOf(u)
  BY <1>1, <1>4, ClaimsOfTask DEF IInv, ClaimIsHeld
<1> QED
  BY <1>1, <1>2, <1>3, <1>4, <1>5, <1>6, <1>7, MovieStep DEF Holds

-----------------------------------------------------------------------------
(* Reprocessing and finalization *)

LEMMA AskReprocessKeeps ==
  ASSUME IInv, NEW p \in Procs, NEW m \in Movies, AskReprocess(p, m)
  PROVE  IInv'
<1> DEFINE u == [op |-> "reprocess", at |-> "claim", movie |-> m, session |-> None, todo |-> {}, video |-> None, seen |-> None]
<1>1. Shape(u)
  <2>1. u \in RunTask
    BY DEF RunTask, TaskOver
  <2>2. RunShape(u)
    BY DEF RunShape
  <2> QED
    BY <2>1, <2>2 DEF Shape
<1>2. Holds(u)
  BY DEF Holds, HoldsSession, HoldsVideo, HoldsFiles, Promised
<1> QED
  BY <1>1, <1>2, AskKeeps DEF AskReprocess

\* The latest video of a title is one of its rows.
LEMMA LatestIsRow ==
  ASSUME IInv, NEW m, Latest(m) # None
  PROVE  Latest(m) \in DOMAIN video /\ video[Latest(m)] # None /\ video[Latest(m)].movie = m
<1>1. Videos(m) # {}
  BY DEF Latest
<1>2. /\ Videos(m) \subseteq Nat /\ Len(video) \in Nat /\ \A v \in Videos(m) : v <= Len(video)
  BY DEF Videos, IInv, Typed
<1>3. \E v \in Videos(m) : \A w \in Videos(m) : w <= v
  BY <1>1, <1>2, NewestExists
<1>4. Latest(m) \in Videos(m)
  BY <1>1, <1>3 DEF Latest
<1> QED
  BY <1>4 DEF Videos, Row

\* A row that failed, or is PROCESSING, and that nobody claims is in nobody's hands.
LEMMA UnclaimedIsFree ==
  ASSUME IInv, NEW v, v # None, video[v] # None, video[v].status \in {"FAILED", "PROCESSING"}, v \notin active,
         NEW q \in Procs, task[q] # None
  PROVE  task[q].video # v
<1> SUFFICES ASSUME task[q].video = v PROVE FALSE
  OBVIOUS
<1>1. Shape(task[q]) /\ Holds(task[q]) /\ Fits(task[q], video[v].status)
  BY Context, RowOrTitle
<1>2. v \notin ClaimsOf(task[q])
  BY ClaimsOfTask DEF IInv, ClaimIsHeld
<1>3. CASE task[q].op \in {"init", "complete", "delete"}
  BY <1>1, <1>3, ShapeByOp DEF FileShape, Fits
<1>4. CASE task[q].op \in {"run", "reprocess"}
  BY <1>1, <1>2, <1>4, ShapeByOp DEF RunShape, ClaimsOf
<1>5. CASE task[q].op = "finalize"
  BY <1>1, <1>5, ShapeByOp DEF FinalizeShape, Fits
<1> QED
  BY <1>1, <1>3, <1>4, <1>5, ShapeByOp

LEMMA ClaimKeeps ==
  ASSUME IInv, NEW p \in Procs, Claim(p)
  PROVE  IInv'
<1> DEFINE t == task[p]
<1> PICK v : v = Latest(t.movie)
  OBVIOUS
<1>1. /\ t # None /\ t.op = "reprocess" /\ t.at = "claim" /\ Shape(t) /\ Holds(t) /\ t \in RunTask /\ t.movie \in Movies
      /\ t.video = None /\ ClaimsOf(t) = {}
      /\ UNCHANGED <<tables, store, disk, stranded>>
  BY Context, ShapeByOp DEF Claim, At, Past, RunShape, ClaimsOf
<1>2. CASE ~(v # None /\ video[v].status \in {"FAILED", "PROCESSING"} /\ v \notin active)
  <2>1. End(p) /\ UNCHANGED active
    BY <1>2 DEF Claim
  <2> QED
    BY <1>1, <2>1, Ends
<1>3. CASE v # None /\ video[v].status \in {"FAILED", "PROCESSING"} /\ v \notin active
  <2> PICK a : a = video[v].archived
    OBVIOUS
  <2> DEFINE u == [t EXCEPT !.at = "fetch", !.video = v, !.seen = a]
  <2>1. active' = active \cup {v} /\ task' = [task EXCEPT ![p] = u]
    BY <1>3 DEF Claim, Proceed
  <2>2. v \in DOMAIN video /\ video[v] # None /\ video[v].movie = t.movie
    BY <1>3, LatestIsRow
  <2>3. v \in Nat /\ a \in BOOLEAN
    BY <2>2 DEF IInv, Typed, Video
  <2>4. /\ u.op = "reprocess" /\ u.at = "fetch" /\ u.movie = t.movie /\ u.session = t.session /\ u.video = v
        /\ u \in RunTask
    BY <1>1, <2>3 DEF RunTask, TaskOver
  <2> HIDE DEF u
  <2>5. Shape(u)
    BY <1>1, <1>3, <2>4 DEF Shape, RunShape
  <2>6. Holds(u)
    <3>1. HoldsVideo(u)
      BY <1>3, <2>2, <2>4 DEF HoldsVideo, Row, Fits
    <3>2. HoldsSession(u)
      BY <1>1, <2>4 DEF Holds, HoldsSession
    <3>3. HoldsFiles(u)
      BY <2>4 DEF HoldsFiles, Promised
    <3> QED
      BY <3>1, <3>2, <3>3 DEF Holds
  <2>7. ClaimsOf(u) = {v}
    BY <2>4, <2>5, ShapeByOp DEF ClaimsOf
  <2>8. \A q \in Procs \ {p} : task[q] # None => task[q].video # u.video
    BY <1>3, <2>2, <2>4, UnclaimedIsFree
  <2>9. active' = (active \ ClaimsOf(t)) \cup ClaimsOf(u)
    BY <1>1, <2>1, <2>7
  <2> QED
    BY <1>1, <2>1, <2>5, <2>6, <2>8, <2>9, QuietStep
<1> QED
  BY <1>2, <1>3

LEMMA FetchOriginalKeeps ==
  ASSUME IInv, NEW p \in Procs, FetchOriginal(p)
  PROVE  IInv'
<1> DEFINE t == task[p]
<1>1. /\ t # None /\ t.op = "reprocess" /\ t.at = "fetch" /\ Shape(t) /\ Holds(t) /\ t \in RunTask /\ t.movie \in Movies
      /\ t.video # None /\ ClaimsOf(t) = {t.video}
      /\ UNCHANGED <<tables, store, chunks, stranded>>
  BY Context, ShapeByOp DEF FetchOriginal, At, Past, RunShape, ClaimsOf
<1>2. video[t.video] # None => video[t.video].status \in {"PROCESSING", "FAILED"}
  BY <1>1, RowOrTitle DEF Fits
<1> PICK u : u = [t EXCEPT !.op = "run", !.at = "mark", !.session = None, !.todo = Tiers]
  OBVIOUS
<1>3. CASE ~Run(p)
  <2>1. End(p) /\ active' = active \ {t.video} /\ UNCHANGED <<scratch, cold>>
    BY <1>3 DEF FetchOriginal
  <2> QED
    BY <1>1, <1>2, <2>1, Ends DEF disk
<1>4. CASE Run(p)
  <2>1. task' = [task EXCEPT ![p] = u]
    BY <1>4 DEF Run, Proceed
  <2>2. /\ u.op = "run" /\ u.at = "mark" /\ u.movie = t.movie /\ u.session = None /\ u.todo = Tiers /\ u.video = t.video
        /\ u \in RunTask
    BY <1>1 DEF RunTask, TaskOver
  <2>3. u # None
    BY <1>1, <2>2, NoneIsNoValue DEF Request
  <2>4. ~End(p)
    <3>1. task'[p] = u
      BY <2>1 DEF IInv, Typed, Workers
    <3>2. End(p) => task'[p] = None
      BY DEF End, Proceed, IInv, Typed, Workers
    <3> QED
      BY <2>3, <3>1, <3>2
  <2>5. /\ active' = active /\ cold' \subseteq cold
        /\ scratch' = scratch \/ scratch' = [scratch EXCEPT ![t.movie] = scratch[t.movie] \cup {"input"}]
    BY <2>4 DEF FetchOriginal
  <2>6. Shape(u)
    BY <1>1, <2>2 DEF Shape, RunShape, RunAt
  <2>7. Holds(u)
    <3>1. HoldsVideo(u)
      BY <1>1, <1>2, <2>2, RowOrTitle DEF HoldsVideo, Row, Fits
    <3> QED
      BY <2>2, <3>1 DEF Holds, HoldsSession, HoldsFiles, Promised
  <2>8. Holds(u)'
    BY <1>1, <2>7, HoldsSame
  <2>9. ClaimsOf(u) = {t.video}
    BY <2>2, <2>3 DEF ClaimsOf
  <2>10. active' = (active \ ClaimsOf(t)) \cup ClaimsOf(u)
    BY <1>1, <2>5, <2>9, ClaimsOfTask DEF IInv, ClaimIsHeld
  <2>11. /\ scratch' \in [Movies -> SUBSET {"input", "tier"}] /\ store' \in [Movies -> SUBSET Assets]
         /\ chunks' \in Seq({None} \cup SUBSET Chunks) /\ Len(chunks') = Len(chunks)
         /\ \A m \in Movies : movie[m] # None => store[m] \subseteq store'[m]
    BY <1>1, <2>5 DEF IInv, Typed
  <2> QED
    BY <1>1, <2>1, <2>2, <2>3, <2>5, <2>6, <2>8, <2>10, <2>11, DiskStep
<1> QED
  BY <1>3, <1>4

LEMMA AskFinalizeKeeps ==
  ASSUME IInv, NEW p \in Procs, NEW m \in Movies, NEW wanted \in SUBSET Tiers, AskFinalize(p, m, wanted)
  PROVE  IInv'
<1> DEFINE u == [op |-> "finalize", at |-> "load", movie |-> m, session |-> None, todo |-> wanted, video |-> None, seen |-> None]
<1>1. Shape(u)
  <2>1. u \in FinalizeTask
    BY DEF FinalizeTask, TaskOver
  <2>2. FinalizeShape(u)
    BY DEF FinalizeShape
  <2> QED
    BY <2>1, <2>2 DEF Shape
<1>2. Holds(u)
  BY DEF Holds, HoldsSession, HoldsVideo, HoldsFiles, Promised
<1> QED
  BY <1>1, <1>2, AskKeeps DEF AskFinalize

\* What is known of a bundle being finalized.
LEMMA FinalizeContext ==
  ASSUME IInv, NEW p \in Procs, task[p] # None, task[p].op = "finalize"
  PROVE  LET t == task[p]
         IN  /\ Shape(t) /\ Holds(t) /\ t \in FinalizeTask /\ FinalizeShape(t) /\ t.movie \in Movies /\ ClaimsOf(t) = {}
             /\ t.at \notin {"ready", "flip"} => t.video = None
             /\ t.at = "flip" => t.video # None /\ (video[t.video] = None \/ video[t.video].status = "READY")
<1>1. Shape(task[p]) /\ Holds(task[p]) /\ task[p] \in FinalizeTask /\ FinalizeShape(task[p])
  BY Context, ShapeByOp
<1>2. task[p].at = "flip" => task[p].video # None /\ (video[task[p].video] = None \/ video[task[p].video].status = "READY")
  BY <1>1, RowOrTitle DEF FinalizeShape, Fits
<1> QED
  BY <1>1, <1>2 DEF FinalizeShape, ClaimsOf

LEMMA LoadMovieKeeps ==
  ASSUME IInv, NEW p \in Procs, LoadMovie(p)
  PROVE  IInv'
<1> DEFINE t == task[p]
<1>1. /\ t # None /\ t.op = "finalize" /\ t.at = "load" /\ UNCHANGED <<tables, store, disk, active, stranded>>
      /\ Shape(t) /\ Holds(t) /\ t \in FinalizeTask /\ t.movie \in Movies /\ t.video = None /\ ClaimsOf(t) = {}
  BY FinalizeContext DEF LoadMovie, At, Past
<1>2. CASE movie[t.movie] \notin FinalizableMovieStatuses
  <2>1. End(p)
    BY <1>2 DEF LoadMovie
  <2> QED
    BY <1>1, <2>1, Ends
<1>3. CASE movie[t.movie] \in FinalizableMovieStatuses
  <2> PICK at : at = (IF t.todo = {} THEN "reject" ELSE "verify")
    OBVIOUS
  <2> PICK s \in FinalizableMovieStatuses : s = movie[t.movie]
    BY <1>3
  <2> DEFINE u == [t EXCEPT !.at = at, !.seen = s]
  <2>1. task' = [task EXCEPT ![p] = u]
    BY <1>3 DEF LoadMovie, Proceed
  <2>2. /\ u.op = "finalize" /\ u.at = at /\ u.movie = t.movie /\ u.session = t.session /\ u.video = None /\ u.seen = s
        /\ u \in FinalizeTask /\ at \in {"reject", "verify"}
    BY <1>1 DEF FinalizeTask, TaskOver
  <2> HIDE DEF u
  <2>3. Shape(u) /\ ClaimsOf(u) = {}
    BY <1>1, <2>2 DEF Shape, FinalizeShape, ClaimsOf
  <2>4. Holds(u)
    BY <1>1, <2>2 DEF Holds, HoldsSession, HoldsVideo, HoldsFiles, Promised
  <2> QED
    BY <1>1, <2>1, <2>2, <2>3, <2>4, GoesOn
<1> QED
  BY <1>2, <1>3

LEMMA VerifyObjectsKeeps ==
  ASSUME IInv, NEW p \in Procs, VerifyObjects(p)
  PROVE  IInv'
<1> DEFINE t == task[p]
           required == {Original, Master} \cup {Index(x) : x \in t.todo}
<1>1. /\ t # None /\ t.op = "finalize" /\ t.at = "verify" /\ UNCHANGED <<tables, store, disk, active, stranded>>
      /\ Shape(t) /\ Holds(t) /\ t \in FinalizeTask /\ FinalizeShape(t) /\ t.movie \in Movies /\ t.video = None /\ ClaimsOf(t) = {}
  BY FinalizeContext DEF VerifyObjects, At, Past
<1> PICK at : at = (IF required \subseteq store[t.movie] THEN "create" ELSE "reject")
  OBVIOUS
<1> DEFINE u == [t EXCEPT !.at = at]
<1>2. task' = [task EXCEPT ![p] = u]
  BY DEF VerifyObjects, Goto, Proceed
<1>3. /\ u.op = "finalize" /\ u.at = at /\ u.movie = t.movie /\ u.session = t.session /\ u.video = None /\ u.seen = t.seen
      /\ u.todo = t.todo /\ u \in FinalizeTask /\ at \in {"create", "reject"}
  BY <1>1 DEF FinalizeTask, TaskOver
<1> HIDE DEF u
<1>4. Shape(u) /\ ClaimsOf(u) = {}
  BY <1>1, <1>3 DEF Shape, FinalizeShape, ClaimsOf
<1>5. Promised(u) \subseteq store[t.movie]
  BY <1>1, <1>3 DEF Promised
<1>6. Holds(u)
  BY <1>1, <1>3, <1>5 DEF Holds, HoldsSession, HoldsVideo, HoldsFiles
<1> QED
  BY <1>1, <1>2, <1>3, <1>4, <1>6, GoesOn

LEMMA SettleKeeps ==
  ASSUME IInv, NEW p \in Procs, Settle(p)
  PROVE  IInv'
<1> DEFINE t == task[p]
           m == t.movie
<1> PICK s : s = (IF t.at = "flip" THEN "READY_TO_PUBLISH" ELSE "FAILED")
  OBVIOUS
<1>1. /\ t # None /\ t.op = "finalize" /\ t.at \in {"reject", "flip"} /\ UNCHANGED <<video, session, store, disk, active, stranded>>
      /\ FinalizeShape(t) /\ m \in Movies /\ ClaimsOf(t) = {}
      /\ t.video # None => video[t.video] = None \/ video[t.video].status # "UPLOADING"
  BY FinalizeContext DEF Settle, At, Past
<1>2. task' = [task EXCEPT ![p] = None] /\ ClaimsOf(None) = {}
  BY DEF Settle, End, Proceed, ClaimsOf
<1>3. movie' = movie \/ (movie' = [movie EXCEPT ![m] = s] /\ movie[m] \in FinalizableMovieStatuses)
  <2>1. movie' = [movie EXCEPT ![m] = IF movie[m] # t.seen THEN movie[m] ELSE s]
    BY DEF Settle
  <2>2. t.seen \in FinalizableMovieStatuses
    BY <1>1 DEF FinalizeShape
  <2> QED
    BY <1>1, <2>1, <2>2 DEF IInv, Typed
<1>4. movie' \in [Movies -> MovieStatus \cup {None}] /\ \A n \in Movies : movie'[n] = None <=> movie[n] = None
  <2>1. s \in MovieStatus /\ FinalizableMovieStatuses \subseteq MovieStatus
    BY DEF MovieStatus, FinalizableMovieStatuses
  <2> QED
    <3>1. movie \in [Movies -> MovieStatus \cup {None}] /\ None \notin MovieStatus
      BY StatusIsNotNone DEF IInv, Typed
    <3>2. CASE movie' = movie
      BY <3>1, <3>2
    <3>3. CASE movie' = [movie EXCEPT ![m] = s] /\ movie[m] \in FinalizableMovieStatuses
      BY <1>1, <2>1, <3>1, <3>3
    <3> QED
      BY <1>3, <3>2, <3>3
<1>5. active' = (active \ ClaimsOf(t)) \cup ClaimsOf(None)
  BY <1>1, <1>2
<1> QED
  BY <1>1, <1>2, <1>4, <1>5, MovieStep

-----------------------------------------------------------------------------
(* Everybody else *)

LEMMA DeliverKeeps ==
  ASSUME IInv, NEW m \in Movies, NEW o \in Bundle, Deliver(m, o)
  PROVE  IInv'
<1>1. /\ UNCHANGED <<movie, video, session, chunks, scratch, cold, task, active, stranded>>
      /\ store' = [store EXCEPT ![m] = store[m] \cup {o}] /\ o \in Assets
  BY FilesKnown DEF Deliver, Land, tables, disk
<1>2. store' \in [Movies -> SUBSET Assets] /\ \A n \in Movies : store[n] \subseteq store'[n]
  BY <1>1 DEF IInv, Typed
<1>3. Typed' /\ RowsHaveTitles'
  BY <1>1, <1>2 DEF IInv, Typed, RowsHaveTitles, Row
<1>4. World(None)
  BY <1>1, <1>2 DEF World, Young, InProgress, IInv, RowsHaveTitles
<1> QED
  BY <1>1, <1>3, <1>4, OutsideStep

LEMMA StraggleKeeps ==
  ASSUME IInv, NEW m \in Movies, NEW t \in Tiers, Straggle(m, t)
  PROVE  IInv'
<1>1. PICK o \in {Index(t), Segments(t)} : store' = [store EXCEPT ![m] = store[m] \cup {o}]
  BY DEF Straggle
<1>2. UNCHANGED <<movie, video, session, chunks, scratch, cold, task, active, stranded>> /\ o \in Assets
  BY DEF Straggle, tables, disk, Past, Assets
<1>3. store' \in [Movies -> SUBSET Assets] /\ \A n \in Movies : store[n] \subseteq store'[n]
  BY <1>1, <1>2 DEF IInv, Typed
<1>4. Typed' /\ RowsHaveTitles'
  BY <1>2, <1>3 DEF IInv, Typed, RowsHaveTitles, Row
<1>5. World(None)
  BY <1>2, <1>3 DEF World, Young, InProgress, IInv, RowsHaveTitles
<1> QED
  BY <1>2, <1>4, <1>5, OutsideStep

LEMMA SetStatusKeeps ==
  ASSUME IInv, NEW m \in Movies, NEW status \in AdminStatuses, SetStatus(m, status)
  PROVE  IInv'
<1>1. /\ UNCHANGED <<video, session, store, chunks, scratch, cold, task, active, stranded>>
      /\ movie[m] # None /\ movie' = [movie EXCEPT ![m] = status]
  BY DEF SetStatus, disk
<1>2. movie' \in [Movies -> MovieStatus \cup {None}] /\ \A n \in Movies : movie'[n] = None <=> movie[n] = None
  BY <1>1, StatusIsNotNone DEF IInv, Typed
<1>3. \A w \in DOMAIN video : video[w] # None => video[w].movie \in Movies
  BY DEF IInv, Typed, Video
<1>4. Typed' /\ RowsHaveTitles'
  BY <1>1, <1>2, <1>3 DEF IInv, Typed, RowsHaveTitles, Row
<1>5. World(None)
  BY <1>1, <1>2 DEF World, Young, InProgress, IInv, RowsHaveTitles
<1> QED
  BY <1>1, <1>4, <1>5, OutsideStep

LEMMA DeleteMovieKeeps ==
  ASSUME IInv, NEW p \in Procs, NEW m \in Movies, DeleteMovie(p, m)
  PROVE  IInv'
<1> PICK u : u = [op |-> "delete", at |-> "wipe", movie |-> m, session |-> None, todo |-> {}, video |-> None, seen |-> None]
  OBVIOUS
<1>1. /\ task[p] = None /\ task' = [task EXCEPT ![p] = u]
      /\ movie' = [movie EXCEPT ![m] = None]
      /\ UNCHANGED <<store, chunks, scratch, cold, active, stranded>>
  BY DEF DeleteMovie, Proceed, disk
<1>2. /\ video' = [v \in DOMAIN video |-> IF video[v] # None /\ video[v].movie = m THEN None ELSE video[v]]
      /\ session' = [i \in DOMAIN session |-> IF session[i] # None /\ session[i].file.movie = m THEN None ELSE session[i]]
  BY DEF DeleteMovie, Row
<1>3. /\ Shape(u) /\ u # None /\ u.op = "delete" /\ u.movie = m /\ u.session = None /\ u.video = None
      /\ ClaimsOf(u) = {} /\ ClaimsOf(task[p]) = {}
  <2>1. u \in FileTask
    BY DEF FileTask, TaskOver
  <2>2. FileShape(u)
    BY DEF FileShape
  <2> QED
    BY <1>1, <2>1, <2>2, ShapeByOp DEF Shape, ClaimsOf
<1>4. /\ video' \in Seq(Video \cup {None}) /\ Len(video') = Len(video) /\ DOMAIN video' = DOMAIN video
      /\ \A v \in DOMAIN video : video'[v] = None \/ (video'[v] = video[v] /\ video[v].movie # m)
      /\ \A v \in DOMAIN video : video[v] # None /\ video'[v] = None => video[v].movie = m
  <2>1. video' \in [DOMAIN video -> Video \cup {None}]
    BY <1>2 DEF IInv, Typed
  <2> QED
    BY <1>2, <2>1, Rewritten DEF IInv, Typed
<1>5. /\ session' \in Seq(Session \cup {None}) /\ Len(session') = Len(session) /\ DOMAIN session' = DOMAIN session
      /\ \A i \in DOMAIN session : session'[i] = None \/ session'[i] = session[i]
      /\ \A i \in DOMAIN session : session[i] # None /\ session'[i] = None => session[i].file.movie = m
  <2>1. session' \in [DOMAIN session -> Session \cup {None}]
    BY <1>2 DEF IInv, Typed
  <2> QED
    BY <1>2, <2>1, Rewritten DEF IInv, Typed
<1>6. movie' \in [Movies -> MovieStatus \cup {None}] /\ movie'[m] = None /\ \A n \in Movies \ {m} : movie'[n] = movie[n]
  BY <1>1 DEF IInv, Typed
<1>7. World(None)
  BY <1>1, <1>4, <1>5, <1>6 DEF World, Young, InProgress
<1>8. RowsHaveTitles'
  <2>1. \A w \in DOMAIN video : video[w] # None => video[w].movie \in Movies /\ movie[video[w].movie] # None
    BY DEF IInv, Typed, Video, RowsHaveTitles, Row
  <2> QED
    BY <1>4, <1>6, <2>1 DEF RowsHaveTitles, Row
<1>9. Typed'
  <2>1. u \in Request
    BY <1>3, ShapeByOp
  <2>2. task' \in [Workers -> Request \cup SweepTask \cup {None}] /\ task'[Cron] \in SweepTask \cup {None}
    BY <1>1, <2>1, CronIsNoRequest DEF IInv, Typed, Workers
  <2> QED
    BY <1>1, <1>4, <1>5, <1>6, <2>2 DEF IInv, Typed
<1>10. Holds(u)'
  BY <1>3, <1>6 DEF Holds, HoldsSession, HoldsVideo, HoldsFiles, Promised
<1>11. Free(p, u) /\ StillWorkedOn(p, u)
  BY <1>1, <1>3, <1>4 DEF Free, StillWorkedOn
<1>12. active' = (active \ ClaimsOf(task[p])) \cup ClaimsOf(u)
  BY <1>1, <1>3
<1> QED
  BY <1>1, <1>3, <1>7, <1>8, <1>9, <1>10, <1>11, <1>12, StepKeeps

\* The files go only of a title that is gone.
LEMMA WipeKeeps ==
  ASSUME IInv, NEW p \in Procs, Wipe(p)
  PROVE  IInv'
<1> DEFINE t == task[p]
<1>1. /\ t # None /\ t.op = "delete" /\ t.at = "wipe" /\ t.movie \in Movies /\ t.video = None /\ ClaimsOf(t) = {}
      /\ movie[t.movie] = None /\ ClaimsOf(None) = {}
      /\ UNCHANGED <<tables, chunks, scratch, cold, active, stranded>>
      /\ store' = [store EXCEPT ![t.movie] = {}] /\ task' = [task EXCEPT ![p] = None]
  BY Context, ShapeByOp DEF Wipe, At, Past, disk, FileShape, Holds, HoldsFiles, ClaimsOf, End, Proceed
<1>2. /\ store' \in [Movies -> SUBSET Assets] /\ \A m \in Movies : movie[m] # None => store[m] \subseteq store'[m]
      /\ chunks' \in Seq({None} \cup SUBSET Chunks) /\ scratch' \in [Movies -> SUBSET {"input", "tier"}]
  BY <1>1 DEF IInv, Typed
<1> QED
  BY <1>1, <1>2, DiskStep

\* A step of the sweep.
LEMMA CronStep ==
  ASSUME IInv, UNCHANGED <<tables, store, active, stranded>>,
         chunks' \in Seq({None} \cup SUBSET Chunks), Len(chunks') = Len(chunks),
         scratch' \in [Movies -> SUBSET {"input", "tier"}],
         NEW u \in SweepTask \cup {None}, task' = [task EXCEPT ![Cron] = u],
         Swept'
  PROVE  IInv'
<1>1. task'[Cron] = u /\ \A p \in Procs : task'[p] = task[p]
  BY CronIsNoRequest DEF IInv, Typed, Workers
<1>2. Typed'
  BY <1>1 DEF IInv, Typed, Workers, tables
<1>3. Described'
  <2> SUFFICES ASSUME NEW p \in Procs, NEW t, t = task'[p], t # None PROVE Shape(t) /\ Holds(t)'
    BY DEF Described, Holds, HoldsSession, HoldsVideo, HoldsFiles
  <2>1. task[p] = t /\ Shape(t) /\ Holds(t)
    BY <1>1, Context
  <2> QED
    BY <2>1, HoldsSame
<1>4. Exclusive' /\ RowsHaveTitles'
  BY <1>1 DEF IInv, Exclusive, RowsHaveTitles, Row, tables
<1>5. ClaimIsHeld'
  <2>1. \A p \in Procs : Claims(p)' = Claims(p)
    BY <1>1 DEF Claims, At
  <2> QED
    BY <2>1 DEF IInv, ClaimIsHeld
<1>6. UploadingIsWorkedOn'
  BY <1>1 DEF IInv, UploadingIsWorkedOn, Row, tables
<1> QED
  BY <1>2, <1>3, <1>4, <1>5, <1>6 DEF IInv

LEMMA DirectoriesArePlaces ==
  ASSUME IInv
  PROVE  Owned \subseteq Places /\ Directories \subseteq Places
<1>1. DOMAIN session \subseteq Nat /\ DOMAIN chunks \subseteq Nat
  BY DEF IInv, Typed
<1>2. \A v \in DOMAIN video : Row(v) => video[v].movie \in Movies
  BY DEF IInv, Typed, Video, Row
<1> QED
  BY <1>1, <1>2 DEF Owned, Directories, Places, Dir, ScratchDir

LEMMA StartSweepKeeps ==
  ASSUME IInv, StartSweep
  PROVE  IInv'
<1> PICK u : u = [op |-> "sweep", at |-> "list", movie |-> None, session |-> None, video |-> None, seen |-> None, todo |-> Owned]
  OBVIOUS
<1>1. task' = [task EXCEPT ![Cron] = u] /\ UNCHANGED <<tables, store, chunks, scratch, cold, active, stranded>>
  BY DEF StartSweep, Proceed, disk, Past
<1>2. u \in SweepTask /\ u.todo = Owned /\ u.at = "list"
  BY DirectoriesArePlaces DEF SweepTask, TaskOver
<1>3. task'[Cron] = u
  BY <1>1 DEF IInv, Typed, Workers
<1>4. \A i \in DOMAIN session : Young(i) => Dir(i) \in Owned
  BY DEF Owned, Young
<1>5. Swept'
  BY <1>1, <1>2, <1>3, <1>4 DEF IInv, Swept, Young, InProgress, tables, Dir
<1>6. /\ chunks' \in Seq({None} \cup SUBSET Chunks) /\ Len(chunks') = Len(chunks)
      /\ scratch' \in [Movies -> SUBSET {"input", "tier"}]
  BY <1>1 DEF IInv, Typed
<1> QED
  BY <1>1, <1>2, <1>5, <1>6, CronStep

LEMMA ListScratchKeeps ==
  ASSUME IInv, ListScratch
  PROVE  IInv'
<1> DEFINE t == task[Cron]
<1> PICK u : u = [t EXCEPT !.at = "rm", !.todo = Directories \ t.todo]
  OBVIOUS
<1>1. /\ t # None /\ t.at = "list" /\ task' = [task EXCEPT ![Cron] = u]
      /\ UNCHANGED <<tables, store, chunks, scratch, cold, active, stranded>>
  BY DEF ListScratch, At, Proceed, disk, Past
<1>2. u \in SweepTask /\ u.todo = Directories \ t.todo /\ u.at = "rm"
  BY <1>1, DirectoriesArePlaces DEF SweepTask, TaskOver, IInv, Typed
<1>3. task'[Cron] = u
  BY <1>1 DEF IInv, Typed, Workers
<1>4. \A i \in DOMAIN session : Young(i) /\ Dir(i) \in cold => Dir(i) \notin u.todo
  BY <1>1, <1>2 DEF IInv, Swept
<1>5. Swept'
  BY <1>1, <1>2, <1>3, <1>4 DEF IInv, Swept, Young, InProgress, tables, Dir
<1>6. /\ chunks' \in Seq({None} \cup SUBSET Chunks) /\ Len(chunks') = Len(chunks)
      /\ scratch' \in [Movies -> SUBSET {"input", "tier"}]
  BY <1>1 DEF IInv, Typed
<1> QED
  BY <1>1, <1>2, <1>5, <1>6, CronStep

LEMMA SweepDirectoryKeeps ==
  ASSUME IInv, SweepDirectory
  PROVE  IInv'
<1> DEFINE t == task[Cron]
<1>1. t # None /\ t.op = "sweep" /\ t.at = "rm" /\ UNCHANGED <<tables, store, cold, active, stranded>>
  BY DEF SweepDirectory, At, Past
<1>2. CASE t.todo \cap Directories \cap cold = {}
  <2>1. task' = [task EXCEPT ![Cron] = None] /\ UNCHANGED <<chunks, scratch>>
    BY <1>2 DEF SweepDirectory, End, Proceed
  <2>2. task'[Cron] = None
    BY <2>1 DEF IInv, Typed, Workers
  <2>3. Swept'
    BY <1>1, <2>1, <2>2 DEF IInv, Swept, Dir
  <2>4. /\ chunks' \in Seq({None} \cup SUBSET Chunks) /\ Len(chunks') = Len(chunks)
        /\ scratch' \in [Movies -> SUBSET {"input", "tier"}]
    BY <2>1 DEF IInv, Typed
  <2> QED
    BY <1>1, <2>1, <2>3, <2>4, CronStep
<1>3. CASE t.todo \cap Directories \cap cold # {}
  <2>1. PICK d \in t.todo \cap Directories \cap cold :
          /\ \/ /\ chunks' = [i \in DOMAIN chunks |-> IF Dir(i) = d THEN None ELSE chunks[i]]
                /\ scratch' = [m \in Movies |-> IF ScratchDir(m) = d THEN {} ELSE scratch[m]]
             \/ UNCHANGED <<chunks, scratch>>
          /\ task' = [task EXCEPT ![Cron] = [t EXCEPT !.todo = t.todo \ {d}]]
    BY <1>3 DEF SweepDirectory, Proceed
  <2> PICK u : u = [t EXCEPT !.todo = t.todo \ {d}]
    OBVIOUS
  <2>2. u \in SweepTask /\ u.todo = t.todo \ {d} /\ u.at = "rm"
    BY <1>1 DEF SweepTask, TaskOver, IInv, Typed
  <2>3. task'[Cron] = u
    BY <2>1 DEF IInv, Typed, Workers
  <2>4. \A i \in DOMAIN session : Young(i) /\ Dir(i) \in cold => Dir(i) \notin u.todo
    BY <1>1, <2>2 DEF IInv, Swept
  <2>5. /\ chunks' \in Seq({None} \cup SUBSET Chunks) /\ Len(chunks') = Len(chunks) /\ DOMAIN chunks' = DOMAIN chunks
        /\ scratch' \in [Movies -> SUBSET {"input", "tier"}]
    <3>1. /\ chunks \in Seq({None} \cup SUBSET Chunks)
          /\ scratch \in [Movies -> SUBSET {"input", "tier"}]
      BY DEF IInv, Typed
    <3>2. CASE UNCHANGED <<chunks, scratch>>
      BY <3>1, <3>2
    <3>3. CASE /\ chunks' = [i \in DOMAIN chunks |-> IF Dir(i) = d THEN None ELSE chunks[i]]
               /\ scratch' = [m \in Movies |-> IF ScratchDir(m) = d THEN {} ELSE scratch[m]]
      <4>1. \A i \in DOMAIN chunks : chunks'[i] \in {None} \cup SUBSET Chunks
        BY <3>1, <3>3
      <4>2. DOMAIN chunks' = DOMAIN chunks /\ chunks' \in [DOMAIN chunks -> {None} \cup SUBSET Chunks]
        BY <3>3, <4>1
      <4>3. chunks' \in Seq({None} \cup SUBSET Chunks) /\ Len(chunks') = Len(chunks)
        BY <3>1, <4>2
      <4>4. scratch' \in [Movies -> SUBSET {"input", "tier"}]
        BY <3>1, <3>3
      <4> QED
        BY <4>2, <4>3, <4>4
    <3> QED
      BY <2>1, <3>2, <3>3
  <2>6. Swept'
    BY <1>1, <2>2, <2>3, <2>4, <2>5 DEF IInv, Swept, Young, InProgress, tables, Dir
  <2> QED
    BY <1>1, <2>1, <2>2, <2>5, <2>6, CronStep
<1> QED
  BY <1>2, <1>3

\* A day without a request: files and sessions grow older, transcodes run on.
LEMMA DayPassesKeeps ==
  ASSUME IInv, DayPasses
  PROVE  IInv'
<1>1. /\ UNCHANGED <<movie, video, store, chunks, scratch, active, task, stranded>> /\ cold' = Directories
      /\ session' = [i \in DOMAIN session |-> IF InProgress(i) /\ session[i].age < 2
                                              THEN [session[i] EXCEPT !.age = session[i].age + 1] ELSE session[i]]
  BY DEF DayPasses, Past
<1>2. task[Cron] = None
  <2>1. task[Cron] = None \/ task[Cron].op = "run"
    BY DEF DayPasses, At, Workers
  <2>2. task[Cron] \in SweepTask => task[Cron].op = "sweep"
    BY DEF SweepTask, TaskOver
  <2> QED
    BY <2>1, <2>2 DEF IInv, Typed
<1>3. \A i \in DOMAIN session : session[i] \in Session \cup {None}
  BY DEF IInv, Typed
<1>4. \A i \in DOMAIN session : InProgress(i) /\ session[i].age < 2 =>
          LET r == [session[i] EXCEPT !.age = session[i].age + 1]
          IN  r \in Session /\ r.file = session[i].file /\ r.status = session[i].status /\ r.age = session[i].age + 1 /\ r # None
  <2> SUFFICES ASSUME NEW i \in DOMAIN session, session[i] # None, session[i].age < 2
               PROVE  LET r == [session[i] EXCEPT !.age = session[i].age + 1]
                      IN  r \in Session /\ r.file = session[i].file /\ r.status = session[i].status /\ r.age = session[i].age + 1 /\ r # None
    BY DEF InProgress
  <2>1. session[i] \in Session
    BY <1>3
  <2> QED
    BY <2>1, NoneIsNoValue DEF Session
<1>5. /\ session' \in Seq(Session \cup {None}) /\ Len(session') = Len(session) /\ DOMAIN session' = DOMAIN session
      /\ \A i \in DOMAIN session : session'[i] = None <=> session[i] = None
      /\ \A i \in DOMAIN session : session[i] # None => session'[i].file = session[i].file
  <2>1. session' \in [DOMAIN session -> Session \cup {None}]
    BY <1>1, <1>3, <1>4
  <2>2. session' \in Seq(Session \cup {None}) /\ Len(session') = Len(session) /\ DOMAIN session' = DOMAIN session
    BY <2>1, Rewritten DEF IInv, Typed
  <2>3. ASSUME NEW i \in DOMAIN session
        PROVE  (session'[i] = None <=> session[i] = None) /\ (session[i] # None => session'[i].file = session[i].file)
    <3>1. CASE InProgress(i) /\ session[i].age < 2
      BY <1>1, <1>4, <3>1 DEF InProgress
    <3>2. CASE ~(InProgress(i) /\ session[i].age < 2)
      BY <1>1, <3>2
    <3> QED
      BY <3>1, <3>2
  <2> QED
    BY <2>2, <2>3
<1>6. \A i \in DOMAIN session : Young(i)' => Young(i)
  <2> SUFFICES ASSUME NEW i \in DOMAIN session, session'[i] # None, session'[i].status = "IN_PROGRESS", session'[i].age < 2
               PROVE  session[i] # None /\ session[i].status = "IN_PROGRESS" /\ session[i].age < 2
    BY DEF Young, InProgress
  <2>1. CASE InProgress(i) /\ session[i].age < 2
    BY <2>1 DEF InProgress
  <2>2. CASE ~(InProgress(i) /\ session[i].age < 2)
    <3>1. session'[i] = session[i]
      BY <1>1, <2>2
    <3> QED
      BY <3>1
  <2> QED
    BY <2>1, <2>2
<1>7. World(None)
  BY <1>1, <1>5, <1>6 DEF World, IInv, RowsHaveTitles
<1>8. Typed' /\ RowsHaveTitles'
  BY <1>1, <1>5 DEF IInv, Typed, RowsHaveTitles, Row
<1>9. Described'
  <2> SUFFICES ASSUME NEW p \in Procs, NEW t, t = task'[p], t # None PROVE Shape(t) /\ Holds(t)'
    BY DEF Described, Holds, HoldsSession, HoldsVideo, HoldsFiles
  <2>1. task[p] = t /\ Shape(task[p]) /\ Holds(task[p])
    BY <1>1, Context
  <2>2. Shape(t) /\ Holds(t) /\ (t.video # None \/ t.video = None)
    BY <2>1
  <2> QED
    BY <1>7, <2>2, HoldsStays
<1>10. Exclusive' /\ ClaimIsHeld' /\ UploadingIsWorkedOn'
  <2>1. \A p \in Procs : Claims(p)' = Claims(p)
    BY <1>1 DEF Claims, At
  <2> QED
    BY <1>1, <2>1 DEF IInv, Exclusive, ClaimIsHeld, UploadingIsWorkedOn, Row
<1>11. Swept'
  <2>1. \A i : Dir(i) \in Directories => i \in DOMAIN chunks
    BY DEF Directories, Dir, ScratchDir
  <2> QED
    BY <1>1, <1>2, <2>1 DEF Swept, Dir
<1> QED
  BY <1>8, <1>9, <1>10, <1>11 DEF IInv

LEMMA RestartKeeps ==
  ASSUME IInv, Restart
  PROVE  IInv'
BY ForgetKeeps DEF Restart

\* A request breaks off: it had no claim yet, and its row is counted as stranded.
LEMMA ThrowKeeps ==
  ASSUME IInv, NEW p \in Procs, Throw(p)
  PROVE  IInv'
<1> DEFINE t == task[p]
<1>1. /\ t # None /\ (t.op \in {"init", "complete", "finalize", "delete"} \/ (t.op = "reprocess" /\ t.at = "claim"))
      /\ task' = [task EXCEPT ![p] = None] /\ Strand({p})
      /\ UNCHANGED <<movie, video, session, store, chunks, scratch, cold, active>>
  BY DEF Throw, At, End, Proceed, tables, disk
<1>2. ClaimsOf(t) = {} /\ ClaimsOf(None) = {}
  BY <1>1 DEF ClaimsOf
<1>3. /\ stranded \subseteq stranded' /\ stranded' \subseteq DOMAIN video
      /\ \A v \in DOMAIN video : video[v] # None /\ video[v].status = "UPLOADING" /\ t.video = v => v \in stranded'
  BY <1>1 DEF Strand, IInv, Typed, Row
<1>4. Typed'
  <2>1. task' \in [Workers -> Request \cup SweepTask \cup {None}] /\ task'[Cron] \in SweepTask \cup {None}
    BY <1>1, CronIsNoRequest DEF IInv, Typed, Workers
  <2> QED
    BY <1>1, <1>3, <2>1 DEF IInv, Typed
<1>5. World(None) /\ RowsHaveTitles'
  BY <1>1 DEF World, Young, InProgress, IInv, RowsHaveTitles, Row
<1>6. Free(p, None) /\ StillWorkedOn(p, None)
  BY <1>1, <1>3 DEF Free, StillWorkedOn
<1>7. active' = (active \ ClaimsOf(t)) \cup ClaimsOf(None)
  BY <1>1, <1>2
<1> QED
  BY <1>1, <1>3, <1>4, <1>5, <1>6, <1>7, StepKeeps

-----------------------------------------------------------------------------
(* The invariant holds *)

LEMMA InitIsSound == Init => IInv
<1> SUFFICES ASSUME Init PROVE IInv
  OBVIOUS
<1>1. /\ cold = {} /\ active = {} /\ task = [p \in Workers |-> None] /\ stranded = {}
      /\ \A p \in Workers : task[p] = None
  BY DEF Init
<1>2. PICK s \in Start : /\ movie = s.movie /\ video = s.video /\ session = s.session
                         /\ store = s.store /\ chunks = s.chunks /\ scratch = s.scratch
  BY DEF Init
<1>3. Typed
  BY <1>1, <1>2, StartIsSound DEF Typed, Workers
<1>4. \A v \in DOMAIN video : Row(v) => video[v].status \in {"PROCESSING", "FAILED"} /\ movie[video[v].movie] # None
  BY <1>2, StartIsSound DEF Row
<1>5. Described /\ Exclusive /\ RowsHaveTitles /\ Swept
  BY <1>1, <1>4 DEF Described, Exclusive, RowsHaveTitles, Swept, Workers
<1>6. ClaimIsHeld
  <2>1. \A p \in Procs : Claims(p) = {}
    BY <1>1 DEF Claims, Workers
  <2> QED
    BY <1>1, <2>1 DEF ClaimIsHeld
<1>7. UploadingIsWorkedOn
  BY <1>4 DEF UploadingIsWorkedOn
<1> QED
  BY <1>3, <1>5, <1>6, <1>7 DEF IInv

LEMMA ReceiveKeeps ==
  ASSUME IInv, NEW p \in Procs, Receive(p)
  PROVE  IInv'
BY AskInitKeeps, AskCompleteKeeps, AskReprocessKeeps, DeleteMovieKeeps, AskFinalizeKeeps DEF Receive

LEMMA HandleKeeps ==
  ASSUME IInv, NEW p \in Procs, Handle(p)
  PROVE  IInv'
<1>1. CASE Upload(p)
  BY <1>1, FindSessionKeeps, ResumeKeeps, InsertSessionKeeps, MakeDirKeeps, CheckChunksKeeps, MergeKeeps, PutMergedKeeps,
     CreateVideoKeeps, CloseSessionKeeps, CleanChunksKeeps, StartRunKeeps DEF Upload
<1>2. CASE Pipeline(p)
  BY <1>2, MarkProcessingKeeps, ArchiveKeeps, RecordPathKeeps, NextTierKeeps, EncodeKeeps, PushKeeps, PutMasterKeeps,
     CleanScratchKeeps, MarkReadyKeeps, PublishKeeps, MarkFailedKeeps, BackToDraftKeeps DEF Pipeline
<1>3. CASE Reprocess(p) \/ Finalize(p) \/ Wipe(p)
  BY <1>3, ClaimKeeps, FetchOriginalKeeps, LoadMovieKeeps, VerifyObjectsKeeps, SettleKeeps, WipeKeeps DEF Reprocess, Finalize
<1> QED
  BY <1>1, <1>2, <1>3 DEF Handle

LEMMA StepIsSound ==
  ASSUME IInv, [Next]_vars
  PROVE  IInv'
<1>1. CASE UNCHANGED vars
  <2>1. /\ UNCHANGED <<tables, store, disk, active, task, stranded, movie, video, session, chunks, scratch, cold>>
    BY <1>1 DEF vars, tables, disk
  <2>2. World(None) /\ Typed' /\ RowsHaveTitles'
    BY <2>1 DEF World, Young, InProgress, IInv, Typed, RowsHaveTitles, Row
  <2> QED
    BY <2>1, <2>2, OutsideStep
<1>2. CASE \E p \in Procs : Receive(p) \/ Handle(p) \/ Throw(p)
  BY <1>2, ReceiveKeeps, HandleKeeps, ThrowKeeps
<1>3. CASE \E i \in DOMAIN session, c \in Chunks : SaveChunk(i, c)
  BY <1>3, SaveChunkKeeps
<1>4. CASE \E m \in Movies : \/ \E o \in Bundle : Deliver(m, o)
                             \/ \E t \in Tiers : Straggle(m, t)
                             \/ \E status \in AdminStatuses : SetStatus(m, status)
  BY <1>4, DeliverKeeps, StraggleKeeps, SetStatusKeeps
<1>5. CASE StartSweep \/ ListScratch \/ SweepDirectory \/ DayPasses \/ Restart
  BY <1>5, StartSweepKeeps, ListScratchKeeps, SweepDirectoryKeeps, DayPassesKeeps, RestartKeeps
<1> QED
  BY <1>1, <1>2, <1>3, <1>4, <1>5 DEF Next

\* The invariant every request relies on between two of its steps.
THEOREM UploadsInvariance == Spec => []IInv
<1>1. IInv /\ [Next]_vars => IInv'
  BY StepIsSound
<1> QED
  BY <1>1, InitIsSound, PTL DEF Spec

\* Whatever fails and whenever the process restarts: a row says UPLOADING only while a
\* request works on it, or its request is one that broke off.
THEOREM UploadingKept == Spec => []UploadingIsWorkedOn
<1>1. IInv => UploadingIsWorkedOn
  BY DEF IInv
<1> QED
  BY <1>1, UploadsInvariance, PTL

-----------------------------------------------------------------------------
(* What is sent *)

\* A playlist without its segments is of a rendition known to be sent in part.
SentOrUnsent ==
    /\ unsent \subseteq Movies \X Tiers
    /\ \A m \in Movies, t \in Tiers : Index(t) \in store[m] => Segments(t) \in store[m] \/ <<m, t>> \in unsent

\* An object lands; a rendition is taken for sent when all of it is there, and a
\* playlist that comes first makes its rendition one that is not.
Sends(m, o) ==
    /\ store' = [store EXCEPT ![m] = store[m] \cup {o}]
    /\ unsent' \subseteq unsent \cup ({m} \X Tiers)
    /\ \A n \in Movies \ {m}, t \in Tiers : <<n, t>> \in unsent => <<n, t>> \in unsent'
    /\ \A t \in Tiers : <<m, t>> \in unsent => <<m, t>> \in unsent' \/ {Index(t), Segments(t)} \subseteq store'[m]
    /\ \A t \in Tiers : o = Index(t) => Segments(t) \in store'[m] \/ <<m, t>> \in unsent'

LEMMA LandSends ==
  ASSUME IInv, NEW m \in Movies, NEW o, Land(m, o)
  PROVE  Sends(m, o)
<1>1. store[m] \subseteq store'[m]
  BY DEF Land, IInv, Typed
<1>2. \A t \in Tiers : o = Index(t) /\ Segments(t) \notin store[m] => <<m, t>> \in unsent'
  BY DEF Land
<1> QED
  BY <1>1, <1>2 DEF Sends, Land

LEMMA StraggleSends ==
  ASSUME IInv, NEW m \in Movies, NEW t \in Tiers, Straggle(m, t)
  PROVE  \E o \in Assets : Sends(m, o)
<1>1. PICK o \in {Index(t), Segments(t)} : store' = [store EXCEPT ![m] = store[m] \cup {o}]
  BY DEF Straggle
<1>2. o \in Assets /\ unsent' = unsent /\ <<m, t>> \in unsent
  BY DEF Assets, Straggle, Past
<1>3. \A x \in Tiers : o = Index(x) => x = t
  BY DEF Index, Segments
<1>4. Sends(m, o)
  BY <1>1, <1>2, <1>3 DEF Sends
<1> QED
  BY <1>2, <1>4

\* An object that is no part of a rendition.
LEMMA PutSends ==
  ASSUME NEW m \in Movies, NEW o \in {Original, Master}, store' = [store EXCEPT ![m] = store[m] \cup {o}], UNCHANGED unsent
  PROVE  o \in Assets /\ Sends(m, o)
<1>1. \A x \in Tiers : o # Index(x)
  BY DEF Index, Original, Master
<1> QED
  BY <1>1 DEF Sends, Assets

LEMMA PushSends ==
  ASSUME IInv, NEW p \in Procs, Push(p)
  PROVE  /\ UNCHANGED <<movie, video>>
         /\ \/ \E m \in Movies, o \in Assets : Sends(m, o)
            \/ \E m \in Movies, t \in Tiers : unsent' = unsent \cup {<<m, t>>} /\ UNCHANGED store
<1> DEFINE m == task[p].movie
           x == Tier(p)
<1>1. task[p] # None /\ task[p].op = "run" /\ task[p].at = "push" /\ UNCHANGED <<movie, video>>
  BY DEF Push, At, Fail, tables
<1>2. m \in Movies /\ task[p].todo \in SUBSET Tiers /\ task[p].todo # {}
  BY <1>1, RunContext DEF RunShape, RunAt
<1>3. x \in Tiers
  BY <1>2, TierIsLeft
<1>4. CASE Fail(p) /\ unsent' = unsent \cup {<<m, x>>}
  BY <1>1, <1>2, <1>3, <1>4 DEF Fail
<1>5. CASE ~(Fail(p) /\ unsent' = unsent \cup {<<m, x>>})
  <2>1. PICK o \in {Index(x), Segments(x)} : store' = [store EXCEPT ![m] = store[m] \cup {o}]
    BY <1>5 DEF Push
  <2>2. IF {Index(x), Segments(x)} \subseteq store'[m] THEN unsent' = unsent \ {<<m, x>>} ELSE unsent' = unsent \cup {<<m, x>>}
    BY <1>5 DEF Push
  <2> HIDE DEF x
  <2>3. o \in Assets
    BY <1>3 DEF Assets
  <2>4. \A y \in Tiers : o = Index(y) => y = x
    BY DEF Index, Segments
  <2> HIDE DEF m
  <2>5. Sends(m, o)
    BY <1>2, <1>3, <2>1, <2>2, <2>4 DEF Sends
  <2> QED
    BY <1>1, <1>2, <2>3, <2>5
<1> QED
  BY <1>4, <1>5

\* What a step does to the store and to what is known to be there in part.
LEMMA FilesStep ==
  ASSUME IInv, Next
  PROVE  \/ UNCHANGED <<store, unsent>>
         \/ \E m \in Movies, o \in Assets : Sends(m, o) /\ UNCHANGED <<movie, video>>
         \/ \E m \in Movies, t \in Tiers : unsent' = unsent \cup {<<m, t>>} /\ UNCHANGED <<movie, video, store>>
         \/ \E p \in Procs : Wipe(p)
<1>1. ASSUME NEW p \in Procs, Receive(p) \/ Throw(p) PROVE UNCHANGED <<store, unsent>>
  BY <1>1 DEF Receive, AskInit, AskComplete, AskReprocess, AskFinalize, DeleteMovie, Ask, Throw
<1>2. ASSUME NEW p \in Procs, Upload(p), ~PutMerged(p) PROVE UNCHANGED <<store, unsent>>
  BY <1>2 DEF Upload, FindSession, Resume, InsertSession, MakeDir, CheckChunks, Merge, CreateVideo, CloseSession, CleanChunks,
              StartRun, Past
<1>3. ASSUME NEW p \in Procs, PutMerged(p) PROVE \E m \in Movies, o \in Assets : Sends(m, o) /\ UNCHANGED <<movie, video>>
  <2>1. task[p] # None /\ task[p].op = "complete" /\ task[p].at = "put" /\ Land(task[p].movie, FileOf(p).asset) /\ UNCHANGED <<movie, video>>
    BY <1>3 DEF PutMerged, At, tables
  <2>2. task[p].movie \in Movies /\ FileOf(p).asset \in Assets
    BY <2>1, Context, ShapeByOp, OneFile
  <2> QED
    BY <2>1, <2>2, LandSends
<1>4. ASSUME NEW p \in Procs, Pipeline(p), ~(Archive(p) \/ PutMaster(p) \/ Push(p)) PROVE UNCHANGED <<store, unsent>>
  BY <1>4 DEF Pipeline, MarkProcessing, RecordPath, NextTier, Encode, CleanScratch, MarkReady, Publish, MarkFailed, BackToDraft,
              Fail, Past
<1>5. ASSUME NEW p \in Procs, Archive(p) \/ PutMaster(p)
      PROVE  \/ UNCHANGED <<store, unsent>>
             \/ \E m \in Movies, o \in Assets : Sends(m, o) /\ UNCHANGED <<movie, video>>
  <2>1. task[p] # None /\ task[p].op = "run" /\ UNCHANGED unsent
    BY <1>5 DEF Archive, PutMaster, At, Past
  <2>2. task[p].movie \in Movies
    BY <2>1, RunContext
  <2>3. \/ UNCHANGED store
        \/ \E o \in {Original, Master} : store' = [store EXCEPT ![task[p].movie] = store[task[p].movie] \cup {o}] /\ UNCHANGED <<movie, video>>
    BY <1>5 DEF Archive, PutMaster, Fail, tables
  <2> QED
    BY <2>1, <2>2, <2>3, PutSends
<1>6. ASSUME NEW p \in Procs, Reprocess(p) \/ Finalize(p) PROVE UNCHANGED <<store, unsent>>
  BY <1>6 DEF Reprocess, Claim, FetchOriginal, Finalize, LoadMovie, VerifyObjects, Settle, Past
<1>7. ASSUME NEW m \in Movies, NEW o \in Bundle, Deliver(m, o) PROVE o \in Assets /\ Sends(m, o) /\ UNCHANGED <<movie, video>>
  BY <1>7, LandSends, FilesKnown DEF Deliver, tables
<1>8. ASSUME NEW m \in Movies, NEW t \in Tiers, Straggle(m, t)
      PROVE  \E o \in Assets : Sends(m, o) /\ UNCHANGED <<movie, video>>
  BY <1>8, StraggleSends DEF Straggle, tables
<1>9. ASSUME NEW m \in Movies, NEW status \in AdminStatuses, SetStatus(m, status) PROVE UNCHANGED <<store, unsent>>
  BY <1>9 DEF SetStatus
<1>10. ASSUME NEW i \in DOMAIN session, NEW c \in Chunks, SaveChunk(i, c) PROVE UNCHANGED <<store, unsent>>
  BY <1>10 DEF SaveChunk, Past
<1>11. StartSweep \/ ListScratch \/ SweepDirectory \/ DayPasses \/ Restart => UNCHANGED <<store, unsent>>
  BY DEF StartSweep, ListScratch, SweepDirectory, DayPasses, Restart, Past
<1>12. ASSUME NEW p \in Procs, Handle(p)
       PROVE  \/ UNCHANGED <<store, unsent>>
              \/ \E m \in Movies, o \in Assets : Sends(m, o) /\ UNCHANGED <<movie, video>>
              \/ \E m \in Movies, t \in Tiers : unsent' = unsent \cup {<<m, t>>} /\ UNCHANGED <<movie, video, store>>
              \/ Wipe(p)
  <2>1. CASE Upload(p)
    BY <1>2, <1>3, <2>1
  <2>2. CASE Pipeline(p)
    BY <1>4, <1>5, <2>2, PushSends
  <2>3. CASE Reprocess(p) \/ Finalize(p)
    BY <1>6, <2>3
  <2> QED
    BY <1>12, <2>1, <2>2, <2>3 DEF Handle
<1> QED
  BY <1>1, <1>7, <1>8, <1>9, <1>10, <1>11, <1>12 DEF Next

\* Nobody loses count of a rendition that is there in part.
LEMMA SentStays ==
  ASSUME IInv, SentOrUnsent, [Next]_vars
  PROVE  SentOrUnsent'
<1>1. CASE UNCHANGED <<store, unsent>>
  BY <1>1 DEF SentOrUnsent
<1>2. ASSUME NEW m \in Movies, NEW o \in Assets, Sends(m, o) PROVE SentOrUnsent'
  <2>1. unsent' \subseteq Movies \X Tiers
    BY <1>2 DEF Sends, SentOrUnsent
  <2>2. /\ store'[m] = store[m] \cup {o} /\ \A n \in Movies \ {m} : store'[n] = store[n]
    BY <1>2 DEF Sends, IInv, Typed
  <2>3. ASSUME NEW n \in Movies, NEW t \in Tiers, Index(t) \in store'[n]
        PROVE  Segments(t) \in store'[n] \/ <<n, t>> \in unsent'
    <3>1. CASE n # m
      BY <1>2, <2>2, <2>3, <3>1 DEF Sends, SentOrUnsent
    <3>2. CASE n = m /\ o = Index(t)
      BY <1>2, <3>2 DEF Sends
    <3>3. CASE n = m /\ Index(t) \in store[n]
      <4>1. Segments(t) \in store[m] \/ <<m, t>> \in unsent
        BY <3>3 DEF SentOrUnsent
      <4> QED
        BY <1>2, <2>2, <3>3, <4>1 DEF Sends
    <3> QED
      BY <2>2, <2>3, <3>1, <3>2, <3>3
  <2> QED
    BY <2>1, <2>3 DEF SentOrUnsent
<1>3. ASSUME NEW m \in Movies, NEW t \in Tiers, unsent' = unsent \cup {<<m, t>>}, UNCHANGED store PROVE SentOrUnsent'
  BY <1>3 DEF SentOrUnsent
<1>4. ASSUME NEW p \in Procs, Wipe(p) PROVE SentOrUnsent'
  <2>1. unsent' = unsent /\ store' = [store EXCEPT ![task[p].movie] = {}]
    BY <1>4 DEF Wipe, Past
  <2> QED
    BY <2>1 DEF SentOrUnsent, IInv, Typed
<1>5. CASE Next
  BY <1>1, <1>2, <1>3, <1>4, <1>5, FilesStep
<1> QED
  BY <1>1, <1>5 DEF vars

LEMMA SentFromStart == Init => SentOrUnsent
<1> SUFFICES ASSUME Init PROVE SentOrUnsent
  OBVIOUS
<1>1. unsent = {mt \in Movies \X Tiers : Index(mt[2]) \in store[mt[1]] /\ Segments(mt[2]) \notin store[mt[1]]}
  BY DEF Init
<1>2. ASSUME NEW m \in Movies, NEW t \in Tiers PROVE <<m, t>> \in unsent <=> Index(t) \in store[m] /\ Segments(t) \notin store[m]
  BY <1>1
<1> QED
  BY <1>1, <1>2 DEF SentOrUnsent

\* With any number of runs, stragglers and clients: a playlist that is in the store
\* without its segments is of a rendition somebody sent in part.
THEOREM PartsAreKnown == Spec => [](IInv /\ SentOrUnsent)
<1>1. SentOrUnsent /\ IInv /\ [Next]_vars => SentOrUnsent'
  BY SentStays
<1> QED
  BY <1>1, SentFromStart, UploadsInvariance, PTL DEF Spec

-----------------------------------------------------------------------------
(* Claims *)

\* Whatever fails and whenever the process restarts, the claims in memory are exactly
\* those of the runs under way, no two of them for one video.
THEOREM ClaimsKept == Spec => []ClaimsAreKept
<1>1. IInv /\ SentOrUnsent => ClaimsAreKept
  <2> SUFFICES ASSUME IInv, SentOrUnsent PROVE ClaimsAreKept
    OBVIOUS
  <2>1. ASSUME NEW p \in Procs, NEW v \in Claims(p)
        PROVE  task[p] # None /\ v = task[p].video /\ v # None /\ v \in DOMAIN video
    <3>1. v \in ClaimsOf(task[p])
      BY <2>1, ClaimsOfTask
    <3>2. /\ task[p] # None /\ v = task[p].video /\ task[p].op \in {"run", "reprocess"}
          /\ task[p].op = "reprocess" => task[p].at = "fetch"
      BY <3>1 DEF ClaimsOf
    <3>3. Shape(task[p]) /\ Holds(task[p])
      BY <3>2, Context
    <3>4. v # None
      BY <3>2, <3>3, ShapeByOp DEF RunShape
    <3> QED
      BY <3>2, <3>3, <3>4 DEF Holds, HoldsVideo
  <2>2. TypeOK
    <3>1. active \subseteq DOMAIN video
      BY <2>1 DEF IInv, ClaimIsHeld
    <3>2. \A p \in Procs : task[p] \in Request \cup {None}
      BY Context, ShapeByOp
    <3> QED
      BY <3>1, <3>2 DEF IInv, Typed, TypeOK, SentOrUnsent
  <2>3. OneRunPerVideo
    BY <2>1 DEF IInv, Exclusive, OneRunPerVideo
  <2> QED
    BY <2>2, <2>3 DEF IInv, ClaimsAreKept
<1> QED
  BY <1>1, PartsAreKnown, PTL

-----------------------------------------------------------------------------
(* The sweep *)

\* Chunks go with the upload that is complete, or with the sweep.
LEMMA ChunksStep ==
  ASSUME Next
  PROVE  \/ UNCHANGED chunks
         \/ \E p \in Procs : InsertSession(p) \/ MakeDir(p) \/ CleanChunks(p)
         \/ \E i \in DOMAIN session, c \in Chunks : SaveChunk(i, c)
         \/ SweepDirectory
<1>1. ASSUME NEW p \in Procs, Receive(p) \/ Throw(p) PROVE UNCHANGED chunks
  BY <1>1 DEF Throw, Receive, AskInit, AskComplete, AskReprocess, AskFinalize, DeleteMovie, Ask, disk
<1>2. ASSUME NEW p \in Procs, Upload(p) PROVE UNCHANGED chunks \/ InsertSession(p) \/ MakeDir(p) \/ CleanChunks(p)
  BY <1>2 DEF Upload, FindSession, Resume, CheckChunks, Merge, PutMerged, CreateVideo, CloseSession, StartRun, disk
<1>3. ASSUME NEW p \in Procs, Pipeline(p) PROVE UNCHANGED chunks
  BY <1>3 DEF Pipeline, MarkProcessing, Archive, RecordPath, NextTier, Encode, Push, PutMaster, CleanScratch, MarkReady,
              Publish, MarkFailed, BackToDraft, Fail, disk
<1>4. ASSUME NEW p \in Procs, Reprocess(p) \/ Finalize(p) \/ Wipe(p) PROVE UNCHANGED chunks
  BY <1>4 DEF Reprocess, Claim, FetchOriginal, Finalize, LoadMovie, VerifyObjects, Settle, Wipe, disk
<1>5. ASSUME NEW m \in Movies,
             \/ \E o \in Bundle : Deliver(m, o)
             \/ \E t \in Tiers : Straggle(m, t)
             \/ \E status \in AdminStatuses : SetStatus(m, status)
      PROVE  UNCHANGED chunks
  BY <1>5 DEF Deliver, Straggle, SetStatus, disk
<1>6. StartSweep \/ ListScratch \/ DayPasses \/ Restart => UNCHANGED chunks
  BY DEF StartSweep, ListScratch, DayPasses, Restart, disk
<1> QED
  BY <1>1, <1>2, <1>3, <1>4, <1>5, <1>6 DEF Next, Handle

\* Whenever the sweep asked its owners and however long it takes: the chunks of an
\* upload a client could go on with leave the disk only in the hands of a request for it.
THEOREM ResumableSpared == Spec => SweepSparesResumable
<1> DEFINE Spared == \A i \in DOMAIN session :
                       chunks[i] # None /\ chunks'[i] = None /\ InProgress(i) /\ session[i].age < 2
                         => \E p \in Procs : task[p] # None /\ task[p].session = i
<1>1. IInv /\ [Next]_vars => [Spared]_vars
  <2> SUFFICES ASSUME IInv, Next,
                      NEW i \in DOMAIN session, chunks[i] # None, chunks'[i] = None, Young(i)
               PROVE  \E p \in Procs : task[p] # None /\ task[p].session = i
    BY DEF Young
  <2>1. /\ i \in DOMAIN chunks /\ chunks[i] \in SUBSET Chunks /\ chunks \in Seq({None} \cup SUBSET Chunks)
        /\ {} # None /\ \A c \in Chunks : chunks[i] \cup {c} # None
    BY NoneIsNoValue DEF IInv, Typed
  <2>2. ASSUME NEW p \in Procs, InsertSession(p) PROVE FALSE
    <3>1. chunks' = chunks \/ chunks' = Append(chunks, None)
      BY <2>2 DEF InsertSession
    <3>2. Append(chunks, None)[i] = chunks[i]
      BY <2>1
    <3> QED
      BY <2>1, <3>1, <3>2
  <2>3. ASSUME NEW p \in Procs, MakeDir(p) PROVE FALSE
    BY <2>1, <2>3 DEF MakeDir
  <2>4. ASSUME NEW p \in Procs, CleanChunks(p) PROVE task[p] # None /\ task[p].session = i
    BY <2>1, <2>4 DEF CleanChunks, At
  <2>5. ASSUME NEW j \in DOMAIN session, NEW c \in Chunks, SaveChunk(j, c) PROVE FALSE
    BY <2>1, <2>5 DEF SaveChunk
  <2>6. ASSUME SweepDirectory PROVE FALSE
    <3>1. task[Cron] # None /\ task[Cron].at = "rm"
      BY <2>6 DEF SweepDirectory, At
    <3>2. Dir(i) \in cold /\ Dir(i) \in task[Cron].todo
      BY <2>1, <2>6 DEF SweepDirectory
    <3> QED
      BY <3>1, <3>2 DEF IInv, Swept
  <2> QED
    BY <2>1, <2>2, <2>3, <2>4, <2>5, <2>6, ChunksStep
<1> QED
  BY <1>1, UploadsInvariance, PTL DEF Spec, SweepSparesResumable

-----------------------------------------------------------------------------
(* The services implement TitleLifecycle *)

\* What viewers are offered comes from the rows that say READY.
Offers(v, m, o) == video[v] # None /\ video[v].movie = m /\ video[v].status = "READY" /\ o \in Content(video[v].renditions)
LEMMA OfferedIs ==
  ASSUME NEW m \in Movies, NEW o
  PROVE  /\ o \in Offered[m] <=> \E v \in DOMAIN video : Offers(v, m, o)
         /\ o \in Offered'[m] <=> \E v \in DOMAIN video' : Offers(v, m, o)'
BY DEF Offered, Playable, Videos, Row, Offers

LEMMA OfferedIsFunction ==
  /\ Offered = [m \in Movies |-> Offered[m]] /\ DOMAIN Offered = Movies
  /\ Offered' = [m \in Movies |-> Offered'[m]] /\ DOMAIN Offered' = Movies
BY DEF Offered

LEMMA OfferedSame ==
  ASSUME \A m, o : (\E v \in DOMAIN video' : Offers(v, m, o)') <=> (\E v \in DOMAIN video : Offers(v, m, o))
  PROVE  Offered' = Offered
<1>1. \A m \in Movies : \A o : o \in Offered'[m] <=> o \in Offered[m]
  BY OfferedIs
<1>2. \A m \in Movies : Offered'[m] = Offered[m]
  BY <1>1
<1> QED
  BY <1>2, OfferedIsFunction

Implements == [Lifecycle!Next]_(Lifecycle!lifecycleVars)

LEMMA OffersStay == ASSUME UNCHANGED video PROVE Offered' = Offered
BY DEF Offered, Playable, Videos, Row

LEMMA PartialStays == ASSUME UNCHANGED unsent PROVE Partial' = Partial
BY DEF Partial

LEMMA PartialTyped ==
  /\ Partial \in [Movies -> SUBSET Assets] /\ Partial' \in [Movies -> SUBSET Assets]
  /\ \A m \in Movies : /\ Partial[m] = {Segments(t) : t \in {t \in Tiers : <<m, t>> \in unsent}}
                       /\ Partial'[m] = {Segments(t) : t \in {t \in Tiers : <<m, t>> \in unsent'}}
BY DEF Partial, Assets

\* What a READY row offers are objects.
LEMMA OfferedTyped ==
  /\ video \in Seq(Video \cup {None}) => Offered \in [Movies -> SUBSET Assets]
  /\ video' \in Seq(Video \cup {None}) => Offered' \in [Movies -> SUBSET Assets]
<1>1. ASSUME NEW R \in SUBSET Tiers PROVE Content(R) \subseteq Assets
  BY DEF Content, Playlists, Assets
<1>2. ASSUME video \in Seq(Video \cup {None}), NEW m \in Movies, NEW o \in Offered[m] PROVE o \in Assets
  <2>1. PICK v \in DOMAIN video : Offers(v, m, o)
    BY <1>2, OfferedIs
  <2>2. video[v] \in Video /\ o \in Content(video[v].renditions)
    BY <1>2, <2>1 DEF Offers
  <2> QED
    BY <1>1, <2>2 DEF Video
<1>3. ASSUME video' \in Seq(Video \cup {None}), NEW m \in Movies, NEW o \in Offered'[m] PROVE o \in Assets
  <2>1. PICK v \in DOMAIN video' : Offers(v, m, o)'
    BY <1>3, OfferedIs
  <2>2. video'[v] \in Video /\ o \in Content(video'[v].renditions)
    BY <1>3, <2>1 DEF Offers
  <2> QED
    BY <1>1, <2>2 DEF Video
<1>4. (\A m \in Movies : Offered[m] \in SUBSET Assets) => Offered \in [Movies -> SUBSET Assets]
  BY OfferedIsFunction
<1>5. (\A m \in Movies : Offered'[m] \in SUBSET Assets) => Offered' \in [Movies -> SUBSET Assets]
  BY OfferedIsFunction
<1> QED
  BY <1>2, <1>3, <1>4, <1>5

\* Neither titles, videos nor objects are touched.
LEMMA Stutters == ASSUME UNCHANGED <<movie, video, store, unsent>> PROVE Implements
<1>1. Offered' = Offered /\ Partial' = Partial
  BY OffersStay, PartialStays
<1> QED
  BY <1>1 DEF Implements, Lifecycle!lifecycleVars

LEMMA Stores ==
  ASSUME IInv, UNCHANGED <<movie, video>>, NEW m \in Movies, NEW o \in Assets, Sends(m, o)
  PROVE  Implements
<1>1. Offered' = Offered
  BY OffersStay
<1>2. \A n \in Movies \ {m} : Partial'[n] = Partial[n]
  <2>1. \A n \in Movies \ {m}, t \in Tiers : <<n, t>> \in unsent' <=> <<n, t>> \in unsent
    BY DEF Sends
  <2>2. \A n \in Movies \ {m} : {t \in Tiers : <<n, t>> \in unsent'} = {t \in Tiers : <<n, t>> \in unsent}
    BY <2>1
  <2> QED
    BY <2>2, PartialTyped
<1>3. Partial[m] \ Partial'[m] \subseteq store'[m]
  <2> SUFFICES ASSUME NEW s \in Partial[m], s \notin Partial'[m] PROVE s \in store'[m]
    OBVIOUS
  <2>1. PICK t \in Tiers : <<m, t>> \in unsent /\ s = Segments(t)
    <3>1. Partial[m] = {Segments(t) : t \in {t \in Tiers : <<m, t>> \in unsent}}
      BY PartialTyped
    <3> QED
      BY <3>1
  <2>2. <<m, t>> \notin unsent'
    BY <2>1, PartialTyped
  <2> QED
    BY <2>1, <2>2 DEF Sends
<1>4. Lifecycle!Store(m, o)
  BY <1>1, <1>2, <1>3, PartialTyped DEF Lifecycle!Store, Sends
<1> QED
  BY <1>4 DEF Implements, Lifecycle!Next

LEMMA Begins ==
  ASSUME UNCHANGED <<movie, video, store>>, NEW m \in Movies, NEW t \in Tiers, unsent' = unsent \cup {<<m, t>>}
  PROVE  Implements
<1>1. \A n \in Movies \ {m} : Partial'[n] = Partial[n]
  <2>1. \A n \in Movies \ {m} : {x \in Tiers : <<n, x>> \in unsent'} = {x \in Tiers : <<n, x>> \in unsent}
    OBVIOUS
  <2> QED
    BY <2>1, PartialTyped
<1>2. Partial[m] \subseteq Partial'[m]
  BY PartialTyped
<1>3. Lifecycle!Begin(m)
  BY <1>1, <1>2, OffersStay, PartialTyped DEF Lifecycle!Begin
<1> QED
  BY <1>3 DEF Implements, Lifecycle!Next

\* A row that is not READY is added, or becomes another that is not.
LEMMA RewritesRow ==
  ASSUME UNCHANGED <<movie, store, unsent>>, NEW v,
         v \in DOMAIN video => video[v] = None \/ video[v].status # "READY",
         v \in DOMAIN video' => video'[v] = None \/ video'[v].status # "READY",
         \A w : w # v => (w \in DOMAIN video' <=> w \in DOMAIN video),
         \A w \in DOMAIN video : w # v => video'[w] = video[w]
  PROVE  Implements
<1>1. \A m, o : (\E w \in DOMAIN video' : Offers(w, m, o)') <=> (\E w \in DOMAIN video : Offers(w, m, o))
  BY DEF Offers
<1>2. Offered' = Offered
  BY <1>1, OfferedSame
<1> QED
  BY <1>2, PartialStays DEF Implements, Lifecycle!lifecycleVars

\* A row becomes READY with what is in the store, or known to be there in part.
LEMMA MarkReadyMaps ==
  ASSUME IInv, IInv', SentOrUnsent, NEW p \in Procs, MarkReady(p)
  PROVE  Implements
<1> DEFINE t == task[p]
           m == t.movie
           R == IF t.op = "run" THEN Tiers ELSE t.todo
<1> PICK v : v = t.video
  OBVIOUS
<1>1. t # None /\ t.op \in {"run", "finalize"} /\ t.at = "ready"
  BY DEF MarkReady, At
<1>2. /\ Shape(t) /\ Holds(t) /\ v # None /\ R \in SUBSET Tiers
      /\ t.op = "run" => t.todo = {}
  <2>1. Shape(t) /\ Holds(t)
    BY <1>1, Context
  <2>2. CASE t.op = "run"
    BY <1>1, <2>1, <2>2, ShapeByOp DEF RunShape, RunAt
  <2>3. CASE t.op = "finalize"
    BY <1>1, <2>1, <2>3, ShapeByOp DEF FinalizeShape, FinalizeTask, TaskOver
  <2> QED
    BY <1>1, <2>1, <2>2, <2>3
<1>3. /\ m \in Movies /\ v \in DOMAIN video
      /\ video[v] # None => video[v] \in Video /\ video[v].movie = m /\ Fits(t, video[v].status) /\ movie[m] # None
  BY <1>2, RowOrTitle
<1>4. CASE Fail(p)
  BY <1>4, Stutters DEF MarkReady, Fail, tables, Past
<1>5. CASE ~Fail(p)
  <2> video[v] # None
    BY <1>5 DEF MarkReady, Row
  <2>1. Promised(t) = Playlists(R)
    BY <1>1, <1>2 DEF Promised, Playlists
  <2>2. Playlists(R) \subseteq store[m] /\ store[m] \subseteq Assets
    BY <1>2, <1>3, <2>1 DEF Holds, HoldsFiles, IInv, Typed
  <2>3. \A x \in R : Segments(x) \in store[m] \cup Partial[m]
    BY <1>2, <1>3, <2>2, PartialTyped DEF Playlists, SentOrUnsent
  <2>4. video' = [video EXCEPT ![v].status = "READY", ![v].renditions = R] /\ UNCHANGED <<movie, store, unsent>>
    BY <1>5 DEF MarkReady, Row, Past
  <2> HIDE DEF R
  <2>5. /\ DOMAIN video' = DOMAIN video /\ \A w \in DOMAIN video : w # v => video'[w] = video[w]
        /\ video'[v].movie = m /\ video'[v].status = "READY" /\ video'[v].renditions = R /\ video'[v] # None
    <3>1. video'[v] = [video[v] EXCEPT !.status = "READY", !.renditions = R] /\ DOMAIN video' = DOMAIN video
          /\ \A w \in DOMAIN video : w # v => video'[w] = video[w]
      BY <1>3, <2>4 DEF IInv, Typed
    <3>2. video'[v] \in Video
      BY <1>2, <1>3, <3>1 DEF Video, VideoStatus
    <3> QED
      BY <1>3, <3>1, <3>2, NoneIsNoValue DEF Video
  <2>6. \A w \in DOMAIN video : w # v => \A n, o : Offers(w, n, o)' <=> Offers(w, n, o)
    BY <2>5 DEF Offers
  <2>7. ASSUME NEW n, NEW o PROVE (Offers(v, n, o)' <=> n = m /\ o \in Content(R)) /\ ~Offers(v, n, o)
    <3>1. video[v].status # "READY"
      BY <1>1, <1>3 DEF Fits
    <3> QED
      BY <2>5, <3>1 DEF Offers
  <2>8. ASSUME NEW n \in Movies, NEW o
        PROVE  o \in Offered'[n] <=> o \in Offered[n] \/ (n = m /\ o \in Content(R))
    <3>1. /\ o \in Offered[n] <=> \E w \in DOMAIN video : Offers(w, n, o)
          /\ o \in Offered'[n] <=> \E w \in DOMAIN video' : Offers(w, n, o)'
      BY OfferedIs
    <3> QED
      BY <1>3, <2>5, <2>6, <2>7, <3>1
  <2>9. Content(R) \subseteq store[m] \cup Partial[m]
    BY <2>2, <2>3 DEF Content
  <2>10. /\ \A n \in Movies \ {m} : Offered'[n] = Offered[n]
         /\ Offered[m] \subseteq Offered'[m] /\ Offered'[m] \subseteq Offered[m] \cup store[m] \cup Partial[m]
    BY <1>3, <2>8, <2>9
  <2>11. Offered' \in [Movies -> SUBSET Assets]
    BY OfferedTyped DEF IInv, Typed
  <2>12. Lifecycle!Offer(m)
    BY <1>3, <2>4, <2>10, <2>11, PartialStays DEF Lifecycle!Offer
  <2> QED
    BY <1>3, <2>12 DEF Implements, Lifecycle!Next
<1> QED
  BY <1>4, <1>5

\* A run takes back what its row offered, if it offered anything.
LEMMA MarkFailedMaps ==
  ASSUME IInv, IInv', NEW p \in Procs, MarkFailed(p)
  PROVE  Implements
<1> DEFINE t == task[p]
           m == t.movie
<1> PICK v : v = t.video
  OBVIOUS
<1>1. /\ t # None /\ t.op = "run" /\ UNCHANGED <<movie, store, unsent>>
      /\ UNCHANGED video \/ (video[v] # None /\ video' = [video EXCEPT ![v].status = "FAILED"])
  BY DEF MarkFailed, At, Past, Row
<1>2. m \in Movies /\ v \in DOMAIN video /\ (video[v] # None => video[v] \in Video /\ video[v].movie = m)
  BY <1>1, RunContext
<1>3. CASE UNCHANGED video
  BY <1>1, <1>3, Stutters
<1>4. CASE video[v] # None /\ video' = [video EXCEPT ![v].status = "FAILED"]
  <2>1. /\ DOMAIN video' = DOMAIN video /\ video'[v].status = "FAILED"
        /\ \A w \in DOMAIN video : w # v => video'[w] = video[w]
    BY <1>2, <1>4 DEF IInv, Typed, Video
  <2>2. \A w \in DOMAIN video : \A n, o : Offers(w, n, o)' <=> Offers(w, n, o) /\ w # v
    BY <2>1 DEF Offers
  <2>3. \A n, o : Offers(v, n, o) => n = m
    BY <1>2 DEF Offers
  <2>4. \A n \in Movies : Offered'[n] \subseteq Offered[n]
    <3> SUFFICES ASSUME NEW n \in Movies, NEW o \in Offered'[n] PROVE o \in Offered[n]
      OBVIOUS
    <3>1. PICK w \in DOMAIN video' : Offers(w, n, o)'
      BY OfferedIs
    <3>2. w \in DOMAIN video /\ Offers(w, n, o)
      BY <2>1, <2>2, <3>1
    <3> QED
      BY <3>2, OfferedIs
  <2>5. ASSUME NEW n \in Movies, n # m PROVE Offered'[n] = Offered[n]
    <3>1. ASSUME NEW o \in Offered[n] PROVE o \in Offered'[n]
      <4>1. PICK w \in DOMAIN video : Offers(w, n, o)
        BY OfferedIs
      <4>2. w \in DOMAIN video' /\ Offers(w, n, o)'
        BY <2>1, <2>2, <2>3, <2>5, <4>1
      <4> QED
        BY <4>2, OfferedIs
    <3>2. Offered[n] \in SUBSET Assets /\ Offered'[n] \in SUBSET Assets
      BY OfferedTyped DEF IInv, Typed
    <3> QED
      BY <2>4, <3>1, <3>2
  <2>6. Offered' \in [Movies -> SUBSET Assets]
    BY OfferedTyped DEF IInv, Typed
  <2>7. Lifecycle!Retract(m)
    BY <1>1, <1>2, <2>4, <2>5, <2>6, PartialStays DEF Lifecycle!Retract
  <2> QED
    BY <1>2, <2>7 DEF Implements, Lifecycle!Next
<1> QED
  BY <1>1, <1>3, <1>4

\* The steps of a run that leave the store alone.
LEMMA PipelineMaps ==
  ASSUME IInv, IInv', SentOrUnsent, NEW p \in Procs, Pipeline(p), UNCHANGED <<store, unsent>>
  PROVE  Implements
<1> DEFINE t == task[p]
           v == t.video
           m == t.movie
<1>1. /\ t # None /\ t.op = "run" =>
            /\ m \in Movies /\ v # None /\ v \in DOMAIN video
            /\ movie[m] = None <=> video[v] = None
            /\ video[v] # None => video[v] \in Video /\ video[v].movie = m /\ Fits(t, video[v].status)
      /\ video \in Seq(Video \cup {None})
  BY RunContext DEF IInv, Typed
<1>2. ASSUME UNCHANGED <<movie, video>> PROVE Implements
  BY <1>2, Stutters
<1>3. CASE MarkProcessing(p)
  <2>1. t.op = "run" /\ t.at = "mark" /\ t # None /\ UNCHANGED movie
    BY <1>3 DEF MarkProcessing, At
  <2>2. CASE UNCHANGED video
    BY <1>2, <2>1, <2>2
  <2>3. CASE video[v] # None /\ video' = [video EXCEPT ![v].status = "PROCESSING"]
    <3>1. video[v].status # "READY" /\ v \in DOMAIN video /\ video[v] \in Video
      BY <1>1, <2>1, <2>3 DEF Fits
    <3>2. video'[v].status = "PROCESSING" /\ DOMAIN video' = DOMAIN video /\ \A w \in DOMAIN video : w # v => video'[w] = video[w]
      BY <1>1, <2>3, <3>1 DEF Video
    <3> QED
      BY <2>1, <3>1, <3>2, RewritesRow
  <2> QED
    BY <1>3, <2>2, <2>3 DEF MarkProcessing, Row
<1>4. CASE RecordPath(p)
  <2>1. t.op = "run" /\ t.at = "path" /\ t # None
    BY <1>4 DEF RecordPath, At
  <2>2. CASE Fail(p)
    BY <1>2, <2>2 DEF Fail, tables
  <2>3. CASE ~Fail(p)
    <3>1. video[v] # None /\ video' = [video EXCEPT ![v].archived = TRUE] /\ UNCHANGED movie
      BY <1>4, <2>3 DEF RecordPath, Row
    <3>2. video[v].status # "READY" /\ v \in DOMAIN video /\ video[v] \in Video
      BY <1>1, <2>1, <3>1 DEF Fits
    <3>3. video'[v].status # "READY" /\ DOMAIN video' = DOMAIN video /\ \A w \in DOMAIN video : w # v => video'[w] = video[w]
      BY <1>1, <3>1, <3>2 DEF Video
    <3> QED
      BY <3>1, <3>2, <3>3, RewritesRow
  <2> QED
    BY <2>2, <2>3
<1>5. CASE MarkFailed(p) \/ MarkReady(p)
  BY <1>5, MarkFailedMaps, MarkReadyMaps
<1>6. CASE Archive(p) \/ PutMaster(p) \/ Push(p) \/ NextTier(p) \/ Encode(p) \/ CleanScratch(p)
  BY <1>2, <1>6 DEF Archive, PutMaster, Push, NextTier, Encode, CleanScratch, Fail, tables
<1>7. CASE BackToDraft(p)
  <2>1. /\ t # None /\ t.op = "run" /\ UNCHANGED video
        /\ movie' \in {movie, [movie EXCEPT ![m] = IF movie[m] = None THEN None ELSE "DRAFT"]}
    BY <1>7 DEF BackToDraft, At
  <2>2. CASE movie' = movie
    BY <1>2, <2>1, <2>2
  <2>3. CASE movie' # movie
    <3>1. movie[m] # None /\ movie' = [movie EXCEPT ![m] = "DRAFT"]
      BY <1>1, <2>1, <2>3 DEF IInv, Typed
    <3>2. Lifecycle!FallBack(m)
      BY <2>1, <3>1, OffersStay, PartialStays DEF Lifecycle!FallBack, Lifecycle!Become
    <3> QED
      BY <1>1, <2>1, <3>2 DEF Implements, Lifecycle!Next
  <2> QED
    BY <2>2, <2>3
<1>8. CASE Publish(p)
  <2>1. t # None /\ t.op = "run" /\ t.at = "publish"
    BY <1>8 DEF Publish, At
  <2>2. CASE Fail(p)
    BY <1>2, <2>2 DEF Fail, tables
  <2>3. CASE ~Fail(p)
    <3>1. movie[m] # None /\ movie' = [movie EXCEPT ![m] = "PUBLISHED"] /\ UNCHANGED video
      BY <1>8, <2>3 DEF Publish
    <3>2. Offers(v, m, Original) /\ v \in DOMAIN video
      BY <1>1, <2>1, <3>1 DEF Fits, Offers, Content, Playlists
    <3>3. Offered[m] # {}
      BY <1>1, <2>1, <3>2, OfferedIs
    <3>4. Lifecycle!GoLive(m)
      BY <3>1, <3>3, OffersStay, PartialStays DEF Lifecycle!GoLive, Lifecycle!Become
    <3> QED
      BY <1>1, <2>1, <3>4 DEF Implements, Lifecycle!Next
  <2> QED
    BY <2>2, <2>3
<1> QED
  BY <1>3, <1>4, <1>5, <1>6, <1>7, <1>8 DEF Pipeline

\* The steps of an upload.
LEMMA UploadMaps ==
  ASSUME IInv, NEW p \in Procs, Upload(p) \/ CreateVideo(p), UNCHANGED <<store, unsent>>
  PROVE  Implements
<1> DEFINE t == task[p]
<1>1. CASE FindSession(p) \/ Resume(p) \/ InsertSession(p) \/ MakeDir(p) \/ CheckChunks(p) \/ Merge(p)
           \/ PutMerged(p) \/ CloseSession(p) \/ CleanChunks(p) \/ StartRun(p)
  BY <1>1, Stutters DEF FindSession, Resume, InsertSession, MakeDir, CheckChunks, Merge, PutMerged, CloseSession, CleanChunks,
                        StartRun, tables
<1>2. CASE CreateVideo(p)
  <2> DEFINE n == Len(video) + 1
             row == [movie |-> t.movie, status |-> "UPLOADING", renditions |-> {}, archived |-> t.op = "finalize"]
  <2>1. UNCHANGED movie /\ (video' = video \/ video' = Append(video, row))
    BY <1>2 DEF CreateVideo
  <2>2. row.status = "UPLOADING"
    OBVIOUS
  <2> HIDE DEF row
  <2>3. CASE video' = Append(video, row)
    <3>1. /\ n \notin DOMAIN video /\ video'[n] = row /\ \A w : w # n => (w \in DOMAIN video' <=> w \in DOMAIN video)
          /\ \A w \in DOMAIN video : video'[w] = video[w]
      BY <2>3 DEF IInv, Typed
    <3> HIDE DEF n
    <3> QED
      BY <2>1, <2>2, <3>1, RewritesRow
  <2> QED
    BY <2>1, <2>3, Stutters
<1> QED
  BY <1>1, <1>2 DEF Upload

\* The last step of a bundle.
LEMMA SettleMaps ==
  ASSUME IInv, NEW p \in Procs, Settle(p)
  PROVE  Implements
<1> DEFINE t == task[p]
           m == t.movie
           v == t.video
<1>1. /\ t # None /\ t.op = "finalize" /\ t.at \in {"reject", "flip"} /\ UNCHANGED <<video, store, unsent>>
      /\ movie' = [movie EXCEPT ![m] = IF movie[m] # t.seen THEN movie[m]
                                       ELSE IF t.at = "flip" THEN "READY_TO_PUBLISH" ELSE "FAILED"]
  BY DEF Settle, At, Past
<1>2. Shape(t) /\ Holds(t) /\ m \in Movies /\ t.seen \in {"UPLOADING", "FAILED"} /\ (t.at = "flip" => v # None)
  BY <1>1, FinalizeContext DEF FinalizeShape, FinalizableMovieStatuses
<1>3. Offered' = Offered /\ Partial' = Partial
  BY <1>1, OffersStay, PartialStays
<1>4. CASE movie[m] # t.seen
  <2>1. movie' = movie
    BY <1>1, <1>2, <1>4 DEF IInv, Typed
  <2> QED
    BY <1>1, <2>1, Stutters
<1>5. CASE movie[m] = t.seen /\ t.at = "reject"
  <2>1. Lifecycle!Refuse(m)
    BY <1>1, <1>2, <1>3, <1>5 DEF Lifecycle!Refuse, Lifecycle!Become
  <2> QED
    BY <1>2, <2>1 DEF Implements, Lifecycle!Next
<1>6. CASE movie[m] = t.seen /\ t.at = "flip"
  <2>1. movie[m] # None
    <3>1. movie[m] \in MovieStatus
      BY <1>2, <1>6 DEF MovieStatus
    <3> QED
      BY <3>1, StatusIsNotNone
  <2>2. v \in DOMAIN video /\ Offers(v, m, Original)
    <3>1. v \in DOMAIN video /\ video[v] # None /\ video[v].movie = m /\ Fits(t, video[v].status)
      BY <1>2, <1>6, <2>1, RowOrTitle
    <3> QED
      BY <1>1, <1>6, <3>1 DEF Fits, Offers, Content, Playlists
  <2>3. Offered[m] # {}
    BY <1>2, <2>2, OfferedIs
  <2>4. Lifecycle!Accept(m)
    BY <1>1, <1>2, <1>3, <1>6, <2>3 DEF Lifecycle!Accept, Lifecycle!Become
  <2> QED
    BY <1>2, <2>4 DEF Implements, Lifecycle!Next
<1> QED
  BY <1>1, <1>4, <1>5, <1>6

LEMMA DeleteMovieMaps ==
  ASSUME IInv, NEW p \in Procs, NEW m \in Movies, DeleteMovie(p, m)
  PROVE  Implements
<1>1. /\ movie[m] # None /\ movie' = [movie EXCEPT ![m] = None] /\ UNCHANGED <<store, unsent>>
      /\ video' = [v \in DOMAIN video |-> IF video[v] # None /\ video[v].movie = m THEN None ELSE video[v]]
  BY DEF DeleteMovie, Row
<1>2. DOMAIN video' = DOMAIN video /\ \A v \in DOMAIN video : \A n, o : Offers(v, n, o)' <=> Offers(v, n, o) /\ n # m
  BY <1>1 DEF Offers
<1>3. \A n \in Movies : Offered'[n] = IF n = m THEN {} ELSE Offered[n]
  <2> SUFFICES ASSUME NEW n \in Movies, NEW o
               PROVE  o \in Offered'[n] <=> o \in Offered[n] /\ n # m
    OBVIOUS
  <2>1. /\ o \in Offered[n] <=> \E w \in DOMAIN video : Offers(w, n, o)
        /\ o \in Offered'[n] <=> \E w \in DOMAIN video' : Offers(w, n, o)'
    BY OfferedIs
  <2> QED
    BY <1>2, <2>1
<1>4. Offered' = [Offered EXCEPT ![m] = {}]
  BY <1>3, OfferedIsFunction
<1>5. Lifecycle!Remove(m)
  BY <1>1, <1>4, PartialStays DEF Lifecycle!Remove
<1> QED
  BY <1>5 DEF Implements, Lifecycle!Next

LEMMA WipeMaps ==
  ASSUME IInv, NEW p \in Procs, Wipe(p)
  PROVE  Implements
<1> DEFINE m == task[p].movie
<1>1. /\ task[p] # None /\ task[p].op = "delete" /\ UNCHANGED <<movie, video, unsent>> /\ store' = [store EXCEPT ![m] = {}]
  BY DEF Wipe, At, tables, Past
<1>2. m \in Movies /\ movie[m] = None
  BY <1>1, Context, ShapeByOp DEF Holds, HoldsFiles
<1>3. Lifecycle!Wipe(m)
  BY <1>1, <1>2, OffersStay, PartialStays DEF Lifecycle!Wipe
<1> QED
  BY <1>2, <1>3 DEF Implements, Lifecycle!Next

LEMMA SetStatusMaps ==
  ASSUME NEW m \in Movies, NEW status \in AdminStatuses, SetStatus(m, status)
  PROVE  Implements
<1>1. movie[m] # None /\ movie' = [movie EXCEPT ![m] = status] /\ UNCHANGED <<video, store, unsent>>
  BY DEF SetStatus
<1>2. Lifecycle!Decide(m, status)
  BY <1>1, OffersStay, PartialStays DEF Lifecycle!Decide, Lifecycle!Become
<1> QED
  BY <1>2 DEF Implements, Lifecycle!Next

LEMMA StepMaps ==
  ASSUME IInv, IInv', SentOrUnsent, [Next]_vars
  PROVE  Implements
<1>1. CASE UNCHANGED vars
  BY <1>1, Stutters DEF vars
<1>2. ASSUME Next, UNCHANGED <<store, unsent>> PROVE Implements
  <2>1. ASSUME NEW p \in Procs, Receive(p) PROVE Implements
    <3>1. ASSUME NEW op, NEW at, NEW m, NEW i, NEW todo, Ask(p, op, at, m, i, todo) PROVE Implements
      BY <1>2, <3>1, Stutters DEF Ask, tables
    <3> QED
      BY <2>1, <3>1, DeleteMovieMaps DEF Receive, AskInit, AskComplete, AskReprocess, AskFinalize
  <2>2. ASSUME NEW p \in Procs, Handle(p) PROVE Implements
    <3>1. Reprocess(p) \/ LoadMovie(p) \/ VerifyObjects(p) => Implements
      BY <1>2, Stutters DEF Reprocess, Claim, FetchOriginal, LoadMovie, VerifyObjects, tables
    <3> QED
      BY <1>2, <2>2, <3>1, UploadMaps, PipelineMaps, SettleMaps, WipeMaps DEF Handle, Finalize
  <2>3. ASSUME NEW p \in Procs, Throw(p) PROVE Implements
    BY <1>2, <2>3, Stutters DEF Throw, tables
  <2>4. ASSUME NEW i \in DOMAIN session, NEW c \in Chunks, SaveChunk(i, c) PROVE Implements
    BY <1>2, <2>4, Stutters DEF SaveChunk, tables
  <2>5. ASSUME NEW m \in Movies,
               \/ \E o \in Bundle : Deliver(m, o)
               \/ \E t \in Tiers : Straggle(m, t)
               \/ \E status \in AdminStatuses : SetStatus(m, status)
        PROVE  Implements
    BY <1>2, <2>5, SetStatusMaps, Stutters DEF Deliver, Straggle, tables
  <2>6. StartSweep \/ ListScratch \/ SweepDirectory \/ DayPasses \/ Restart => Implements
    BY <1>2, Stutters DEF StartSweep, ListScratch, SweepDirectory, DayPasses, Restart, tables
  <2> QED
    BY <1>2, <2>1, <2>2, <2>3, <2>4, <2>5, <2>6 DEF Next
<1>3. CASE Next
  BY <1>2, <1>3, FilesStep, Stores, Begins, WipeMaps
<1> QED
  BY <1>1, <1>3

LEMMA InitMaps == Init => Lifecycle!Init
<1> SUFFICES ASSUME Init PROVE Lifecycle!Init
  OBVIOUS
<1>1. PICK s \in Start : movie = s.movie /\ video = s.video /\ store = s.store
  BY DEF Init
<1>2. /\ movie \in [Movies -> MovieStatus \cup {None}] /\ store \in [Movies -> SUBSET Assets]
      /\ \A v \in DOMAIN video : video[v] # None => video[v].status \in {"PROCESSING", "FAILED"}
  BY <1>1, StartIsSound
<1>3. \A m \in Movies : \A o : o \notin Offered[m]
  BY <1>2, OfferedIs DEF Offers
<1>4. Offered = [m \in Movies |-> {}]
  BY <1>3, OfferedIsFunction
<1> QED
  BY <1>2, <1>4, PartialTyped DEF Lifecycle!Init

\* Every behaviour of the services, with any number of requests, runs, failures and
\* restarts, is one TitleLifecycle allows.
THEOREM UploadsImplement == Spec => ImplementsLifecycle
<1>1. (IInv /\ SentOrUnsent) /\ (IInv /\ SentOrUnsent)' /\ [Next]_vars => [Lifecycle!Next]_(Lifecycle!lifecycleVars)
  BY StepMaps DEF Implements
<1> QED
  BY <1>1, InitMaps, PartsAreKnown, PTL DEF Spec, ImplementsLifecycle, Lifecycle!Spec

-----------------------------------------------------------------------------
(* What the lifecycle promises, and so the services *)

USE LifecycleStatuses

\* One step of the lifecycle keeps statuses, offers and files in their types.
LEMMA LifecycleTypes ==
  ASSUME Lifecycle!TypeOK, [Lifecycle!Next]_(Lifecycle!lifecycleVars)
  PROVE  Lifecycle!TypeOK'
<1> USE DEF Lifecycle!TypeOK, Lifecycle!StatusesKnown
<1>1. CASE UNCHANGED Lifecycle!lifecycleVars
  BY <1>1 DEF Lifecycle!lifecycleVars
<1>2. CASE Lifecycle!Next
  <2> PICK m \in Movies :
         \/ \E o \in Assets : Lifecycle!Store(m, o)
         \/ Lifecycle!Begin(m) \/ Lifecycle!Offer(m) \/ Lifecycle!Retract(m)
         \/ Lifecycle!GoLive(m) \/ Lifecycle!FallBack(m) \/ Lifecycle!Accept(m) \/ Lifecycle!Refuse(m)
         \/ \E s \in AdminStatuses : Lifecycle!Decide(m, s)
         \/ Lifecycle!Remove(m) \/ Lifecycle!Wipe(m)
    BY <1>2 DEF Lifecycle!Next
  <2>1. ASSUME NEW o \in Assets, Lifecycle!Store(m, o) PROVE Lifecycle!TypeOK'
    BY <2>1 DEF Lifecycle!Store
  <2>2. CASE Lifecycle!Begin(m) \/ Lifecycle!Offer(m) \/ Lifecycle!Retract(m)
    BY <2>2 DEF Lifecycle!Begin, Lifecycle!Offer, Lifecycle!Retract
  <2>3. ASSUME NEW s \in MovieStatus, Lifecycle!Become(m, s) PROVE Lifecycle!TypeOK'
    BY <2>3 DEF Lifecycle!Become
  <2>4. CASE Lifecycle!Remove(m)
    BY <2>4 DEF Lifecycle!Remove
  <2>5. CASE Lifecycle!Wipe(m)
    BY <2>5 DEF Lifecycle!Wipe
  <2>6. CASE \/ Lifecycle!GoLive(m) \/ Lifecycle!FallBack(m) \/ Lifecycle!Accept(m) \/ Lifecycle!Refuse(m)
             \/ \E s \in AdminStatuses : Lifecycle!Decide(m, s)
    BY <2>3, <2>6 DEF Lifecycle!GoLive, Lifecycle!FallBack, Lifecycle!Accept, Lifecycle!Refuse, Lifecycle!Decide
  <2> QED
    BY <2>1, <2>2, <2>4, <2>5, <2>6
<1> QED
  BY <1>1, <1>2

\* One step keeps every offer backed by files and by a title that is there.
LEMMA LifecycleBacks ==
  ASSUME Lifecycle!TypeOK, Lifecycle!OfferIsBacked, [Lifecycle!Next]_(Lifecycle!lifecycleVars)
  PROVE  Lifecycle!OfferIsBacked'
<1> USE DEF Lifecycle!TypeOK, Lifecycle!OfferIsBacked, Lifecycle!StatusesKnown
<1>1. CASE UNCHANGED Lifecycle!lifecycleVars
  BY <1>1 DEF Lifecycle!lifecycleVars
<1>2. CASE Lifecycle!Next
  <2> PICK m \in Movies :
         \/ \E o \in Assets : Lifecycle!Store(m, o)
         \/ Lifecycle!Begin(m) \/ Lifecycle!Offer(m) \/ Lifecycle!Retract(m)
         \/ Lifecycle!GoLive(m) \/ Lifecycle!FallBack(m) \/ Lifecycle!Accept(m) \/ Lifecycle!Refuse(m)
         \/ \E s \in AdminStatuses : Lifecycle!Decide(m, s)
         \/ Lifecycle!Remove(m) \/ Lifecycle!Wipe(m)
    BY <1>2 DEF Lifecycle!Next
  <2>1. ASSUME NEW o \in Assets, Lifecycle!Store(m, o) PROVE Lifecycle!OfferIsBacked'
    BY <2>1 DEF Lifecycle!Store
  <2>2. CASE Lifecycle!Begin(m) \/ Lifecycle!Offer(m) \/ Lifecycle!Retract(m)
    BY <2>2 DEF Lifecycle!Begin, Lifecycle!Offer, Lifecycle!Retract
  \* A title without a row has no status to move.
  <2>3. ASSUME NEW s \in MovieStatus, movie[m] # None, Lifecycle!Become(m, s) PROVE Lifecycle!OfferIsBacked'
    BY <2>3 DEF Lifecycle!Become
  <2>4. CASE Lifecycle!Remove(m)
    BY <2>4 DEF Lifecycle!Remove
  \* The files go only of a title that offers nothing any more.
  <2>5. CASE Lifecycle!Wipe(m)
    BY <2>5 DEF Lifecycle!Wipe
  <2>6. CASE \/ Lifecycle!GoLive(m) \/ Lifecycle!FallBack(m) \/ Lifecycle!Accept(m) \/ Lifecycle!Refuse(m)
             \/ \E s \in AdminStatuses : Lifecycle!Decide(m, s)
    BY <2>3, <2>6 DEF Lifecycle!GoLive, Lifecycle!FallBack, Lifecycle!Accept, Lifecycle!Refuse, Lifecycle!Decide
  <2> QED
    BY <2>1, <2>2, <2>4, <2>5, <2>6
<1> QED
  BY <1>1, <1>2

\* READY is backed in the abstract: no run, finalize or deletion, in any number and
\* order, leaves viewers an object that is neither in the store nor known to be sent in part.
THEOREM OfferBacked == Lifecycle!Spec => [](Lifecycle!TypeOK /\ Lifecycle!OfferIsBacked)
<1>1. Lifecycle!Init => Lifecycle!TypeOK /\ Lifecycle!OfferIsBacked
  BY DEF Lifecycle!Init, Lifecycle!TypeOK, Lifecycle!OfferIsBacked
<1>2. Lifecycle!TypeOK /\ Lifecycle!OfferIsBacked /\ [Lifecycle!Next]_(Lifecycle!lifecycleVars)
         => (Lifecycle!TypeOK /\ Lifecycle!OfferIsBacked)'
  BY LifecycleTypes, LifecycleBacks
<1> QED
  BY <1>1, <1>2, PTL DEF Lifecycle!Spec

\* A deleted title is not brought back by what was under way for it.
THEOREM GoneForGood == Lifecycle!Spec => Lifecycle!GoneStaysGone
<1>1. Lifecycle!TypeOK /\ [Lifecycle!Next]_(Lifecycle!lifecycleVars) =>
        [\A m \in Movies : movie[m] = None => movie'[m] = None]_(Lifecycle!lifecycleVars)
  <2> SUFFICES ASSUME Lifecycle!TypeOK, Lifecycle!Next PROVE \A m \in Movies : movie[m] = None => movie'[m] = None
    BY DEF Lifecycle!lifecycleVars
  <2>1. \/ UNCHANGED movie
        \/ \E m \in Movies, s \in MovieStatus \cup {None} : movie[m] # None /\ movie' = [movie EXCEPT ![m] = s]
    BY DEF Lifecycle!StatusesKnown, Lifecycle!TypeOK, Lifecycle!Next, Lifecycle!Store, Lifecycle!Begin, Lifecycle!Offer,
           Lifecycle!Retract, Lifecycle!GoLive,
           Lifecycle!FallBack, Lifecycle!Accept, Lifecycle!Refuse, Lifecycle!Decide, Lifecycle!Become,
           Lifecycle!Remove, Lifecycle!Wipe
  <2> QED
    BY <2>1 DEF Lifecycle!TypeOK
<1>2. Lifecycle!Spec => []Lifecycle!TypeOK
  BY OfferBacked, PTL
<1> QED
  BY <1>1, <1>2, PTL DEF Lifecycle!Spec, Lifecycle!GoneStaysGone

\* What the playable videos of a title name (the original, the master playlist, and of
\* each rendition the playlist and the segments, whether the pipeline made them or a
\* bundle brought them) is in the store or belongs to a rendition somebody sent in part,
\* and a title that is gone has none.
THEOREM UploadsBacked == Spec => []ReadyIsBacked
BY UploadsImplement, OfferBacked, PTL DEF ImplementsLifecycle, ReadyIsBacked

\* A deleted title is brought back by nothing that was under way for it: no run, no
\* finalize and no administrator's late change.
THEOREM DeletedForGood == Spec => [][\A m \in Movies : movie[m] = None => movie'[m] = None]_movie
<1>1. [\A m \in Movies : movie[m] = None => movie'[m] = None]_(Lifecycle!lifecycleVars)
         => [\A m \in Movies : movie[m] = None => movie'[m] = None]_movie
  BY DEF Lifecycle!lifecycleVars
<1> QED
  BY UploadsImplement, GoneForGood, <1>1, PTL DEF ImplementsLifecycle, Lifecycle!GoneStaysGone

=============================================================================
