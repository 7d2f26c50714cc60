------------------------- MODULE ConfigStoreProofs --------------------------
(***************************************************************************)
(* Proofs about ConfigStore, for any sets of slots and configurations.      *)
(*                                                                         *)
(* While the history is clean, and while an update is whole, at most one     *)
(* update is on its way.  OrderInv follows it: before its file write, between *)
(* the two effects in either order, and after both.  IntactInv says what a    *)
(* clean history has besides: the stores are right before the update begins.  *)
(***************************************************************************)
EXTENDS ConfigStore, TLAPS

\* A file write belongs to an update that is waiting or answered, of the same
\* configuration.
WriterInv ==
    \A r \in Slots :
        /\ writer[r].phase # "none" => req[r].stage \in {"idle", "postSet"}
        /\ writer[r].phase # "none" /\ At(r, "postSet") => writer[r].data = req[r].data

\* The file holds the last answered update, or what the update on its way has
\* made of it since its write began.
FileInv ==
    /\ ~Busy => file \in Values /\ file.config = current
    /\ \A r \in Slots :
         /\ writer[r].phase = "write" => file = Empty
         /\ writer[r].phase = "none" /\ At(r, "postSet") => file = req[r].data

\* The controller's copy is the last answered update while none is unanswered, and
\* so is what a fill is about to copy.
CopyInv ==
    /\ (\A r \in Slots : ~At(r, "postSet")) /\ redis[CtlKey] # Missing =>
         redis[CtlKey].config = current
    /\ \A r \in Slots :
         /\ writer[r].phase # "none" /\ ~At(r, "postSet") => writer[r].data.config = current
         /\ Filling(r) => req[r].data.config = current

\* Before an update has an effect the stores are what the last one left.
IntactInv ==
    /\ redis[CtlKey] # Missing => redis[CtlKey].config = current
    /\ \A r \in Slots : writer[r].phase = "open" => file \in Values

OrderInv ==
    /\ whole => Busy
    /\ whole \/ clean => ~Crossing /\ FileInv /\ CopyInv
    /\ clean => IntactInv

\* A request is fresh only while no update is on its way, and one that has a
\* configuration then has the last answered update.
FreshInv ==
    \A r \in Slots : fresh[r] =>
        ~Busy /\ (clean /\ At(r, "handler") => req[r].data.config = current)

IInv == TypeOK /\ WriterInv /\ OrderInv

-----------------------------------------------------------------------------
(***************************************************************************)
(* Types.                                                                  *)
(***************************************************************************)

\* A request that is awaited with fitting data keeps the type of req.
LEMMA AwaitType ==
    ASSUME TypeOK, NEW r \in Slots, NEW stage \in Stages,
           NEW data \in Values \cup {Nothing}, Await(r, stage, data),
           stage \in {"mwSet", "handler", "ctlSet", "postSet"} => data \in Values
    PROVE  /\ req' \in [Slots -> [stage : Stages, data : Values \cup {Nothing}]]
           /\ \A q \in Slots : req'[q].stage \in {"mwSet", "handler", "ctlSet", "postSet"} =>
                                 req'[q].data \in Values
  <1> DEFINE j == [stage |-> stage, data |-> data]
  <1>1. j \in [stage : Stages, data : Values \cup {Nothing}]
    OBVIOUS
  <1>2. req' = [req EXCEPT ![r] = j]
    BY DEF Await
  <1>3. \A q \in Slots : req'[q] = IF q = r THEN j ELSE req[q]
    BY <1>2 DEF TypeOK
  <1>4. j.stage = stage /\ j.data = data
    OBVIOUS
  <1> QED
    BY <1>1, <1>2, <1>3, <1>4 DEF TypeOK

\* So does a slot that becomes free.
LEMMA FinishType ==
    ASSUME TypeOK, NEW r \in Slots, Finish(r)
    PROVE  /\ req' \in [Slots -> [stage : Stages, data : Values \cup {Nothing}]]
           /\ \A q \in Slots : req'[q].stage \in {"mwSet", "handler", "ctlSet", "postSet"} =>
                                 req'[q].data \in Values
  BY DEF TypeOK, Finish, Free, Stages

\* Half a file is never parsed, so only whole configurations travel.
LEMMA TypeStep == TypeOK /\ [Next]_vars => TypeOK'
  <1> SUFFICES ASSUME TypeOK, [Next]_vars
               PROVE  TypeOK'
    OBVIOUS
  <1>k. MwKey \in Keys /\ CtlKey \in Keys
    BY DEF Keys
  <1> DEFINE HistoryOK == whole' \in BOOLEAN /\ clean' \in BOOLEAN /\ fresh' \in [Slots -> BOOLEAN]
  <1>c. Next => HistoryOK
    BY DEF Next, NoteCrossing, NoteFailure, NoteFresh, TypeOK
  <1>1. ASSUME NEW r \in Slots, RequestStep(r), HistoryOK
        PROVE  TypeOK'
    <2> USE <1>1
    <2>1. CASE MwGet(r)
      <3>1. redis[MwKey] # Missing => redis[MwKey] \in Values
        BY <1>k DEF TypeOK
      <3> QED
        BY <2>1, <3>1, AwaitType DEF MwGet, Stages, TypeOK
    <2>2. CASE MwRead(r)
      BY <2>2, AwaitType, FinishType DEF MwRead, Stages, TypeOK
    <2>3. CASE MwSet(r)
      <3>1. req[r].data \in Values /\ Parsed(req[r].data) \in Values
        BY <2>3 DEF MwSet, At, TypeOK, Parsed, Values
      <3>2. redis' \in [Keys -> Values \cup {Missing}]
        BY <1>k, <2>3, <3>1 DEF MwSet, Put, TypeOK
      <3> QED
        BY <2>3, <3>1, <3>2, AwaitType, FinishType DEF MwSet, Stages, TypeOK
    <2>4. CASE Serve(r)
      BY <2>4, FinishType DEF Serve, TypeOK
    <2>5. CASE CtlGet(r)
      BY <2>5, AwaitType, FinishType DEF CtlGet, Stages, TypeOK
    <2>6. CASE CtlRead(r)
      BY <2>6, AwaitType, FinishType DEF CtlRead, Stages, TypeOK
    <2>7. CASE CtlSet(r)
      <3>1. req[r].data \in Values
        BY <2>7 DEF CtlSet, At, TypeOK
      <3>2. redis' \in [Keys -> Values \cup {Missing}]
        BY <1>k, <2>7, <3>1 DEF CtlSet, Put, TypeOK
      <3> QED
        BY <2>7, <3>2, FinishType DEF CtlSet, TypeOK
    <2>8. ASSUME NEW v \in Values, Post(r, v) PROVE TypeOK'
      <3>1. "postSet" \in Stages
        BY DEF Stages
      <3>2. /\ writer' \in [Slots -> [phase : {"none", "open", "write"}, data : Values \cup {Nothing}]]
            /\ \A q \in Slots : writer'[q].phase # "none" => writer'[q].data \in Values
        BY <2>8, <3>1 DEF Post, TypeOK
      <3> QED
        BY <2>8, <3>1, <3>2, AwaitType DEF Post, TypeOK
    <2>9. CASE PostSet(r)
      <3>1. req[r].data \in Values
        BY <2>9 DEF PostSet, At, TypeOK
      <3>2. redis' \in [Keys -> Values \cup {Missing}] /\ current' \in Configs
        BY <1>k, <2>9, <3>1 DEF PostSet, Put, TypeOK, Values
      <3> QED
        BY <2>9, <3>2, FinishType DEF PostSet, TypeOK
    <2>10. CASE OpenFile(r)
      <3>1. /\ writer' \in [Slots -> [phase : {"none", "open", "write"}, data : Values \cup {Nothing}]]
            /\ \A q \in Slots : writer'[q].phase # "none" => writer'[q].data \in Values
        BY <2>10 DEF OpenFile, TypeOK
      <3> QED
        BY <2>10, <3>1 DEF OpenFile, TypeOK
    <2>11. CASE WriteFile(r)
      <3>1. /\ writer' \in [Slots -> [phase : {"none", "open", "write"}, data : Values \cup {Nothing}]]
            /\ \A q \in Slots : writer'[q].phase # "none" => writer'[q].data \in Values
        BY <2>11 DEF WriteFile, NoWrite, TypeOK
      <3>2. file' \in Values \cup {Empty, Torn}
        BY <2>11 DEF WriteFile, TypeOK
      <3> QED
        BY <2>11, <3>1, <3>2 DEF WriteFile, TypeOK
    <2> QED
      BY <1>1, <2>1, <2>2, <2>3, <2>4, <2>5, <2>6, <2>7, <2>8, <2>9, <2>10, <2>11 DEF RequestStep
  <1>2. ASSUME LoseRedis, HistoryOK
        PROVE  TypeOK'
    BY <1>2 DEF LoseRedis, TypeOK
  <1>3. ASSUME NEW r \in Slots, Abort(r), HistoryOK
        PROVE  TypeOK'
    BY <1>3, FinishType DEF Abort, TypeOK
  <1>4. ASSUME Crash, HistoryOK
        PROVE  TypeOK'
    BY <1>4 DEF Crash, TypeOK, Free, NoWrite, Stages
  <1>5. CASE UNCHANGED vars
    BY <1>5 DEF vars, TypeOK
  <1> QED
    BY <1>1, <1>2, <1>3, <1>4, <1>5, <1>c DEF Next

-----------------------------------------------------------------------------
(***************************************************************************)
(* What a step moves.                                                      *)
(***************************************************************************)

\* A request that goes on has the new stage and data; no other one moves.
LEMMA AwaitMoves ==
    ASSUME TypeOK, NEW r \in Slots, NEW stage, NEW data, Await(r, stage, data)
    PROVE  /\ req'[r].stage = stage /\ req'[r].data = data
           /\ \A q \in Slots : q # r => req'[q] = req[q]
  <1> DEFINE j == [stage |-> stage, data |-> data]
  <1>1. req'[r] = j /\ \A q \in Slots : q # r => req'[q] = req[q]
    BY DEF Await, TypeOK
  <1>2. j.stage = stage /\ j.data = data
    OBVIOUS
  <1> QED
    BY <1>1, <1>2

\* A slot that becomes free is idle.
LEMMA FinishMoves ==
    ASSUME TypeOK, NEW r \in Slots, Finish(r)
    PROVE  /\ req'[r].stage = "idle"
           /\ \A q \in Slots : q # r => req'[q] = req[q]
  BY DEF Finish, Free, TypeOK

\* A step of one request leaves the other slots and their file writes alone.
LEMMA OthersStay ==
    ASSUME TypeOK, NEW r \in Slots, RequestStep(r)
    PROVE  \A q \in Slots : q # r => req'[q] = req[q] /\ writer'[q] = writer[q]
  <1> SUFFICES ASSUME NEW q \in Slots, q # r
               PROVE  req'[q] = req[q] /\ writer'[q] = writer[q]
    OBVIOUS
  <1>1. CASE MwGet(r)
    BY <1>1 DEF MwGet, Await, TypeOK
  <1>2. CASE MwRead(r) \/ MwSet(r) \/ Serve(r)
    BY <1>2 DEF MwRead, MwSet, Serve, Await, Finish, TypeOK
  <1>3. CASE CtlGet(r) \/ CtlRead(r) \/ CtlSet(r)
    BY <1>3 DEF CtlGet, CtlRead, CtlSet, Await, Finish, TypeOK
  <1>4. CASE \E v \in Values : Post(r, v)
    BY <1>4 DEF Post, Await, TypeOK
  <1>5. CASE PostSet(r) \/ OpenFile(r) \/ WriteFile(r)
    BY <1>5 DEF PostSet, OpenFile, WriteFile, Finish, TypeOK
  <1> QED
    BY <1>1, <1>2, <1>3, <1>4, <1>5 DEF RequestStep

-----------------------------------------------------------------------------
(***************************************************************************)
(* The file writes.                                                        *)
(***************************************************************************)

\* Only Post starts a write, and the slot waits for both of its effects.
LEMMA WriterStep == TypeOK /\ WriterInv /\ [Next]_vars => WriterInv'
  <1> SUFFICES ASSUME TypeOK, WriterInv, [Next]_vars
               PROVE  WriterInv'
    OBVIOUS
  <1>1. ASSUME NEW r \in Slots, RequestStep(r)
        PROVE  WriterInv'
    <2>0. \A q \in Slots : q # r => req'[q] = req[q] /\ writer'[q] = writer[q]
      BY <1>1, OthersStay
    <2>1. CASE MwGet(r)
      <3>1. writer' = writer /\ writer[r].phase = "none"
        BY <2>1 DEF MwGet
      <3> QED
        BY <2>0, <3>1 DEF WriterInv, At
    <2>2. CASE MwRead(r) \/ MwSet(r) \/ Serve(r) \/ CtlGet(r) \/ CtlRead(r) \/ CtlSet(r)
      <3>1. /\ writer' = writer
            /\ req[r].stage \in {"mwRead", "mwSet", "handler", "ctlRead", "ctlSet"}
        BY <2>2 DEF MwRead, MwSet, Serve, CtlGet, CtlRead, CtlSet, At
      <3>2. writer[r].phase = "none"
        BY <3>1 DEF WriterInv
      <3> QED
        BY <2>0, <3>1, <3>2 DEF WriterInv, At
    <2>3. ASSUME NEW v \in Values, Post(r, v) PROVE WriterInv'
      <3>1. writer'[r].data = v
        BY <2>3 DEF Post, TypeOK
      <3>2. req'[r].stage = "postSet" /\ req'[r].data = v
        BY <2>3, AwaitMoves DEF Post
      <3> QED
        BY <2>0, <3>1, <3>2 DEF WriterInv, At
    <2>4. CASE PostSet(r)
      <3>1. writer' = writer /\ req'[r].stage = "idle"
        BY <2>4, FinishMoves DEF PostSet
      <3> QED
        BY <2>0, <3>1 DEF WriterInv, At
    <2>5. CASE OpenFile(r) \/ WriteFile(r)
      <3>1. req' = req /\ writer[r].phase # "none"
        BY <2>5 DEF OpenFile, WriteFile
      <3>2. writer'[r].phase = "none" \/ writer'[r].data = writer[r].data
        BY <2>5 DEF OpenFile, WriteFile, NoWrite, TypeOK
      <3> QED
        BY <2>0, <3>1, <3>2 DEF WriterInv, At
    <2> QED
      BY <1>1, <2>1, <2>2, <2>3, <2>4, <2>5 DEF RequestStep
  <1>2. CASE LoseRedis \/ UNCHANGED vars
    BY <1>2 DEF LoseRedis, vars, WriterInv, At
  <1>3. ASSUME NEW r \in Slots, Abort(r)
        PROVE  WriterInv'
    <2>1. /\ writer' = writer /\ req'[r].stage = "idle"
          /\ \A q \in Slots : q # r => req'[q] = req[q]
      BY <1>3, FinishMoves DEF Abort
    <2> QED
      BY <2>1 DEF WriterInv, At
  <1>4. CASE Crash
    BY <1>4 DEF Crash, Free, NoWrite, WriterInv, At
  <1> QED
    BY <1>1, <1>2, <1>3, <1>4 DEF Next

-----------------------------------------------------------------------------
(***************************************************************************)
(* One update at a time.                                                   *)
(***************************************************************************)

\* Only Post puts an update on its way.
LEMMA OnlyPostBegins ==
    ASSUME TypeOK, WriterInv, NEW r \in Slots, RequestStep(r), ~Busy, Busy'
    PROVE  \E v \in Values : Post(r, v)
  <1>0. \A q \in Slots : q # r => req'[q] = req[q] /\ writer'[q] = writer[q]
    BY OthersStay
  <1>1. ~Posting(r) /\ Posting(r)'
    BY <1>0 DEF Busy, Posting, At
  <1>2. ASSUME MwGet(r) \/ MwRead(r) \/ MwSet(r) \/ Serve(r) \/ CtlGet(r) \/ CtlRead(r) \/ CtlSet(r)
        PROVE  FALSE
    <2>1. writer' = writer
      BY <1>2 DEF MwGet, MwRead, MwSet, Serve, CtlGet, CtlRead, CtlSet
    <2>2. req'[r].stage \in {"mwRead", "mwSet", "handler", "ctlRead", "ctlSet", "idle"}
      BY <1>2, AwaitMoves, FinishMoves
      DEF MwGet, MwRead, MwSet, Serve, CtlGet, CtlRead, CtlSet
    <2> QED
      BY <1>1, <2>1, <2>2 DEF Posting, At
  <1>3. PostSet(r) \/ OpenFile(r) \/ WriteFile(r) => Posting(r)
    BY DEF PostSet, OpenFile, WriteFile, Posting
  <1> QED
    BY <1>1, <1>2, <1>3 DEF RequestStep

\* An update that begins alone owes nothing to what was there before.
LEMMA UpdateBegins ==
    ASSUME TypeOK, WriterInv, NEW r \in Slots, NEW v \in Values, Post(r, v), ~Crossing'
    PROVE  ~Busy /\ FileInv' /\ CopyInv'
  <1>0. \A q \in Slots : q # r => req'[q] = req[q] /\ writer'[q] = writer[q]
    BY OthersStay DEF RequestStep
  <1>1. /\ file' = file /\ current' = current /\ redis' = redis
        /\ req[r].stage = "handler"
    BY DEF Post, At
  <1>2. writer'[r].phase = "open" /\ req'[r].stage = "postSet"
    BY AwaitMoves DEF Post, TypeOK
  <1>3. ~Posting(r) /\ Posting(r)'
    BY <1>1, <1>2 DEF Posting, At, WriterInv
  <1>4. \A q \in Slots : q # r => ~Posting(q)' /\ ~Filling(q)'
    BY <1>3 DEF Crossing
  <1>5. ~Busy
    BY <1>0, <1>3, <1>4 DEF Busy, Posting, At
  <1> QED
    BY <1>0, <1>1, <1>2, <1>3, <1>4, <1>5 DEF FileInv, CopyInv, Busy, Posting, Filling, At

\* A fill copies the last answered update, parsed or as read, under its key.
LEMMA FillCopies ==
    ASSUME TypeOK, CopyInv, NEW r \in Slots, MwSet(r) \/ CtlSet(r)
    PROVE  \/ redis'[CtlKey] = redis[CtlKey]
           \/ redis'[CtlKey] = Missing
           \/ redis'[CtlKey].config = current
  <1>1. req[r].stage \in {"mwSet", "ctlSet"}
    BY DEF MwSet, CtlSet, At
  <1>2. req[r].data.config = current /\ req[r].data \in Values
    BY <1>1 DEF CopyInv, Filling, TypeOK
  <1>3. Parsed(req[r].data).config = current
    BY <1>2 DEF Parsed, Values
  <1>4. \/ redis'[CtlKey] = redis[CtlKey]
        \/ redis'[CtlKey] = Missing
        \/ redis'[CtlKey] \in {req[r].data, Parsed(req[r].data)}
    BY DEF MwSet, CtlSet, Put, TypeOK, Keys
  <1> QED
    BY <1>2, <1>3, <1>4

\* Files and copies while a request step crosses nothing: an update that begins is
\* alone, a fill that has read the file has read it between updates.
LEMMA OrderRequestStep ==
    ASSUME TypeOK, WriterInv, ~Crossing, FileInv, CopyInv,
           NEW r \in Slots, RequestStep(r), ~Crossing'
    PROVE  FileInv' /\ CopyInv'
  <1>0. \A q \in Slots : q # r => req'[q] = req[q] /\ writer'[q] = writer[q]
    BY OthersStay
  <1>k. CtlKey \in Keys /\ MwKey \in Keys
    BY DEF Keys
  <1>u. \A q, s \in Slots : q # s /\ Posting(q) => ~Posting(s) /\ ~Filling(s)
    BY DEF Crossing
  <1>v. \A q, s \in Slots : q # s /\ Posting(q)' => ~Posting(s)' /\ ~Filling(s)'
    BY DEF Crossing
  <1>1. CASE MwGet(r)
    <2>1. /\ writer' = writer /\ file' = file /\ current' = current /\ redis' = redis
          /\ writer[r].phase = "none" /\ req[r].stage = "idle"
      BY <1>1 DEF MwGet, At
    <2>2. req'[r].stage \in {"mwRead", "handler"}
      BY <1>1, AwaitMoves DEF MwGet
    <2> QED
      BY <1>0, <2>1, <2>2 DEF FileInv, CopyInv, Busy, Posting, Filling, At
  <1>2. ASSUME file \in Values, file' = file, redis' = redis,
               writer' = writer, current' = current, req'[r].data = file,
               req[r].stage \in {"mwRead", "ctlRead"}, req'[r].stage \in {"mwSet", "ctlSet"}
        PROVE  FileInv' /\ CopyInv'
    <2>1. writer[r].phase = "none"
      BY <1>2 DEF WriterInv
    <2>2. Filling(r)' /\ ~Posting(r)
      BY <1>2, <2>1 DEF Filling, Posting, At
    <2>3. \A q \in Slots : q # r => ~Posting(q)'
      BY <1>v, <2>2
    <2>4. \A q \in Slots : ~Posting(q)
      BY <1>0, <2>2, <2>3 DEF Posting, At
    <2>5. file.config = current
      BY <2>4 DEF FileInv, Busy
    <2> QED
      BY <1>0, <1>2, <2>1, <2>4, <2>5 DEF FileInv, CopyInv, Busy, Posting, Filling, At
  <1>3. ASSUME redis' = redis, file' = file, writer' = writer, current' = current,
               req[r].stage \in {"mwRead", "handler", "ctlRead"},
               req'[r].stage \in {"idle", "ctlRead"}
        PROVE  FileInv' /\ CopyInv'
    BY <1>0, <1>3 DEF FileInv, CopyInv, Busy, Posting, Filling, At
  <1>4. CASE MwRead(r) \/ CtlRead(r)
    <2>1. /\ writer' = writer /\ file' = file /\ current' = current /\ redis' = redis
          /\ req[r].stage \in {"mwRead", "ctlRead"}
      BY <1>4 DEF MwRead, CtlRead, At
    <2>2. CASE file \in Values
      <3>1. req'[r].data = file /\ req'[r].stage \in {"mwSet", "ctlSet"}
        BY <1>4, <2>2, AwaitMoves DEF MwRead, CtlRead
      <3> QED
        BY <1>2, <2>1, <2>2, <3>1
    <2>3. CASE file \notin Values
      <3>1. req'[r].stage = "idle"
        BY <1>4, <2>3, FinishMoves DEF MwRead, CtlRead
      <3> QED
        BY <1>3, <2>1, <3>1
    <2> QED
      BY <2>2, <2>3
  <1>5. CASE Serve(r) \/ CtlGet(r)
    <2>1. /\ writer' = writer /\ file' = file /\ current' = current /\ redis' = redis
          /\ req[r].stage = "handler"
      BY <1>5 DEF Serve, CtlGet, At
    <2>2. req'[r].stage \in {"idle", "ctlRead"}
      BY <1>5, AwaitMoves, FinishMoves DEF Serve, CtlGet
    <2> QED
      BY <1>3, <2>1, <2>2
  <1>6. CASE MwSet(r) \/ CtlSet(r)
    <2>1. /\ writer' = writer /\ file' = file /\ current' = current
          /\ req[r].stage \in {"mwSet", "ctlSet"}
      BY <1>6 DEF MwSet, CtlSet, At
    <2>2. req'[r].stage \in {"idle", "handler"}
      BY <1>6, AwaitMoves, FinishMoves DEF MwSet, CtlSet
    <2>3. redis'[CtlKey] = redis[CtlKey] \/ redis'[CtlKey] = Missing
            \/ redis'[CtlKey].config = current
      BY <1>6, FillCopies
    <2> QED
      BY <1>0, <2>1, <2>2, <2>3 DEF FileInv, CopyInv, Busy, Posting, Filling, At
  <1>7. ASSUME NEW v \in Values, Post(r, v) PROVE FileInv' /\ CopyInv'
    BY <1>7, UpdateBegins
  <1>8. CASE PostSet(r)
    <2>1. /\ file' = file /\ writer' = writer /\ current' = req[r].data.config
          /\ req[r].stage = "postSet" /\ req[r].data \in Values
      BY <1>8 DEF PostSet, At, TypeOK
    <2>2. req'[r].stage = "idle"
      BY <1>8, FinishMoves DEF PostSet
    <2>3. redis'[CtlKey] = req[r].data
      BY <1>8, <1>k DEF PostSet, Put, TypeOK
    <2>4. \A q \in Slots : q # r => ~Posting(q) /\ ~Filling(q)
      BY <1>u, <2>1 DEF Posting, At
    <2>5. writer[r].phase # "none" => writer[r].data = req[r].data
      BY <2>1 DEF WriterInv, At
    <2>6. writer[r].phase = "none" => file = req[r].data
      BY <2>1 DEF FileInv, At
    <2>7. FileInv'
      BY <1>0, <2>1, <2>2, <2>4, <2>6 DEF FileInv, Busy, Posting, At
    <2>8. CopyInv'
      BY <1>0, <2>1, <2>2, <2>3, <2>4, <2>5 DEF CopyInv, Posting, Filling, At
    <2> QED
      BY <2>7, <2>8
  <1>9. CASE OpenFile(r)
    <2>1. /\ file' = Empty /\ req' = req /\ redis' = redis /\ current' = current
          /\ writer[r].phase = "open"
      BY <1>9 DEF OpenFile
    <2>2. writer'[r].phase = "write" /\ writer'[r].data = writer[r].data
      <3>1. writer'[r] = [writer[r] EXCEPT !.phase = "write"]
        BY <1>9 DEF OpenFile, TypeOK
      <3>2. writer[r] \in [phase : {"none", "open", "write"}, data : Values \cup {Nothing}]
        BY DEF TypeOK
      <3> QED
        BY <3>1, <3>2
    <2>3. \A q \in Slots : q # r => ~Posting(q) /\ ~Filling(q)
      BY <1>u, <2>1 DEF Posting
    <2>4. FileInv'
      BY <1>0, <2>1, <2>2, <2>3 DEF FileInv, Busy, Posting, At
    <2>5. CopyInv'
      BY <1>0, <2>1, <2>2, <2>3 DEF CopyInv, Posting, Filling, At
    <2> QED
      BY <2>4, <2>5
  <1>10. CASE WriteFile(r)
    <2>1. /\ req' = req /\ redis' = redis /\ current' = current
          /\ writer[r].phase = "write" /\ writer[r].data \in Values
      BY <1>10 DEF WriteFile, TypeOK
    <2>2. writer'[r].phase = "none"
      BY <1>10 DEF WriteFile, NoWrite, TypeOK
    <2>3. file' = writer[r].data
      BY <1>10, <2>1 DEF WriteFile, FileInv
    <2>4. \A q \in Slots : q # r => ~Posting(q) /\ ~Filling(q)
      BY <1>u, <2>1 DEF Posting
    <2>5. IF req[r].stage = "postSet" THEN writer[r].data = req[r].data
                                      ELSE writer[r].data.config = current
      BY <2>1 DEF WriterInv, CopyInv, At
    <2>6. FileInv'
      BY <1>0, <2>1, <2>2, <2>3, <2>4, <2>5 DEF FileInv, Busy, Posting, At
    <2>7. CopyInv'
      BY <1>0, <2>1, <2>2, <2>4 DEF CopyInv, Posting, Filling, At
    <2> QED
      BY <2>6, <2>7
  <1> QED
    BY <1>1, <1>4, <1>5, <1>6, <1>7, <1>8, <1>9, <1>10 DEF RequestStep

\* What is intact stays so: a fill copies the last answered update, and the update
\* on its way opens the file before it leaves it anything else than whole.
LEMMA IntactStep ==
    ASSUME TypeOK, WriterInv, ~Crossing, FileInv, CopyInv, IntactInv,
           NEW r \in Slots, RequestStep(r), ~Crossing'
    PROVE  IntactInv'
  <1>0. \A q \in Slots : q # r => req'[q] = req[q] /\ writer'[q] = writer[q]
    BY OthersStay
  <1>k. CtlKey \in Keys /\ MwKey \in Keys
    BY DEF Keys
  <1>u. \A q, s \in Slots : q # s /\ Posting(q) => ~Posting(s)
    BY DEF Crossing
  <1>1. CASE MwGet(r) \/ MwRead(r) \/ Serve(r) \/ CtlGet(r) \/ CtlRead(r)
    BY <1>1 DEF MwGet, MwRead, Serve, CtlGet, CtlRead, IntactInv
  <1>2. CASE MwSet(r) \/ CtlSet(r)
    <2>1. /\ writer' = writer /\ file' = file /\ current' = current
          /\ req[r].stage \in {"mwSet", "ctlSet"}
      BY <1>2 DEF MwSet, CtlSet, At
    <2>2. redis'[CtlKey] # Missing => redis'[CtlKey].config = current
      BY <1>2, FillCopies DEF IntactInv
    <2> QED
      BY <2>1, <2>2 DEF IntactInv
  <1>3. ASSUME NEW v \in Values, Post(r, v) PROVE IntactInv'
    <2>1. file' = file /\ current' = current /\ redis' = redis
      BY <1>3 DEF Post
    <2>2. file \in Values
      BY <1>3, UpdateBegins DEF FileInv
    <2> QED
      BY <2>1, <2>2 DEF IntactInv
  <1>4. CASE PostSet(r)
    <2>1. file' = file /\ writer' = writer /\ current' = req[r].data.config
      BY <1>4 DEF PostSet
    <2>2. redis'[CtlKey] = req[r].data
      BY <1>4, <1>k DEF PostSet, Put, TypeOK
    <2> QED
      BY <2>1, <2>2 DEF IntactInv
  <1>5. CASE OpenFile(r) \/ WriteFile(r)
    <2>1. redis' = redis /\ current' = current /\ Posting(r)
      BY <1>5 DEF OpenFile, WriteFile, Posting
    <2>2. writer'[r].phase # "open"
      BY <1>5 DEF OpenFile, WriteFile, NoWrite, TypeOK
    <2>3. \A q \in Slots : q # r => writer'[q].phase = "none"
      BY <1>0, <1>u, <2>1 DEF Posting
    <2> QED
      BY <2>1, <2>2, <2>3 DEF IntactInv
  <1> QED
    BY <1>1, <1>2, <1>3, <1>4, <1>5 DEF RequestStep

\* Lost Redis data has to be copied again, and a failure that keeps the history
\* as it is ends no update.
LEMMA OrderStep == TypeOK /\ WriterInv /\ OrderInv /\ [Next]_vars => OrderInv'
  <1> SUFFICES ASSUME TypeOK, WriterInv, OrderInv, [Next]_vars
               PROVE  OrderInv'
    OBVIOUS
  <1>1. ASSUME NEW r \in Slots, RequestStep(r), NoteCrossing
        PROVE  OrderInv'
    <2>1. whole' => Busy'
      BY <1>1 DEF NoteCrossing
    <2>2. whole' \/ clean' => ~Crossing'
      BY <1>1 DEF NoteCrossing
    <2>3. whole' \/ clean' => FileInv' /\ CopyInv'
      <3>1. CASE whole \/ clean
        BY <1>1, <2>2, <3>1, OrderRequestStep DEF OrderInv
      <3>2. CASE ~whole /\ ~clean
        BY <1>1, <2>2, <3>2, OnlyPostBegins, UpdateBegins DEF NoteCrossing
      <3> QED
        BY <3>1, <3>2
    <2>4. clean' => IntactInv'
      <3> SUFFICES ASSUME clean'
                   PROVE  IntactInv'
        OBVIOUS
      <3>1. CASE ~Busy'
        <4>1. CopyInv' /\ ~Busy' => IntactInv'
          BY DEF CopyInv, IntactInv, Busy, Posting
        <4> QED
          BY <2>3, <3>1, <4>1
      <3>2. CASE Busy'
        <4>1. clean
          BY <1>1, <3>2 DEF NoteCrossing
        <4> QED
          BY <1>1, <2>2, <4>1, IntactStep DEF OrderInv
      <3> QED
        BY <3>1, <3>2
    <2> QED
      BY <2>1, <2>2, <2>3, <2>4 DEF OrderInv
  <1>2. CASE LoseRedis /\ NoteFailure(FALSE)
    <2>1. /\ redis'[CtlKey] = Missing /\ file' = file /\ req' = req
          /\ writer' = writer /\ current' = current
      BY <1>2 DEF LoseRedis, Keys
    <2>2. (whole' <=> whole) /\ (clean' <=> clean)
      BY <1>2 DEF NoteFailure
    <2> QED
      BY <2>1, <2>2 DEF OrderInv, Crossing, FileInv, CopyInv, IntactInv, Busy, Posting, Filling, At
  <1>3. ASSUME NEW r \in Slots, Abort(r), NoteFailure(At(r, "postSet"))
        PROVE  OrderInv'
    <2>1. whole' \/ clean' => ~At(r, "postSet")
      BY <1>3 DEF NoteFailure
    <2>2. /\ redis' = redis /\ file' = file /\ writer' = writer /\ current' = current
          /\ req'[r].stage = "idle" /\ \A q \in Slots : q # r => req'[q] = req[q]
      BY <1>3, FinishMoves DEF Abort
    <2>3. (whole' => whole) /\ (clean' => clean)
      BY <1>3 DEF NoteFailure
    <2> SUFFICES ASSUME ~At(r, "postSet")
                 PROVE  OrderInv'
      BY <2>1 DEF OrderInv
    <2>4. \A q \in Slots : /\ Posting(q)' <=> Posting(q)
                           /\ At(q, "postSet")' <=> At(q, "postSet")
                           /\ Filling(q)' => Filling(q) /\ req'[q] = req[q]
                           /\ At(q, "postSet") => req'[q] = req[q]
      BY <2>2 DEF Posting, Filling, At
    <2>5. Busy' <=> Busy
      BY <2>4 DEF Busy
    <2>6. ~Crossing => ~Crossing'
      BY <2>4 DEF Crossing
    <2>7. FileInv => FileInv'
      BY <2>2, <2>4, <2>5 DEF FileInv
    <2>8. CopyInv => CopyInv'
      BY <2>2, <2>4 DEF CopyInv
    <2>9. IntactInv => IntactInv'
      BY <2>2 DEF IntactInv
    <2> QED
      BY <2>3, <2>5, <2>6, <2>7, <2>8, <2>9 DEF OrderInv
  <1>4. CASE Crash /\ NoteFailure(Busy)
    <2>1. /\ redis' = redis /\ file' = file /\ current' = current
          /\ \A q \in Slots : req'[q].stage = "idle" /\ writer'[q].phase = "none"
      BY <1>4 DEF Crash, Free, NoWrite
    <2>2. ~whole' /\ (clean' => clean /\ ~Busy)
      BY <1>4 DEF NoteFailure, OrderInv
    <2> QED
      BY <2>1, <2>2 DEF OrderInv, Crossing, FileInv, CopyInv, IntactInv, Busy, Posting, Filling, At
  <1>5. CASE UNCHANGED vars
    BY <1>5 DEF vars, OrderInv, Crossing, FileInv, CopyInv, IntactInv, Busy, Posting, Filling, At
  <1> QED
    BY <1>1, <1>2, <1>3, <1>4, <1>5 DEF Next

-----------------------------------------------------------------------------
(***************************************************************************)
(* Requests that arrive after the last update.                             *)
(***************************************************************************)

\* A request that was idle and has its configuration after one step has it from the copy.
LEMMA ArrivesByCopy ==
    ASSUME TypeOK, WriterInv, NEW q \in Slots, Next, At(q, "idle"), At(q, "handler")'
    PROVE  MwGet(q)
  <1>1. ASSUME NEW r \in Slots, RequestStep(r)
        PROVE  MwGet(q)
    <2>1. r = q
      BY <1>1, OthersStay DEF At
    <2>2. ~OpenFile(q) /\ ~WriteFile(q)
      BY DEF OpenFile, WriteFile, At
    <2>3. /\ ~MwRead(q) /\ ~MwSet(q) /\ ~Serve(q) /\ ~CtlGet(q) /\ ~CtlRead(q) /\ ~CtlSet(q)
          /\ ~PostSet(q) /\ \A v \in Values : ~Post(q, v)
      BY DEF MwRead, MwSet, Serve, CtlGet, CtlRead, CtlSet, PostSet, Post, At
    <2> QED
      BY <1>1, <2>1, <2>2, <2>3 DEF RequestStep
  <1>2. CASE LoseRedis
    BY <1>2 DEF LoseRedis, At
  <1>3. ASSUME NEW r \in Slots, Abort(r)
        PROVE  FALSE
    BY <1>3, FinishMoves DEF Abort, At
  <1>4. CASE Crash
    BY <1>4 DEF Crash, Free, At
  <1> QED
    BY <1>1, <1>2, <1>3, <1>4 DEF Next

\* A fresh request has its configuration from the copy or from the file, and no
\* update begins or ends before it goes on: under one key the copy is the last
\* answered update.
LEMMA FreshStep ==
    ASSUME MwKey = CtlKey
    PROVE  IInv /\ FreshInv /\ [Next]_vars => FreshInv'
  <1> SUFFICES ASSUME IInv, FreshInv, Next
               PROVE  FreshInv'
    BY DEF vars, FreshInv, Busy, Posting, At
  <1> SUFFICES ASSUME NEW q \in Slots, fresh'[q]
               PROVE  ~Busy' /\ (clean' /\ At(q, "handler")' => req'[q].data.config = current')
    BY DEF FreshInv, At
  <1>1. ~Busy' /\ (At(q, "idle") \/ fresh[q])
    BY DEF Next, NoteFresh
  <1> SUFFICES ASSUME clean', At(q, "handler")'
               PROVE  req'[q].data.config = current'
    BY <1>1
  <1>2. At(q, "idle") => MwGet(q)
    BY ArrivesByCopy DEF IInv
  <1>3. ~Busy
    <2>1. CASE fresh[q]
      BY <2>1 DEF FreshInv
    <2>2. CASE MwGet(q)
      <3>1. \A r \in Slots : Posting(r) => Posting(r)'
        BY <2>2 DEF MwGet, Await, At, Posting, IInv, TypeOK
      <3> QED
        BY <1>1, <3>1 DEF Busy
    <2> QED
      BY <1>1, <1>2, <2>1, <2>2
  <1>4. clean /\ CopyInv
    <2>1. clean \/ whole
      BY DEF Next, NoteCrossing, NoteFailure
    <2> QED
      BY <1>3, <2>1 DEF IInv, OrderInv
  <1>5. fresh[q] /\ At(q, "handler") => req[q].data.config = current
    BY <1>4 DEF FreshInv
  <1>6. CASE MwGet(q)
    <2>1. \A r \in Slots : ~At(r, "postSet")
      BY <1>3 DEF Busy, Posting
    <2>2. current' = current
      BY <1>6 DEF MwGet
    <2>3. CASE redis[MwKey] = Missing /\ Await(q, "mwRead", Nothing)
      <3>1. req'[q].stage = "mwRead"
        BY <2>3, AwaitMoves DEF IInv
      <3> QED
        BY <3>1 DEF At
    <2>4. CASE redis[MwKey] # Missing /\ Await(q, "handler", redis[MwKey])
      <3>1. req'[q].data = redis[CtlKey]
        BY <2>4, AwaitMoves DEF IInv
      <3> QED
        BY <1>4, <2>1, <2>2, <2>4, <3>1 DEF CopyInv
    <2> QED
      BY <1>6, <2>3, <2>4 DEF MwGet
  <1>7. ASSUME fresh[q], NEW r \in Slots, RequestStep(r)
        PROVE  req'[q].data.config = current'
    <2>0. r # q => req'[q] = req[q]
      BY <1>7, OthersStay DEF IInv
    <2>1. ~Posting(r)
      BY <1>3 DEF Busy
    <2>2. current' = current
      BY <1>7, <2>1 DEF RequestStep, MwGet, MwRead, MwSet, Serve, CtlGet, CtlRead, CtlSet,
                        Post, PostSet, OpenFile, WriteFile, Posting
    <2>3. CASE r # q
      BY <1>5, <1>7, <2>0, <2>2, <2>3 DEF At
    <2>4. CASE r = q /\ MwSet(q)
      <3>1. CASE Await(q, "handler", req[q].data)
        <4>1. req'[q].data = req[q].data /\ Filling(q)
          BY <2>4, <3>1, AwaitMoves DEF IInv, MwSet, Filling, At
        <4> QED
          BY <1>4, <2>2, <4>1 DEF CopyInv
      <3>2. CASE Finish(q)
        BY <3>2, FinishMoves DEF IInv, At
      <3> QED
        BY <2>4, <3>1, <3>2 DEF MwSet
    <2>5. CASE r = q /\ (MwRead(q) \/ Serve(q) \/ CtlGet(q) \/ CtlRead(q) \/ CtlSet(q))
      <3>1. req'[q].stage \in {"idle", "mwSet", "ctlRead", "ctlSet"}
        BY <2>5, AwaitMoves, FinishMoves DEF IInv, MwRead, Serve, CtlGet, CtlRead, CtlSet
      <3> QED
        BY <3>1 DEF At
    <2>6. CASE r = q /\ \E v \in Values : Post(q, v)
      <3>1. req'[q].stage = "postSet"
        BY <2>6, AwaitMoves DEF IInv, Post
      <3> QED
        BY <3>1 DEF At
    <2>7. CASE r = q /\ (PostSet(q) \/ OpenFile(q) \/ WriteFile(q))
      BY <2>1, <2>7 DEF PostSet, OpenFile, WriteFile, Posting
    <2> QED
      BY <1>6, <1>7, <2>3, <2>4, <2>5, <2>6, <2>7 DEF RequestStep
  <1>8. CASE fresh[q] /\ LoseRedis
    BY <1>5, <1>8 DEF LoseRedis, At
  <1>9. ASSUME fresh[q], NEW r \in Slots, Abort(r)
        PROVE  req'[q].data.config = current'
    <2>1. /\ current' = current /\ req'[r].stage = "idle"
          /\ r # q => req'[q] = req[q]
      BY <1>9, FinishMoves DEF Abort, IInv
    <2> QED
      BY <1>5, <1>9, <2>1 DEF At
  <1>10. CASE Crash
    BY <1>10 DEF Crash, Free, At
  <1> QED
    BY <1>1, <1>2, <1>6, <1>7, <1>8, <1>9, <1>10 DEF Next

-----------------------------------------------------------------------------
(***************************************************************************)
(* The invariant and what it implies.                                      *)
(***************************************************************************)

\* The deployed file is whole, nothing is copied yet and nobody is there.
LEMMA Initially == Init => IInv /\ FreshInv
  <1> SUFFICES ASSUME Init
               PROVE  IInv /\ FreshInv
    OBVIOUS
  <1>1. /\ file \in Values /\ file.config = current /\ current \in Configs
        /\ redis = [k \in Keys |-> Missing] /\ CtlKey \in Keys
        /\ \A r \in Slots : req[r] = Free /\ writer[r] = NoWrite /\ ~fresh[r]
    BY DEF Init, Values, Keys
  <1>2. Free.stage = "idle" /\ NoWrite.phase = "none"
    BY DEF Free, NoWrite
  <1>3. TypeOK
    <2>1. /\ req \in [Slots -> [stage : Stages, data : Values \cup {Nothing}]]
          /\ writer \in [Slots -> [phase : {"none", "open", "write"}, data : Values \cup {Nothing}]]
      BY DEF Init, Free, NoWrite, Stages
    <2> QED
      BY <1>1, <1>2, <2>1 DEF Init, TypeOK
  <1>4. WriterInv
    BY <1>1, <1>2 DEF WriterInv
  <1>5. OrderInv
    <2>1. \A r \in Slots : ~Posting(r) /\ ~Filling(r) /\ ~At(r, "postSet")
      BY <1>1, <1>2 DEF Posting, Filling, At
    <2>2. ~whole /\ redis[CtlKey] = Missing
      BY <1>1 DEF Init
    <2> QED
      BY <1>1, <1>2, <2>1, <2>2 DEF OrderInv, Crossing, FileInv, CopyInv, IntactInv, Busy
  <1>6. FreshInv
    BY <1>1 DEF FreshInv
  <1> QED
    BY <1>3, <1>4, <1>5, <1>6 DEF IInv

\* IInv is inductive.
LEMMA Inductive == IInv /\ [Next]_vars => IInv'
  BY TypeStep, WriterStep, OrderStep DEF IInv

\* IInv holds in every reachable state.
LEMMA Invariance == Spec => []IInv
  BY Initially, Inductive, PTL DEF Spec

\* No half-written file reaches Redis or a request: JSON.parse stands between the
\* file and every configuration that travels.
THEOREM ConfigTypeOK == Spec => []TypeOK
  <1>1. IInv => TypeOK
    BY DEF IInv
  <1> QED
    BY <1>1, Invariance, PTL

\* updateConfigDetails keeps the file and the controller's copy together, although
\* it awaits only one of its two writes, unless updates, fills or failures cross,
\* and one update that crosses nothing brings them together again.
THEOREM StoresAgree == Spec => []StoresAgreeWhenClean
  <1>1. IInv => StoresAgreeWhenClean
    BY DEF IInv, OrderInv, FileInv, IntactInv, StoresAgreeWhenClean
  <1> QED
    BY <1>1, Invariance, PTL

\* A reader of cls.json finds it broken only while writeFile is at work, again
\* unless updates, fills or failures cross.
THEOREM FileBroken == Spec => []FileBrokenOnlyInWrite
  <1>1. IInv => FileBrokenOnlyInWrite
    <2> SUFFICES ASSUME IInv, clean, file \in {Empty, Torn}
                 PROVE  \E r \in Slots : writer[r].phase = "write"
      BY DEF FileBrokenOnlyInWrite
    <2>1. file \notin Values /\ FileInv /\ IntactInv
      BY ConfigStoreAssumption DEF IInv, OrderInv
    <2>2. PICK r \in Slots : Posting(r)
      BY <2>1 DEF FileInv, Busy
    <2>3. writer[r].phase \in {"none", "open", "write"}
      BY DEF IInv, TypeOK
    <2>4. writer[r].phase # "open"
      BY <2>1 DEF IntactInv
    <2>5. writer[r].phase # "none"
      <3>1. At(r, "postSet") => req[r].data \in Values
        BY DEF IInv, TypeOK, At
      <3> QED
        BY <2>1, <2>2, <3>1 DEF FileInv, Posting
    <2> QED
      BY <2>3, <2>4, <2>5
  <1> QED
    BY <1>1, Invariance, PTL

\* Where the middleware and the controller use the same key, a request that arrives
\* between updates goes on with the last one, from Redis or from the file.
THEOREM FreshSeen ==
    ASSUME MwKey = CtlKey
    PROVE  Spec => []FreshRequestSeesUpdate
  <1>1. Init => IInv /\ FreshInv
    BY Initially
  <1>2. IInv /\ FreshInv /\ [Next]_vars => IInv' /\ FreshInv'
    BY Inductive, FreshStep
  <1>3. FreshInv => FreshRequestSeesUpdate
    BY DEF FreshInv, FreshRequestSeesUpdate
  <1> QED
    BY <1>1, <1>2, <1>3, PTL DEF Spec

-----------------------------------------------------------------------------
(***************************************************************************)
(* The register.                                                           *)
(***************************************************************************)

\* A request step changes what its own request has, by a read of the copy or of the
\* file, or by giving it up.
LEMMA HeldStep ==
    ASSUME TypeOK, WriterInv, NEW r \in Slots, RequestStep(r)
    PROVE  /\ \A q \in Slots : q # r => Held(q)' = Held(q)
           /\ \/ Held(r)' \in {Held(r), {}}
              \/ Held(r) = {} /\ (MwGet(r) \/ MwRead(r) \/ CtlRead(r))
  <1>1. \A q \in Slots : q # r => Held(q)' = Held(q)
    BY OthersStay DEF Held
  <1>2. CASE MwGet(r) \/ MwRead(r) \/ CtlRead(r)
    <2>1. req[r].stage \in {"idle", "mwRead", "ctlRead"}
      BY <1>2 DEF MwGet, MwRead, CtlRead, At
    <2> QED
      BY <1>1, <1>2, <2>1 DEF Held
  <1>3. CASE MwSet(r)
    <2>1. req[r].stage = "mwSet"
      BY <1>3 DEF MwSet, At
    <2>2. \/ req'[r].stage = "idle"
          \/ req'[r].stage = "handler" /\ req'[r].data = req[r].data
      BY <1>3, AwaitMoves, FinishMoves DEF MwSet
    <2> QED
      BY <1>1, <2>1, <2>2 DEF Held
  <1>4. CASE Serve(r) \/ CtlGet(r) \/ CtlSet(r) \/ PostSet(r) \/ \E v \in Values : Post(r, v)
    <2>1. req'[r].stage \in {"idle", "ctlRead", "postSet"}
      BY <1>4, AwaitMoves, FinishMoves DEF Serve, CtlGet, CtlSet, PostSet, Post
    <2> QED
      BY <1>1, <2>1 DEF Held
  <1>5. CASE OpenFile(r) \/ WriteFile(r)
    BY <1>1, <1>5 DEF OpenFile, WriteFile, Held
  <1> QED
    BY <1>2, <1>3, <1>4, <1>5 DEF RequestStep

\* In a clean history both reads give the last answered update: the copy is intact
\* until the update on its way replaces it, and one that has begun its file write
\* would cross the fill that the read of the file begins.
LEMMA ReadsCurrent ==
    ASSUME MwKey = CtlKey, IInv, clean, NEW r \in Slots,
           MwGet(r) \/ MwRead(r) \/ CtlRead(r), ~Crossing'
    PROVE  Held(r)' \in {{}, {current}}
  <1>0. FileInv /\ IntactInv /\ TypeOK /\ WriterInv
    BY DEF IInv, OrderInv
  <1>1. CASE MwGet(r)
    <2>1. CASE Await(r, "mwRead", Nothing)
      BY <1>0, <2>1, AwaitMoves DEF Held
    <2>2. CASE redis[MwKey] # Missing /\ Await(r, "handler", redis[MwKey])
      <3>1. req'[r].data.config = current
        BY <1>0, <2>2, AwaitMoves DEF IntactInv
      <3> QED
        BY <3>1 DEF Held
    <2> QED
      BY <1>1, <2>1, <2>2 DEF MwGet
  <1>2. CASE (MwRead(r) \/ CtlRead(r)) /\ file \in Values
    <2>1. /\ req[r].stage \in {"mwRead", "ctlRead"} /\ writer' = writer
          /\ req'[r].stage \in {"mwSet", "ctlSet"} /\ req'[r].data = file
          /\ \A q \in Slots : q # r => req'[q] = req[q]
      BY <1>0, <1>2, AwaitMoves DEF MwRead, CtlRead, At
    <2>2. ~Posting(r)
      BY <1>0, <2>1 DEF WriterInv, Posting, At
    <2>3. \A q \in Slots : q # r => ~Posting(q)'
      BY <2>1 DEF Crossing, Filling
    <2>4. ~Busy
      BY <2>1, <2>2, <2>3 DEF Busy, Posting, At
    <2> QED
      BY <1>0, <2>1, <2>4 DEF FileInv, Held
  <1>3. CASE (MwRead(r) \/ CtlRead(r)) /\ file \notin Values
    BY <1>0, <1>3, FinishMoves DEF MwRead, CtlRead, Held
  <1> QED
    BY <1>1, <1>2, <1>3

\* A step that is no request's takes nothing and updates nothing.
LEMMA FailuresTakeNothing ==
    ASSUME TypeOK, \/ LoseRedis \/ Crash \/ UNCHANGED vars
                   \/ \E r \in Slots : Abort(r)
    PROVE  current' = current /\ \A q \in Slots : Held(q)' \in {Held(q), {}}
  <1>1. CASE LoseRedis \/ UNCHANGED vars
    BY <1>1 DEF LoseRedis, vars, Held
  <1>2. CASE Crash
    BY <1>2 DEF Crash, Free, Held
  <1>3. ASSUME NEW r \in Slots, Abort(r)
        PROVE  current' = current /\ \A q \in Slots : Held(q)' \in {Held(q), {}}
    <2>1. /\ current' = current /\ req'[r].stage = "idle"
          /\ \A q \in Slots : q # r => req'[q] = req[q]
      BY <1>3, FinishMoves DEF Abort
    <2> QED
      BY <2>1 DEF Held
  <1> QED
    BY <1>1, <1>2, <1>3

\* Every step of the store is one of the register.
LEMMA RegisterStep ==
    ASSUME MwKey = CtlKey
    PROVE  IInv /\ IInv' /\ [Next]_vars => [CR!Next]_(CR!vars)
  <1> SUFFICES ASSUME IInv, IInv', [Next]_vars
               PROVE  [CR!Next]_(CR!vars)
    OBVIOUS
  <1> DEFINE got == [r \in Slots |-> Held(r)]
  <1>0. TypeOK /\ TypeOK' /\ WriterInv
    BY DEF IInv
  <1>1. got' \in [Slots -> SUBSET Configs]
    <2>1. [r \in Slots |-> Held(r)]' \in [Slots -> SUBSET Configs]
      <3>1. \A r \in Slots : req'[r].stage \in {"mwSet", "handler", "ctlSet"} =>
                               req'[r].data.config \in Configs
        BY <1>0 DEF TypeOK, Values
      <3> QED
        BY <3>1 DEF Held
    <2> QED
      BY <2>1
  <1>2. \A r \in Slots : got[r] = Held(r) /\ got'[r] = Held(r)'
    OBVIOUS
  <1>3. ASSUME current' = current, \A r \in Slots : Held(r)' \in {Held(r), {}}
        PROVE  CR!Drop
    BY <1>1, <1>2, <1>3 DEF CR!Drop, CR!KeepsOrDrops, CR!NotTaken
  <1>4. ASSUME \A r \in Slots : Held(r) # {} => Held(r)' \in {Held(r), {}}
        PROVE  CR!Suspended
    BY <1>0, <1>1, <1>2, <1>4 DEF CR!Suspended, CR!KeepsOrDrops, CR!NotTaken, TypeOK
  <1>5. CASE \/ LoseRedis \/ Crash \/ UNCHANGED vars
             \/ \E r \in Slots : Abort(r)
    BY <1>0, <1>3, <1>4, <1>5, FailuresTakeNothing DEF CR!Next, CR!Promised
  <1>6. ASSUME NEW r \in Slots, RequestStep(r), NoteCrossing
        PROVE  CR!Next
    <2>1. /\ \A q \in Slots : q # r => Held(q)' = Held(q)
          /\ \/ Held(r)' \in {Held(r), {}}
             \/ Held(r) = {} /\ (MwGet(r) \/ MwRead(r) \/ CtlRead(r))
      BY <1>0, <1>6, HeldStep
    <2>2. CASE ~(clean /\ clean')
      BY <1>4, <2>1, <2>2 DEF CR!Next
    <2>3. CASE clean /\ clean' /\ PostSet(r)
      <3>1. req'[r].stage = "idle" /\ req[r].stage = "postSet"
        BY <1>0, <2>3, FinishMoves DEF PostSet, At
      <3>2. got' = got
        BY <2>1, <3>1 DEF Held
      <3> QED
        BY <1>0, <2>3, <3>2 DEF CR!Next, CR!Promised, CR!Write, TypeOK
    <2>4. CASE clean /\ clean' /\ ~PostSet(r)
      <3>1. current' = current
        BY <1>6, <2>4 DEF RequestStep, MwGet, MwRead, MwSet, Serve, CtlGet, CtlRead, CtlSet,
                          Post, OpenFile, WriteFile
      <3>2. CASE Held(r)' \in {Held(r), {}}
        BY <1>3, <2>1, <2>4, <3>1, <3>2 DEF CR!Next, CR!Promised
      <3>3. CASE Held(r) = {} /\ (MwGet(r) \/ MwRead(r) \/ CtlRead(r))
        <4>1. Held(r)' \in {{}, {current}}
          BY <1>6, <2>4, <3>3, ReadsCurrent DEF NoteCrossing
        <4>2. CASE Held(r)' = {current}
          <5>1. got' = [got EXCEPT ![r] = {current}]
            BY <2>1, <4>2
          <5>2. CR!Read(r)
            BY <1>2, <3>1, <3>3, <5>1 DEF CR!Read, CR!NotTaken
          <5> QED
            BY <2>4, <5>2 DEF CR!Next, CR!Promised
        <4> QED
          BY <3>2, <4>1, <4>2
      <3> QED
        BY <2>1, <3>2, <3>3
    <2> QED
      BY <2>2, <2>3, <2>4
  <1> QED
    BY <1>5, <1>6 DEF Next

\* The file, the copy and the requests look like one register while the history is
\* clean, and again after one whole update: every request takes the last answered
\* update in one step, from the copy or from the file, and an update takes effect
\* in one step although its two writes land in either order.
THEOREM RegisterImplemented ==
    ASSUME MwKey = CtlKey
    PROVE  Spec => ImplementsRegister
  <1>1. Init => CR!Init
    <2> SUFFICES ASSUME Init
                 PROVE  CR!Init
      OBVIOUS
    <2>1. current \in Configs /\ clean = TRUE
      BY DEF Init, Values
    <2>2. \A r \in Slots : Held(r) = {}
      BY DEF Init, Free, Held
    <2> QED
      BY <2>1, <2>2 DEF CR!Init, CR!NotTaken
  <1>2. IInv /\ [Next]_vars => [CR!Next]_(CR!vars)
    BY Inductive, RegisterStep
  <1> QED
    BY <1>1, <1>2, Invariance, PTL DEF Spec, ImplementsRegister, CR!Spec
=============================================================================
