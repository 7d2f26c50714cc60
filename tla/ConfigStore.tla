---------------------------- MODULE ConfigStore -----------------------------
(***************************************************************************)
(* The auth configuration: a JSON file, its copy in Redis, and what each    *)
(* request gets of it.  The middleware of clsFactory runs before every      *)
(* handler; AuthConfigController reads and updates the configuration;        *)
(* LocalFileService writes the file without anybody waiting for it.         *)
(*                                                                         *)
(* A request occupies a slot between two awaits.  Redis and the file are     *)
(* shared by all of them, and one update's file write may still be running   *)
(* when the next begins.  A request that is refused without having changed   *)
(* anything or waited for anything is no step.                              *)
(***************************************************************************)
EXTENDS FiniteSets

CONSTANTS
    Slots,    \* requests in flight at a time
    Configs,  \* configurations an administrator may write
    Valid,    \* those that clsZod accepts: webAuthnConfig.origin is a URL
    MwKey,    \* the Redis key of the middleware
    CtlKey,   \* the Redis key of the controller
    Missing,  \* nothing under the key, or the empty string
    Empty,    \* the file is truncated and not yet written
    Torn,     \* the file is a mixture of two writes
    Nothing   \* no configuration read or brought

\* A stored configuration: full unless it omits fields that have a default.
Values == [config : Configs, full : BOOLEAN]

ASSUME ConfigStoreAssumption ==
    /\ Valid \subseteq Configs
    /\ {Missing, Empty, Torn, Nothing} \cap Values = {}

Keys == {MwKey, CtlKey}
Stages == {"idle", "mwRead", "mwSet", "handler", "ctlRead", "ctlSet", "postSet"}

VARIABLES
    redis,    \* [Keys -> a stored configuration, or Missing]
    file,     \* what cls.json holds: a configuration, Empty or Torn
    req,      \* [Slots -> stage, the configuration the request read or brings]
    writer,   \* [Slots -> the file write the slot's update has left running]
    current,  \* history: the configuration of the last answered update
    whole,    \* history: the update on its way has crossed nothing since it began
    clean,    \* history: nothing has crossed since the last whole update ended
    fresh     \* history: [Slots -> no update was on its way since the request arrived]

vars == <<redis, file, req, writer, current, whole, clean, fresh>>

-----------------------------------------------------------------------------
Parses(v) == v.config \in Valid

\* clsZod.parse fills in the defaults.
Parsed(v) == [v EXCEPT !.full = TRUE]

Free == [stage |-> "idle", data |-> Nothing]
NoWrite == [phase |-> "none", data |-> Nothing]

At(r, stage) == req[r].stage = stage

\* Between its file write's start and its last effect an update is on its way; a
\* fill is, once it has read the file it will copy to Redis.
Posting(r) == At(r, "postSet") \/ writer[r].phase # "none"
Filling(r) == req[r].stage \in {"mwSet", "ctlSet"}

Busy == \E r \in Slots : Posting(r)

Crossing ==
    \E r, s \in Slots : r # s /\ Posting(r) /\ (Posting(s) \/ Filling(s))

\* The deployment comes with a file the schema accepts.
Init ==
    /\ redis = [k \in Keys |-> Missing]
    /\ file \in {v \in Values : Parses(v)}
    /\ req = [r \in Slots |-> Free]
    /\ writer = [r \in Slots |-> NoWrite]
    /\ current = file.config
    /\ whole = FALSE /\ clean = TRUE
    /\ fresh = [r \in Slots |-> FALSE]

Await(r, stage, data) ==
    req' = [req EXCEPT ![r] = [stage |-> stage, data |-> data]]
Finish(r) == req' = [req EXCEPT ![r] = Free]

Put(k, v) == redis' = [redis EXCEPT ![k] = v]

(***************************************************************************)
(* The middleware.                                                         *)
(***************************************************************************)

\* A request arrives and the copy in Redis is read.  What it asks for plays no part
\* before its handler runs.  A copy that does not parse
\* leaves the request without configuration, and resolving the strategies fails.
MwGet(r) ==
    /\ At(r, "idle") /\ writer[r].phase = "none"
    /\ \/ redis[MwKey] = Missing /\ Await(r, "mwRead", Nothing)
       \/ /\ redis[MwKey] # Missing /\ Parses(redis[MwKey])
          /\ Await(r, "handler", redis[MwKey])
    /\ UNCHANGED <<redis, file, writer, current>>

\* A slip: what readFile returned is passed on without JSON.parse.
MwReadUnparsed(r) ==
    /\ At(r, "mwRead")
    /\ Await(r, "mwSet", file)
    /\ UNCHANGED <<redis, file, writer, current>>

\* No copy: the file is read.  JSON.parse throws on half a file.
MwRead(r) ==
    /\ At(r, "mwRead")
    /\ IF file \in Values THEN Await(r, "mwSet", file) ELSE Finish(r)
    /\ UNCHANGED <<redis, file, writer, current>>

\* The copy is made, of the parsed data; the request gets the data as read.  A
\* file that does not parse stores the empty string, and the request fails.
MwSet(r) ==
    /\ At(r, "mwSet")
    /\ \/ /\ Parses(req[r].data)
          /\ Put(MwKey, Parsed(req[r].data))
          /\ Await(r, "handler", req[r].data)
       \/ ~Parses(req[r].data) /\ Put(MwKey, Missing) /\ Finish(r)
    /\ UNCHANGED <<file, writer, current>>

\* Every other endpoint: the request goes on with the configuration it got.
Serve(r) ==
    /\ At(r, "handler")
    /\ Finish(r)
    /\ UNCHANGED <<redis, file, writer, current>>

(***************************************************************************)
(* Reading the configuration.                                              *)
(***************************************************************************)

\* getAuthConfigDetails answers with the copy under its own key.
CtlGet(r) ==
    /\ At(r, "handler")
    /\ IF redis[CtlKey] = Missing THEN Await(r, "ctlRead", Nothing) ELSE Finish(r)
    /\ UNCHANGED <<redis, file, writer, current>>

CtlRead(r) ==
    /\ At(r, "ctlRead")
    /\ IF file \in Values THEN Await(r, "ctlSet", file) ELSE Finish(r)
    /\ UNCHANGED <<redis, file, writer, current>>

\* Unlike the middleware it copies the data as read.
CtlSet(r) ==
    /\ At(r, "ctlSet")
    /\ Put(CtlKey, req[r].data)
    /\ Finish(r)
    /\ UNCHANGED <<file, writer, current>>

(***************************************************************************)
(* Updating the configuration.                                             *)
(***************************************************************************)

\* A slip: the file is not written.
PostRedisOnly(r, v) ==
    /\ At(r, "handler")
    /\ Await(r, "postSet", v)
    /\ UNCHANGED <<redis, file, writer, current>>

\* updateConfigDetails: the dto has every section of the configuration, so v keeps
\* nothing of the request's own; the scope of a provider may be missing from it.
\* dataToFile starts the write and does not wait for it.
Post(r, v) ==
    /\ At(r, "handler")
    /\ writer' = [writer EXCEPT ![r] = [phase |-> "open", data |-> v]]
    /\ Await(r, "postSet", v)
    /\ UNCHANGED <<redis, file, current>>

\* A slip: the update is answered without replacing the copy.
PostSetSkipped(r) ==
    /\ At(r, "postSet")
    /\ current' = req[r].data.config
    /\ Finish(r)
    /\ UNCHANGED <<redis, file, writer>>

\* A slip: the answer takes the file write with it.
PostSetCancelling(r) ==
    /\ At(r, "postSet")
    /\ Put(CtlKey, req[r].data)
    /\ current' = req[r].data.config
    /\ writer' = [writer EXCEPT ![r] = NoWrite]
    /\ Finish(r)
    /\ UNCHANGED <<file>>

\* The copy is replaced and the update answered.
PostSet(r) ==
    /\ At(r, "postSet")
    /\ Put(CtlKey, req[r].data)
    /\ current' = req[r].data.config
    /\ Finish(r)
    /\ UNCHANGED <<file, writer>>

\* writeFile opens the file, which truncates it ...
OpenFile(r) ==
    /\ writer[r].phase = "open"
    /\ file' = Empty
    /\ writer' = [writer EXCEPT ![r].phase = "write"]
    /\ UNCHANGED <<redis, req, current>>

\* ... and writes from its start.  What another write left behind shows where it
\* is the longer of the two.
WriteFile(r) ==
    /\ writer[r].phase = "write"
    /\ file' \in IF file = Empty THEN {writer[r].data} ELSE {writer[r].data, Torn}
    /\ writer' = [writer EXCEPT ![r] = NoWrite]
    /\ UNCHANGED <<redis, req, current>>

(***************************************************************************)
(* Failures.                                                               *)
(***************************************************************************)

\* Redis or the disk fails a request that is being awaited.
Abort(r) ==
    /\ ~At(r, "idle")
    /\ Finish(r)
    /\ UNCHANGED <<redis, file, writer, current>>

\* Redis loses its data.
LoseRedis ==
    /\ \E k \in Keys : redis[k] # Missing
    /\ redis' = [k \in Keys |-> Missing]
    /\ UNCHANGED <<file, req, writer, current>>

\* The process goes down, which a failure of the write nobody awaits causes too.
Crash ==
    /\ \E r \in Slots : ~At(r, "idle") \/ writer[r].phase # "none"
    /\ req' = [r \in Slots |-> Free]
    /\ writer' = [r \in Slots |-> NoWrite]
    /\ UNCHANGED <<redis, file, current>>

-----------------------------------------------------------------------------
RequestStep(r) ==
    \/ MwGet(r) \/ MwRead(r) \/ MwSet(r) \/ Serve(r)
    \/ CtlGet(r) \/ CtlRead(r) \/ CtlSet(r)
    \/ \E v \in Values : Post(r, v)
    \/ PostSet(r) \/ OpenFile(r) \/ WriteFile(r)

\* An update that begins alone is whole until it crosses another one or a fill; once
\* it has ended, whatever went wrong before it is past.
NoteCrossing ==
    /\ whole' = (Busy' /\ ~Crossing' /\ (whole \/ ~Busy))
    /\ clean' = (~Crossing' /\ (clean \/ (whole /\ ~Busy')))

\* A failure that ends an update leaves what it had done.
NoteFailure(ended) ==
    /\ whole' = (whole /\ ~ended)
    /\ clean' = (clean /\ ~ended)

\* A request is fresh until it has been handled or an update is on its way.
NoteFresh ==
    fresh' = [r \in Slots |->
                /\ req'[r].stage \in {"mwRead", "mwSet", "handler"}
                /\ At(r, "idle") \/ fresh[r]
                /\ ~Busy']

Next ==
    /\ \/ (\E r \in Slots : RequestStep(r)) /\ NoteCrossing
       \/ LoseRedis /\ NoteFailure(FALSE)
       \/ \E r \in Slots : Abort(r) /\ NoteFailure(At(r, "postSet"))
       \/ Crash /\ NoteFailure(Busy)
    /\ NoteFresh

Spec == Init /\ [][Next]_vars

-----------------------------------------------------------------------------
(***************************************************************************)
(* Properties.                                                             *)
(***************************************************************************)

\* Every variable has its type, and no half-written file reaches Redis or a
\* request: a request that goes on has a whole configuration.
TypeOK ==
    /\ redis \in [Keys -> Values \cup {Missing}]
    /\ file \in Values \cup {Empty, Torn}
    /\ req \in [Slots -> [stage : Stages, data : Values \cup {Nothing}]]
    /\ writer \in [Slots -> [phase : {"none", "open", "write"}, data : Values \cup {Nothing}]]
    /\ \A r \in Slots :
         /\ req[r].stage \in {"mwSet", "handler", "ctlSet", "postSet"} => req[r].data \in Values
         /\ writer[r].phase # "none" => writer[r].data \in Values
    /\ current \in Configs
    /\ whole \in BOOLEAN /\ clean \in BOOLEAN
    /\ fresh \in [Slots -> BOOLEAN]

\* While no update has crossed another, a fill or a failure, and none is on its way,
\* the file is whole and holds the last answered update, and the controller's
\* copy is that update or has to be made again, lost Redis data included.  After a
\* crossing or a failure one update that crosses nothing brings this back.
StoresAgreeWhenClean ==
    clean /\ ~Busy =>
        /\ file \in Values /\ file.config = current
        /\ redis[CtlKey] # Missing => redis[CtlKey].config = current

\* A request that arrives after an update was answered and done goes on with that
\* update, unless another one begins meanwhile: configuration through the API.
FreshRequestSeesUpdate ==
    clean => \A r \in Slots :
        At(r, "handler") /\ fresh[r] => req[r].data.config = current

\* The file is found truncated or torn only while a write is running, or after a
\* crossing or a failure: a reader that meets it otherwise would fail for good.
FileBrokenOnlyInWrite ==
    clean /\ file \in {Empty, Torn} => \E r \in Slots : writer[r].phase = "write"

\* What clsZod says of a configuration, z.string().url(): one that the service has
\* stored for its requests parses.
StoredConfigParses ==
    \A k \in Keys : redis[k] # Missing => Parses(redis[k])

\* What clsZod says of a missing mfaType, .default('otp'): a request goes on with
\* every field that has a default filled in.
RequestsSeeDefaults ==
    \A r \in Slots : At(r, "handler") => req[r].data.full

\* What a request has taken of the configuration: it holds it from the read that
\* gave it to the handler it is for.
Held(r) == IF req[r].stage \in {"mwSet", "handler", "ctlSet"} THEN {req[r].data.config} ELSE {}

\* The register that the file, the copy and the requests make up.
CR == INSTANCE ConfigRegister WITH
        Readers <- Slots, Vals <- Configs,
        value <- current, got <- [r \in Slots |-> Held(r)], atomic <- clean

\* While the history is clean, every request reads the last answered update in one
\* step, from the copy or from the file, whatever becomes of the copy, and an update
\* takes effect in one step, in whatever order its two writes land.  One whole update
\* restores this after any crossing or failure.
ImplementsRegister == CR!Spec
=============================================================================
