----------------------------- MODULE LoginFlow ------------------------------
(***************************************************************************)
(* Logging in through a provider while the configuration changes: the       *)
(* strategies that every request constructs from its own configuration, the  *)
(* one place under a provider's name where all of them are registered, the    *)
(* guards and the handlers of login and callback.                           *)
(*                                                                         *)
(* The middleware reads the configuration, the strategy factories run, and   *)
(* then the guard asks passport for the strategy of that name, whoever        *)
(* registered it last; there are awaits in between.  A browser's flow is a    *)
(* login, the provider's page and a callback with the provider's code, in     *)
(* two requests.  The configuration is one register here: ConfigStore has     *)
(* what becomes of it in the file and in Redis.                             *)
(***************************************************************************)

CONSTANTS
    Slots,      \* requests in flight at a time
    Flows,      \* logins of browsers
    Providers,  \* github-oauth and google-oauth
    Apps,       \* the client IDs the providers know
    Anonymous,  \* the strategy that lets everybody pass without a user
    None        \* no client ID, no strategy, no flow, no configuration

Options == [active : BOOLEAN, app : Apps \cup {None}]
Configs == [will : BOOLEAN, options : [Providers -> Options]]

ASSUME LoginFlowAssumption ==
    /\ Anonymous \notin Apps /\ None \notin Apps /\ Anonymous # None
    /\ None \notin Flows /\ None \notin Configs

Kinds == {"login", "callback", "update", "other"}
Stages == {"idle", "get", "resolve", "guard", "exchange"}
Phases == {"none", "login", "code", "callback", "in", "home", "failed", "lost"}

VARIABLES
    stored,    \* the configuration that requests read and updates replace
    registry,  \* [Providers -> the strategy registered last under that name]
    request,   \* [Slots -> its stage and kind, its flow, its configuration, its exchange]
    fresh,     \* history: [Slots -> no update was stored since the request arrived]
    flow,      \* client: [Flows -> how far the browser got, with which client ID]
    steady     \* history: [Flows -> its login has read the configuration, and since then
               \* nothing came between it and its strategies]

vars == <<stored, registry, request, fresh, flow, steady>>

-----------------------------------------------------------------------------
\* A provider's strategy is used in a request whose configuration wants it.
On(c, p) == c.will /\ c.options[p].active

\* A slip: a client ID that is missing is no obstacle.
ConstructsAlways(o) == TRUE

\* The constructor of an OAuth strategy throws without a client ID.
Constructs(o) == o.active => o.app # None

\* What the factory makes of a provider's options.
Strategy(o) == IF o.active THEN o.app ELSE Anonymous

\* The middleware lets a request with this configuration through.
Resolves(c) == \A p \in Providers : Constructs(c.options[p])

Free == [stage |-> "idle", kind |-> "other", flow |-> None, config |-> None, app |-> None]
NoFlow(p) == [phase |-> "none", provider |-> p, app |-> None]

At(r, stage) == request[r].stage = stage

\* The provider of the flow that the request of slot r belongs to.
ProviderOf(r) == flow[request[r].flow].provider

Init ==
    /\ stored \in Configs
    /\ registry = [p \in Providers |-> None]
    /\ request = [r \in Slots |-> Free]
    /\ fresh = [r \in Slots |-> FALSE]
    /\ flow \in [Flows -> {NoFlow(p) : p \in Providers}]
    /\ steady = [f \in Flows |-> FALSE]

Finish(r) == request' = [request EXCEPT ![r] = Free]

\* The request of slot r is over, and its flow, if any, got this far.
Answer(r, phase) ==
    /\ Finish(r)
    /\ flow' = IF request[r].flow = None THEN flow
               ELSE [flow EXCEPT ![request[r].flow].phase = phase]

-----------------------------------------------------------------------------
(***************************************************************************)
(* Every request: arrival, the configuration, the strategies.              *)
(***************************************************************************)

Arrive(r, kind, f) ==
    /\ At(r, "idle")
    /\ request' = [request EXCEPT ![r] = [stage |-> "get", kind |-> kind, flow |-> f,
                                          config |-> None, app |-> None]]
    /\ fresh' = [fresh EXCEPT ![r] = TRUE]
    /\ UNCHANGED <<stored, registry, steady>>

\* The browser opens the login page of its provider.
Login(r, f) ==
    /\ flow[f].phase = "none"
    /\ Arrive(r, "login", f)
    /\ flow' = [flow EXCEPT ![f].phase = "login"]

\* The provider sends the browser back with a code for the client ID it was given.
Return(r, f) ==
    /\ flow[f].phase = "code"
    /\ Arrive(r, "callback", f)
    /\ flow' = [flow EXCEPT ![f].phase = "callback"]

Call(r, kind) ==
    /\ kind \in {"update", "other"}
    /\ Arrive(r, kind, None)
    /\ UNCHANGED flow

\* A slip: the strategies of the request are not resolved before its guard.
GetConfigOnly(r) ==
    /\ At(r, "get")
    /\ request' = [request EXCEPT ![r].stage = "guard", ![r].config = stored]
    /\ UNCHANGED <<stored, registry, fresh, flow, steady>>

\* The configuration is read and becomes the request's own.  A flow is steady from
\* its login's reading on.
GetConfig(r) ==
    /\ At(r, "get")
    /\ request' = [request EXCEPT ![r].stage = "resolve", ![r].config = stored]
    /\ steady' = [f \in Flows |-> steady[f] \/ (request[r].kind = "login" /\ request[r].flow = f)]
    /\ UNCHANGED <<stored, registry, fresh, flow>>

\* Strategies that slot r registers from another configuration than the stored one
\* come between a flow and its own if its request has registered them and its guard
\* has not run.
Unsettles(r) ==
    steady' = [f \in Flows |->
                 /\ steady[f]
                 /\ \/ request[r].config = stored
                    \/ \A q \in Slots : At(q, "guard") => request[q].flow # f]

\* A slip: a strategy is constructed for the first request only.
ResolveOnce(r) ==
    LET c == request[r].config
    IN  /\ At(r, "resolve")
        /\ registry' = [p \in Providers |->
                          IF registry[p] = None /\ Constructs(c.options[p])
                          THEN Strategy(c.options[p]) ELSE registry[p]]
        /\ \/ /\ Resolves(c)
              /\ request' = [request EXCEPT ![r].stage = "guard"]
              /\ UNCHANGED flow
           \/ ~Resolves(c) /\ Answer(r, "failed")
        /\ Unsettles(r)
        /\ UNCHANGED <<stored, fresh>>

\* A slip: the factories read the configuration anew.
ResolveAnew(r) ==
    /\ At(r, "resolve")
    /\ registry' = [p \in Providers |->
                      IF Constructs(stored.options[p]) THEN Strategy(stored.options[p])
                      ELSE registry[p]]
    /\ \/ /\ Resolves(stored)
          /\ request' = [request EXCEPT ![r].stage = "guard", ![r].config = stored]
          /\ UNCHANGED flow
       \/ ~Resolves(stored) /\ Answer(r, "failed")
    /\ UNCHANGED <<stored, fresh, steady>>

\* The factories run.  Each strategy registers itself as it is constructed; one that
\* throws fails the request, whatever the request is for.
Resolve(r) ==
    LET c == request[r].config
    IN  /\ At(r, "resolve")
        /\ registry' = [p \in Providers |->
                          IF Constructs(c.options[p]) THEN Strategy(c.options[p])
                          ELSE registry[p]]
        /\ \/ /\ Resolves(c)
              /\ request' = [request EXCEPT ![r].stage = "guard"]
              /\ UNCHANGED flow
           \/ ~Resolves(c) /\ Answer(r, "failed")
        /\ Unsettles(r)
        /\ UNCHANGED <<stored, fresh>>

-----------------------------------------------------------------------------
(***************************************************************************)
(* Guards and handlers.                                                    *)
(***************************************************************************)

\* A slip: the guard leaves it to the strategy whether the provider is active.
AuthenticatesAlways(r) == TRUE

\* The guard decides on the request's own configuration.
Authenticates(r) == On(request[r].config, ProviderOf(r))

\* The guard of a login route sends the browser to the provider, unless there is
\* nobody to authenticate with: then the handler sends it home.
BeginLogin(r) ==
    LET p == ProviderOf(r)
    IN  /\ At(r, "guard") /\ request[r].kind = "login"
        /\ \/ /\ Authenticates(r) /\ registry[p] \in Apps
              /\ flow' = [flow EXCEPT ![request[r].flow].phase = "code",
                                      ![request[r].flow].app = registry[p]]
              /\ Finish(r)
           \/ ~(Authenticates(r) /\ registry[p] \in Apps) /\ Answer(r, "home")
        /\ UNCHANGED <<stored, registry, fresh, steady>>

\* The guard of a callback has the strategy exchange the code.  Without one, or with
\* the anonymous one, the handler reads the user of a request that has none.
Callback(r) ==
    LET p == ProviderOf(r)
    IN  /\ At(r, "guard") /\ request[r].kind = "callback"
        /\ \/ /\ Authenticates(r) /\ registry[p] \in Apps
              /\ request' = [request EXCEPT ![r].stage = "exchange", ![r].app = registry[p]]
              /\ UNCHANGED flow
           \/ ~(Authenticates(r) /\ registry[p] \in Apps) /\ Answer(r, "failed")
        /\ UNCHANGED <<stored, registry, fresh, steady>>

\* The provider gives a profile for a code it issued to that client ID, and the
\* callback's handler issues the token.
Exchange(r) ==
    /\ At(r, "exchange")
    /\ Answer(r, IF request[r].app = flow[request[r].flow].app THEN "in" ELSE "failed")
    /\ UNCHANGED <<stored, registry, fresh, steady>>

\* updateConfigDetails replaces the configuration by any that the dto accepts.
Update(r, c) ==
    /\ At(r, "guard") /\ request[r].kind = "update"
    /\ stored' = c
    /\ fresh' = [q \in Slots |-> FALSE]
    /\ steady' = [f \in Flows |-> FALSE]
    /\ Finish(r)
    /\ UNCHANGED <<registry, flow>>

\* Any other route.
Serve(r) ==
    /\ At(r, "guard") /\ request[r].kind = "other"
    /\ Finish(r)
    /\ UNCHANGED <<stored, registry, fresh, flow, steady>>

-----------------------------------------------------------------------------
(***************************************************************************)
(* Failures.                                                               *)
(***************************************************************************)

\* Redis, Mongo, the provider or the connection fails the request.
Abort(r) ==
    /\ ~At(r, "idle")
    /\ Answer(r, "lost")
    /\ UNCHANGED <<stored, registry, fresh, steady>>

\* The process restarts: nothing is registered until the next request.
Restart ==
    /\ registry # [p \in Providers |-> None]
    /\ registry' = [p \in Providers |-> None]
    /\ request' = [r \in Slots |-> Free]
    /\ flow' = [f \in Flows |-> IF flow[f].phase \in {"login", "callback"}
                                THEN [flow[f] EXCEPT !.phase = "lost"] ELSE flow[f]]
    /\ UNCHANGED <<stored, fresh, steady>>

-----------------------------------------------------------------------------
RequestStep(r) ==
    \/ \E f \in Flows : Login(r, f) \/ Return(r, f)
    \/ \E kind \in Kinds : Call(r, kind)
    \/ GetConfig(r) \/ Resolve(r)
    \/ BeginLogin(r) \/ Callback(r) \/ Exchange(r)
    \/ \E c \in Configs : Update(r, c)
    \/ Serve(r) \/ Abort(r)

Next == (\E r \in Slots : RequestStep(r)) \/ Restart

Spec == Init /\ [][Next]_vars

-----------------------------------------------------------------------------
(***************************************************************************)
(* Properties.                                                             *)
(***************************************************************************)

Requests == [stage : Stages, kind : Kinds, flow : Flows \cup {None},
             config : Configs \cup {None}, app : Apps \cup {None}]
FlowStates == [phase : Phases, provider : Providers, app : Apps \cup {None}]

\* Every variable has its type, and a guard that asks passport for a strategy finds
\* one under the name.
TypeOK ==
    /\ stored \in Configs
    /\ registry \in [Providers -> Apps \cup {Anonymous, None}]
    /\ request \in [Slots -> Requests]
    /\ \A r \in Slots :
         /\ request[r].stage \in {"resolve", "guard", "exchange"} => request[r].config \in Configs
         /\ request[r].kind \in {"login", "callback"} => request[r].flow \in Flows
         /\ At(r, "exchange") => request[r].kind = "callback"
         /\ At(r, "guard") => \A p \in Providers : registry[p] # None
    /\ fresh \in [Slots -> BOOLEAN]
    /\ flow \in [Flows -> FlowStates]
    /\ steady \in [Flows -> BOOLEAN]

\* An active provider without a client ID.
Lacks(c) == \E p \in Providers : c.options[p].active /\ c.options[p].app = None

\* A login through an active provider ends in the account or where the user left it,
\* with the client ID of the configuration, if no update is stored from its reading
\* of the configuration on and no request with an older configuration registers its
\* strategies between the strategies and the guard of one of its two requests.
\* Older requests that register at any other time do not harm it: before its own
\* strategies, while the user is at the provider's page, or during the exchange.
SteadyFlowSucceeds ==
    \A f \in Flows :
        LET p == flow[f].provider
        IN  steady[f] /\ On(stored, p) /\ ~Lacks(stored) =>
              /\ flow[f].phase \notin {"home", "failed"}
              /\ flow[f].phase \in {"code", "callback", "in"} =>
                   flow[f].app = stored.options[p].app

\* Once the update that turns a provider off is stored, no request that arrives
\* later exchanges a code with it, though older requests may still register its
\* strategy.
TurnedOffStaysOff ==
    \A r \in Slots : At(r, "exchange") /\ fresh[r] => On(stored, ProviderOf(r))

\* The stored configuration lacks a client ID, and no update has got past that.
Locked ==
    /\ Lacks(stored)
    /\ \A r \in Slots :
         /\ At(r, "guard") => request[r].kind # "update"
         /\ At(r, "resolve") => Lacks(request[r].config)

\* A configuration with an active provider and no client ID, which the dto and the
\* schema accept, ends configuration through the API for good: the update that
\* would correct it fails like every other request, restarts included.
LockedForGood == [][Locked => Locked']_vars

\* What a request has taken of the configuration.  An update needs no more of it
\* than its strategies.
Held(r) ==
    IF At(r, "resolve") \/ (request[r].stage \in {"guard", "exchange"} /\ request[r].kind # "update")
    THEN {request[r].config} ELSE {}

CR == INSTANCE ConfigRegister WITH
        Readers <- Slots, Vals <- Configs,
        value <- stored, got <- [r \in Slots |-> Held(r)], atomic <- TRUE

\* Requests, logins and updates use the configuration as ConfigStore offers it: a
\* request takes it once, between its arrival and its strategies, and its factories,
\* guard and handler all decide on what it took, whatever is stored meanwhile.
UsesRegister == CR!Spec
=============================================================================
